-------------------------------- MODULE Dsp --------------------------------
(***************************************************************************)
(* BellDSP and AudioPipeline (audio-dsp/): the player's thread has chunks  *)
(* processed, by the transforms of the active pipeline and an effect; a    *)
(* client replaces the pipeline, asks for an effect and tells a pipeline   *)
(* the volume.                                                             *)
(*                                                                         *)
(* process holds BellDSP's mutex, within it the pipeline's, and within     *)
(* that each transform's, which nobody else ever waits for: a transform's  *)
(* process and reconfigure are one action each.  Pipelines are built       *)
(* before they are used.  Chunks are of at most 1024 samples; process      *)
(* returns from a larger one at once.                                      *)
(***************************************************************************)
EXTENDS Transforms, FiniteSets

CONSTANTS Pipelines,        (* functions from pipelines to sequences of     *)
                            (* <<kind, json>>                               *)
          NoPipeline,
          Volume,
          ChunkSamples, Duration,
          QueryAnytime,     (* whether an effect is asked for while a chunk *)
                            (* is processed                                 *)
          MaxCalls          (* bound on the client's calls                  *)

VARIABLES transforms,       (* of each pipeline                             *)
          activePipeline,
          accessMutex,      (* BellDSP's: its holder, or free               *)
          pipelineMutex,    (* each pipeline's                              *)
          instantEffect, samplesSinceInstantQueued,
          player,           (* the call of process                          *)
          client, calls,    (* the client's call, and how many it made      *)
          applied,          (* history: of the effect, <<position, samples>>*)
          finished,         (* history: its calls of onFinish               *)
          threw             (* history: pipelines whose volumeUpdated threw *)

dspVars ==
  <<transforms, activePipeline, accessMutex, pipelineMutex, instantEffect,
    samplesSinceInstantQueued, player, client, calls, applied, finished, threw>>

lockVars == <<accessMutex, pipelineMutex>>
effectVars == <<instantEffect, samplesSinceInstantQueued, applied, finished>>
clientVars == <<client, calls, threw>>

Pipeline == DOMAIN Pipelines

ASSUME DspAssumption ==
  /\ Volume \subseteq 0..100
  /\ ChunkSamples \subseteq Nat \ {0} /\ Duration \subseteq Nat \ {0}
  /\ \A p \in Pipeline : Pipelines[p] \in Seq(ToSet(Pipelines[p]))

Heard == Volume \union {60}
NoEffect == 0
Idle == [pc |-> "idle", samples |-> 0, at |-> 0, through |-> <<>>]
NoCall == [pc |-> "idle", pipeline |-> NoPipeline, volume |-> 0, at |-> 0]

(* addTransform of each; who made a transform has reconfigured it.         *)
Built(p) == [i \in DOMAIN Pipelines[p] |-> reconfigure(New(Pipelines[p][i][1], Pipelines[p][i][2]))]

DspInit ==
  /\ transforms = [p \in Pipeline |-> Built(p)]
  /\ activePipeline = NoPipeline
  /\ accessMutex = "free" /\ pipelineMutex = [p \in Pipeline |-> "free"]
  /\ instantEffect = NoEffect /\ samplesSinceInstantQueued = 0
  /\ player = Idle /\ client = NoCall /\ calls = 0
  /\ applied = <<>> /\ finished = 0 /\ threw = {}

(***************************************************************************)
(* process                                                                 *)
(***************************************************************************)
At(pc) == player.pc = pc
Go(pc) == player' = [player EXCEPT !.pc = pc]

Process ==
  /\ At("idle") /\ accessMutex = "free"
  /\ QueryAnytime \/ client.pc # "queried"
  /\ \E n \in ChunkSamples :
       player' = [pc |-> IF activePipeline = NoPipeline THEN "left" ELSE "enter",
                  samples |-> n, at |-> 1, through |-> <<>>]
  /\ accessMutex' = "player"
  /\ UNCHANGED <<transforms, activePipeline, pipelineMutex, effectVars, clientVars>>

EnterPipeline ==
  /\ At("enter") /\ pipelineMutex[activePipeline] = "free"
  /\ pipelineMutex' = [pipelineMutex EXCEPT ![activePipeline] = "player"]
  /\ Go("transforms")
  /\ UNCHANGED <<transforms, activePipeline, accessMutex, effectVars, clientVars>>

ApplyTransform ==
  /\ At("transforms") /\ player.at <= Len(transforms[activePipeline])
  /\ player' = [player EXCEPT !.at = @ + 1,
                              !.through = Append(@, transforms[activePipeline][player.at].uses)]
  /\ UNCHANGED <<transforms, activePipeline, lockVars, effectVars, clientVars>>

LeavePipeline ==
  /\ At("transforms") /\ player.at > Len(transforms[activePipeline])
  /\ pipelineMutex' = [pipelineMutex EXCEPT ![activePipeline] = "free"]
  /\ Go("left")
  /\ UNCHANGED <<transforms, activePipeline, accessMutex, effectVars, clientVars>>

(* FadeEffect::apply: onFinish is called when the chunk ends beyond it.    *)
Applying ==
  finished' = finished + (IF samplesSinceInstantQueued + player.samples > instantEffect THEN 1 ELSE 0)

ApplyLeft ==
  /\ At("left")
  /\ IF instantEffect = NoEffect
     THEN Go("out") /\ UNCHANGED <<applied, finished>>
     ELSE /\ Applying
          /\ applied' = Append(applied, <<samplesSinceInstantQueued, player.samples>>)
          /\ Go("right")
  /\ UNCHANGED <<transforms, activePipeline, lockVars, instantEffect, samplesSinceInstantQueued,
                 clientVars>>

(* The right channel is left out if the chunk has one sample.              *)
ApplyRight ==
  /\ At("right")
  /\ IF player.samples > 1 THEN Applying ELSE UNCHANGED finished
  /\ Go("count")
  /\ UNCHANGED <<transforms, activePipeline, lockVars, instantEffect, samplesSinceInstantQueued,
                 applied, clientVars>>

CountEffect ==
  /\ At("count") /\ Go("out")
  /\ samplesSinceInstantQueued' = samplesSinceInstantQueued + player.samples
  /\ instantEffect' =
       IF instantEffect <= samplesSinceInstantQueued' THEN NoEffect ELSE instantEffect
  /\ UNCHANGED <<transforms, activePipeline, lockVars, applied, finished, clientVars>>

ProcessReturns ==
  /\ At("out") /\ player' = Idle
  /\ accessMutex' = "free"
  /\ UNCHANGED <<transforms, activePipeline, pipelineMutex, effectVars, clientVars>>

(***************************************************************************)
(* The client.                                                             *)
(***************************************************************************)
Called == client.pc = "idle" /\ calls < MaxCalls /\ calls' = calls + 1

applyPipeline ==
  /\ Called /\ accessMutex = "free"
  /\ activePipeline' \in Pipeline
  /\ UNCHANGED <<transforms, lockVars, effectVars, player, client, threw>>

(* queryInstantEffect, which takes no lock.                                *)
queryInstantEffect ==
  /\ Called /\ (QueryAnytime \/ At("idle"))
  /\ instantEffect' \in Duration
  /\ applied' = <<>> /\ finished' = 0
  /\ client' = [client EXCEPT !.pc = "queried"]
  /\ UNCHANGED <<transforms, activePipeline, lockVars, samplesSinceInstantQueued, player, threw>>

ResetCount ==
  /\ client.pc = "queried" /\ (QueryAnytime \/ At("idle"))
  /\ samplesSinceInstantQueued' = 0 /\ client' = NoCall
  /\ UNCHANGED <<transforms, activePipeline, lockVars, instantEffect, applied, finished, player,
                 calls, threw>>

(* Mutant: the pipeline's mutex is not taken.                              *)
volumeUpdated_Unlocked ==
  /\ Called
  /\ \E p \in Pipeline, v \in Volume :
       client' = [pc |-> "volume", pipeline |-> p, volume |-> v, at |-> 1]
  /\ UNCHANGED <<transforms, activePipeline, lockVars, effectVars, player, threw>>

volumeUpdated ==
  /\ Called
  /\ \E p \in Pipeline, v \in Volume :
       /\ pipelineMutex[p] = "free"
       /\ pipelineMutex' = [pipelineMutex EXCEPT ![p] = "client"]
       /\ client' = [pc |-> "volume", pipeline |-> p, volume |-> v, at |-> 1]
  /\ UNCHANGED <<transforms, activePipeline, accessMutex, effectVars, player, threw>>

Renewed == [transforms[client.pipeline][client.at] EXCEPT !.volume = client.volume]

(* Mutant: the transform that threw is tried again.                        *)
UpdateTransform_Retries ==
  /\ client.pc = "volume" /\ client.at <= Len(transforms[client.pipeline])
  /\ IF Throws(Renewed)
     THEN UNCHANGED <<transforms, client>> /\ threw' = threw \union {client.pipeline}
     ELSE /\ transforms' = [transforms EXCEPT ![client.pipeline][client.at] = reconfigure(Renewed)]
          /\ client' = [client EXCEPT !.at = @ + 1] /\ UNCHANGED threw
  /\ UNCHANGED <<activePipeline, lockVars, effectVars, player, calls>>

(* An exception leaves the transforms that follow as they were.            *)
UpdateTransform ==
  /\ client.pc = "volume" /\ client.at <= Len(transforms[client.pipeline])
  /\ transforms' = [transforms EXCEPT ![client.pipeline][client.at] = reconfigure(Renewed)]
  /\ IF Throws(Renewed)
     THEN client' = [client EXCEPT !.pc = "threw"] /\ threw' = threw \union {client.pipeline}
     ELSE client' = [client EXCEPT !.at = @ + 1] /\ UNCHANGED threw
  /\ UNCHANGED <<activePipeline, lockVars, effectVars, player, calls>>

VolumeReturns ==
  /\ client.pc = "threw" \/ (client.pc = "volume" /\ client.at > Len(transforms[client.pipeline]))
  /\ pipelineMutex' = [pipelineMutex EXCEPT ![client.pipeline] = "free"]
  /\ client' = NoCall
  /\ UNCHANGED <<transforms, activePipeline, accessMutex, effectVars, player, calls, threw>>

Processing ==
  EnterPipeline \/ ApplyTransform \/ LeavePipeline \/ ApplyLeft \/ ApplyRight \/ CountEffect
    \/ ProcessReturns

Updating == ResetCount \/ UpdateTransform \/ VolumeReturns

DspNext ==
  Process \/ Processing \/ applyPipeline \/ queryInstantEffect \/ volumeUpdated \/ Updating

(* A thread inside a call goes on when it can.                             *)
DspFairness == WF_dspVars(Processing) /\ WF_dspVars(Updating)
DspSpec == DspInit /\ [][DspNext]_dspVars /\ DspFairness

AllMeaningful ==
  \A p \in Pipeline : \A i \in DOMAIN Pipelines[p] :
    Meaningful(Pipelines[p][i][1], Pipelines[p][i][2], Heard)

(***************************************************************************)
(* Properties.                                                             *)
(***************************************************************************)
(* Whatever the client changes meanwhile, a chunk goes through the         *)
(* transforms of one pipeline, all of them, configured for one volume:     *)
(* never the first for the old one and the last for the new one.           *)
ChunkHasOneVolume ==
  At("left") /\ activePipeline # NoPipeline /\ activePipeline \notin threw =>
    \E v \in Heard :
      player.through =
        [i \in DOMAIN Pipelines[activePipeline] |->
           AtVolume(New(Pipelines[activePipeline][i][1], Pipelines[activePipeline][i][2]), v).uses]

(* A transform that compares new settings with those it has never keeps    *)
(* old ones: it uses what a new one would at this volume.                  *)
ConfiguredForVolume ==
  \A p \in Pipeline \ threw : client.pc = "idle" =>
    \A i \in DOMAIN transforms[p] :
      LET t == transforms[p][i] IN t.uses = AtVolume(New(t.kind, t.json), t.volume).uses

Current == UNION {ToSet(transforms[p]) : p \in Pipeline}

(* A field of several values has one for every volume: the first for the   *)
(* lowest, the last for the highest, and never an earlier one for a higher *)
(* volume.                                                                 *)
VolumeChoosesValue ==
  \A t \in Current : \A f \in DOMAIN t.json :
    LET size == Len(t.json[f])
    IN  /\ t.volume = 0 => ValueIndex(t.volume, size) = 0
        /\ t.volume = 100 => ValueIndex(t.volume, size) = size - 1
        /\ \A v \in Volume : v <= t.volume => ValueIndex(v, size) <= ValueIndex(t.volume, size)

(* A Linkwitz-Riley filter of an even order is made of second-order        *)
(* filters that add up to it.                                              *)
ComboHasItsOrder ==
  \A t \in Current : t.kind = "BiquadCombo" /\ t.uses.biquads # NoBiquads =>
    /\ 2 * Len(t.uses.biquads.q) = t.cache.order
    /\ \A i \in DOMAIN t.uses.biquads.q : t.uses.biquads.q[i] # -1

Total == IF applied = <<>> THEN 0 ELSE Last(applied)[1] + Last(applied)[2]

(* An effect is applied from its beginning, without a gap or a repetition, *)
(* and until the chunk it ends in, over however many chunks that is.       *)
EffectIsContinuous ==
  At("idle") /\ client.pc # "queried" =>
    /\ applied # <<>> => applied[1][1] = 0
    /\ \A i \in 1..(Len(applied) - 1) : applied[i + 1][1] = applied[i][1] + applied[i][2]
    /\ \A d \in Duration : instantEffect = d => samplesSinceInstantQueued = Total /\ Total < d

(* The transforms are configured for the volume they were told last, a     *)
(* chunk meets one configuration of them, and an effect goes on from chunk *)
(* to chunk.                                                               *)
ChunksAsConfigured ==
  /\ ChunkHasOneVolume /\ ConfiguredForVolume
  /\ VolumeChoosesValue /\ ComboHasItsOrder
  /\ EffectIsContinuous

(* No call of process waits for ever, even if a volume update throws.      *)
EveryChunkReturns == ~At("idle") ~> At("idle")

(* The effect in use is not replaced.  Not so of one asked for anytime.    *)
EffectInUseStays == [][player.pc \in {"left", "right", "count"} /\ player'.pc # "out"
                        /\ instantEffect # NoEffect => instantEffect' = instantEffect]_dspVars

(* An effect that is over has told so once.  Not so: it does for each      *)
(* channel, and not at all if it ends with a chunk.                        *)
FinishedOnce == At("idle") /\ instantEffect = NoEffect /\ applied # <<>> => finished = 1
=============================================================================
