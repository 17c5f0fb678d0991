------------------------------ MODULE MCSinks ------------------------------
(* The audio sinks, each by itself: a behaviour runs the one part names.   *)
EXTENDS AlsaSink, Codecs, I2sSinks

VARIABLE part

TwoByteBlocks == {[i \in 1..2 |-> at + i] : at \in 0..MaxBytes}

SomeSamples == {<<0, 0>>, <<255, 127>>, <<2, 128>>}

(* The part "word" takes no step: it looks at one sample's encoding.       *)
MCInit ==
  /\ part \in {"alsa", "codec", "i2s", "spdif", "word"}
  /\ SinkInit /\ BusInit
  /\ SpdifInit /\ (part = "word" \/ word = <<0, 0>>)
  /\ codec \in IF part = "codec" THEN {"es8311", "ac101", "es8388", "tas5711"} ELSE {"ac101"}

MCNext ==
  /\ UNCHANGED part
  /\ \/ part = "alsa" /\ SinkNext /\ UNCHANGED <<codecVars, spdifVars>>
     \/ part = "codec" /\ CodecNext /\ UNCHANGED <<vars, spdifVars>>
     \/ /\ part = "i2s" /\ (FeedFrames \/ I2sNext)
        /\ UNCHANGED <<vars, codecVars, spdif_buf, feeding, given, word>>
     \/ part = "spdif" /\ SpdifNext /\ UNCHANGED <<vars, codecVars>>

MCSpec ==
  /\ MCInit /\ [][MCNext]_<<part, vars, codecVars, spdifVars>>
  /\ WF_vars(part = "alsa" /\ (Cut \/ PushBlock))
  /\ WF_vars(part = "alsa" /\ (PopBlock \/ WriteBlock))
  /\ I2sFairness

(* What is fed to a sink is played, but for the last block the ALSA sink   *)
(* keeps; feedPCMFrames returns, whatever the drivers refuse in between.   *)
FedIsPlayed == FeedReturns /\ AllButOneBlockPlayed /\ AllPlayed
=============================================================================
