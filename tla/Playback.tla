------------------------------ MODULE Playback ------------------------------
(***************************************************************************)
(* The threads around a CentralAudioBuffer, as example/main.cpp runs them: *)
(* main decodes frames and pushes each one into the buffer, spinning until *)
(* all of it is accepted; the "player" task polls the buffer and, once it  *)
(* holds at least Threshold chunks, reads one and feeds it to the sink.  A *)
(* controller may empty the buffer at any moment (a track change or a      *)
(* stop).  The poll (hasAtLeast) takes no lock, and the chunk readChunk    *)
(* returns is a pointer into the buffer object that is used unlocked.      *)
(***************************************************************************)
EXTENDS CentralAudioBuffer

CONSTANTS Threshold,       (* hasAtLeast(64) in the player                  *)
          MaxClears        (* bound on the controller's calls               *)

VARIABLES toWrite,         (* the part of the frame not accepted yet        *)
          frameTrack,      (* the track hash that goes with it              *)
          player,          (* where the player is: poll, read or feed       *)
          clears           (* calls of the controller so far                *)

vars == <<bufferVars, toWrite, frameTrack, player, clears>>

PlaybackInit ==
  /\ Init
  /\ toWrite = <<>>
  /\ frameTrack \in Track
  /\ player = "poll"
  /\ clears = 0

(***************************************************************************)
(* main: decode a frame, then write until nothing of it is left.           *)
(***************************************************************************)
DecodeFrame ==
  /\ toWrite = <<>>
  /\ toWrite' \in Data
  /\ frameTrack' \in Track
  /\ UNCHANGED <<bufferVars, player, clears>>

WriteFrame ==
  /\ toWrite # <<>>
  /\ WritePCM(toWrite, frameTrack)
  /\ toWrite' = SubSeq(toWrite, result'.count + 1, Len(toWrite))
  /\ UNCHANGED <<frameTrack, player, clears>>

(***************************************************************************)
(* AudioPlayer::runTask.  A poll that finds too little changes nothing.    *)
(***************************************************************************)
Poll ==
  /\ player = "poll"
  /\ HasAtLeast(Threshold)
  /\ player' = "read"
  /\ UNCHANGED <<bufferVars, toWrite, frameTrack, clears>>

PlayerRead ==
  /\ player = "read"
  /\ ReadChunk
  /\ player' = IF result' = GotChunk /\ lastReadChunk'.pcm # <<>>
               THEN "feed" ELSE "poll"
  /\ UNCHANGED <<toWrite, frameTrack, clears>>

Feed ==
  /\ player = "feed"
  /\ player' = "poll"
  /\ UNCHANGED <<bufferVars, toWrite, frameTrack, clears>>

(***************************************************************************)
(* The controller.                                                         *)
(***************************************************************************)
Control ==
  /\ clears < MaxClears
  /\ clears' = clears + 1
  /\ ClearBuffer \/ EmptyCompletely
  /\ UNCHANGED <<toWrite, frameTrack, player>>

PlaybackNext ==
  \/ DecodeFrame \/ WriteFrame
  \/ Poll \/ PlayerRead \/ Feed
  \/ Control

(* Each thread is a loop the scheduler keeps running; the stream has no    *)
(* end, so the decoder always has another frame.                           *)
Fairness ==
  /\ WF_vars(DecodeFrame /\ toWrite' # <<>>)
  /\ WF_vars(WriteFrame)
  /\ WF_vars(Poll)
  /\ WF_vars(PlayerRead)
  /\ WF_vars(Feed)

PlaybackSpec == PlaybackInit /\ [][PlaybackNext]_vars /\ Fairness

(***************************************************************************)
(* Property.                                                               *)
(***************************************************************************)
(* As long as there is audio to decode the sink keeps being fed, whatever  *)
(* the controller empties and whenever it does so.                         *)
KeepsPlaying == []<>(player = "feed")
=============================================================================
