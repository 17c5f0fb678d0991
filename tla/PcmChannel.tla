----------------------------- MODULE PcmChannel -----------------------------
(***************************************************************************)
(* What CentralAudioBuffer promises the decoder that writes PCM into it    *)
(* and the player that reads chunks from it: one stream of samples, each   *)
(* marked with its track.  No chunk, ring or byte appears.                 *)
(*                                                                         *)
(*   - A write appends a prefix of its samples, and says how long it was.  *)
(*   - A read takes samples from the front, in order, all of one track;    *)
(*     it comes back empty-handed only if no more than Slack samples, of   *)
(*     one track, are waiting (they are still being collected).            *)
(*   - Emptying loses the oldest samples, clearing loses all of them; no   *)
(*     other call loses, repeats, reorders or relabels a sample.           *)
(***************************************************************************)
EXTENDS Integers, Sequences

CONSTANTS Track, Sample,
          Slack,        (* how much may be held back from a read            *)
          Most,         (* the largest number of samples one read takes     *)
          MaxWrite      (* bound on the size of one write                   *)

VARIABLES pending,      (* accepted and not yet read: <<track, sample>>     *)
          delivered     (* what the last call gave its caller               *)

channelVars == <<pending, delivered>>

Labelled(track, samples) == [i \in DOMAIN samples |-> <<track, samples[i]>>]
OneTrack(q) == \A i, j \in DOMAIN q : q[i][1] = q[j][1]
Data == UNION {[1..n -> Sample] : n \in 0..MaxWrite}

Done(op) == [op |-> op]
Count(n) == [op |-> "writePCM", count |-> n]
Empty == [op |-> "readChunk", null |-> TRUE]
Handed(q) == [op |-> "readChunk", null |-> FALSE, samples |-> q]

ChannelInit == pending = <<>> /\ delivered = Done("none")

ChannelWrite(track, data) == \E n \in 0..Len(data) :
  /\ delivered' = Count(n)
  /\ pending' = pending \o Labelled(track, SubSeq(data, 1, n))

ChannelRead == \E n \in 0..Most :
  /\ n <= Len(pending)
  /\ delivered' = Handed(SubSeq(pending, 1, n))
  /\ OneTrack(SubSeq(pending, 1, n))
  /\ pending' = SubSeq(pending, n + 1, Len(pending))

ChannelReadEmpty ==
  /\ delivered' = Empty
  /\ Len(pending) <= Slack
  /\ OneTrack(pending)
  /\ UNCHANGED pending

ChannelClear == delivered' = Done("clearBuffer") /\ pending' = <<>>

(* Only samples still being collected survive: at most Slack, of one track. *)
ChannelEmpty == \E n \in 0..Slack :
  /\ delivered' = Done("emptyCompletely")
  /\ n <= Len(pending)
  /\ pending' = SubSeq(pending, Len(pending) - n + 1, Len(pending))
  /\ OneTrack(pending')

ChannelNext ==
  \/ \E track \in Track, data \in Data : ChannelWrite(track, data)
  \/ ChannelRead
  \/ ChannelReadEmpty
  \/ ChannelClear
  \/ ChannelEmpty

ChannelSpec == ChannelInit /\ [][ChannelNext]_channelVars
=============================================================================
