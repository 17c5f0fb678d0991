------------------------------ MODULE I2sSinks ------------------------------
(***************************************************************************)
(* BufferedAudioSink (audio-sinks/esp): a sink's frames go into a byte     *)
(* ring, from which the task i2sFeed writes them to the I2S driver.  The   *)
(* ring is FreeRTOS's, the driver ESP-IDF's; both are external.            *)
(***************************************************************************)
EXTENDS Integers, Sequences, FiniteSets

CONSTANTS RingSize,     (* elements the ring holds                          *)
          UpTo,         (* elements the task takes at a time, 512 bytes     *)
          MaxSent,      (* bound on the elements sent                       *)
          MaxRetries    (* bound on the driver's short writes               *)

VARIABLES ring,         (* what the task has not received yet               *)
          item,         (* what it received and has not returned            *)
          sent,         (* history: what feedPCMFrames put into the ring    *)
          played,       (* history: what the driver took, item by item      *)
          repeats,      (* history: what it took of an item and was given   *)
                        (* again, with what had been played by then         *)
          refused       (* history: elements larger than the ring, lost     *)

i2sVars == <<ring, item, sent, played, repeats, refused>>

I2sInit ==
  /\ ring = <<>> /\ item = <<>> /\ sent = <<>> /\ played = <<>> /\ repeats = <<>>
  /\ refused = 0

(* xRingbufferSend waits for room, except for what would never fit; the    *)
(* result is ignored.  The received item keeps its room until returned.    *)
RingSend(data) ==
  IF Len(data) > RingSize
  THEN refused' = refused + Len(data) /\ UNCHANGED <<ring, sent>>
  ELSE /\ Len(ring) + Len(item) + Len(data) <= RingSize
       /\ ring' = ring \o data /\ sent' = sent \o data /\ UNCHANGED refused

feedPCMFramesInternal(data) == RingSend(data) /\ UNCHANGED <<item, played, repeats>>

(* feedPCMFrames of a sink that passes its frames on unchanged.            *)
FeedFrames ==
  \E n \in 1..(RingSize + 1) :
    /\ Len(sent) + refused + n <= MaxSent
    /\ feedPCMFramesInternal([i \in 1..n |-> Len(sent) + refused + i])

(* The data returned is contiguous in the ring's memory: it may be less    *)
(* than what is there.                                                     *)
Receive ==
  /\ item = <<>> /\ ring # <<>>
  /\ \E n \in 1..(IF Len(ring) < UpTo THEN Len(ring) ELSE UpTo) :
       /\ item' = SubSeq(ring, 1, n)
       /\ ring' = SubSeq(ring, n + 1, Len(ring))
  /\ UNCHANGED <<sent, played, repeats, refused>>

(* Mutant: the task does not look at what the driver took.                 *)
I2sWrite_Once ==
  /\ item # <<>> /\ item' = <<>>
  /\ \E n \in 0..Len(item) : played' = played \o SubSeq(item, 1, n)
  /\ UNCHANGED <<ring, sent, repeats, refused>>

(* The driver takes n elements of the item: none while setParams has it    *)
(* uninstalled, or some.  Unless it took all in this one call, the task    *)
(* writes the item again, from its beginning.                              *)
I2sWrite ==
  /\ item # <<>>
  /\ \E n \in 0..Len(item) :
       \/ /\ n = Len(item) /\ item' = <<>>
          /\ played' = played \o item /\ UNCHANGED repeats
       \/ /\ n < Len(item) /\ Len(repeats) < MaxRetries
          /\ repeats' = Append(repeats, [at |-> Len(played), data |-> SubSeq(item, 1, n)])
          /\ UNCHANGED <<item, played>>
  /\ UNCHANGED <<ring, sent, refused>>

I2sNext == Receive \/ I2sWrite

I2sFairness == WF_i2sVars(I2sNext)

(***************************************************************************)
(* SPDIFAudioSink: 16-bit samples are encoded to biphase mark code, two    *)
(* table look-ups a sample, into a block of subframes with preambles,      *)
(* which goes to the ring when it is full.                                 *)
(*                                                                         *)
(* A 32-bit word is the set of the positions that are one, position 0      *)
(* being the most significant bit, the first on the wire.                  *)
(***************************************************************************)
CONSTANTS FRAMES_PER_BLOCK,
          Samples,          (* the samples played, <<low byte, high byte>>  *)
          MaxGiven            (* bound on the samples fed                       *)

VARIABLES spdif_buf,        (* the data words of the block being filled     *)
          feeding,          (* the samples left of feedPCMFrames' call      *)
          given,              (* history: all samples fed                       *)
          word              (* a sample whose encoding is looked at         *)

spdifVars == <<i2sVars, spdif_buf, feeding, given, word>>

bmc_convert ==
  <<\h3333, \hB333, \hD333, \h5333, \hCB33, \h4B33, \h2B33, \hAB33, \hCD33, \h4D33, \h2D33,
    \hAD33, \h3533, \hB533, \hD533, \h5533, \hCCB3, \h4CB3, \h2CB3, \hACB3, \h34B3, \hB4B3,
    \hD4B3, \h54B3, \h32B3, \hB2B3, \hD2B3, \h52B3, \hCAB3, \h4AB3, \h2AB3, \hAAB3, \hCCD3,
    \h4CD3, \h2CD3, \hACD3, \h34D3, \hB4D3, \hD4D3, \h54D3, \h32D3, \hB2D3, \hD2D3, \h52D3,
    \hCAD3, \h4AD3, \h2AD3, \hAAD3, \h3353, \hB353, \hD353, \h5353, \hCB53, \h4B53, \h2B53,
    \hAB53, \hCD53, \h4D53, \h2D53, \hAD53, \h3553, \hB553, \hD553, \h5553, \hCCCB, \h4CCB,
    \h2CCB, \hACCB, \h34CB, \hB4CB, \hD4CB, \h54CB, \h32CB, \hB2CB, \hD2CB, \h52CB, \hCACB,
    \h4ACB, \h2ACB, \hAACB, \h334B, \hB34B, \hD34B, \h534B, \hCB4B, \h4B4B, \h2B4B, \hAB4B,
    \hCD4B, \h4D4B, \h2D4B, \hAD4B, \h354B, \hB54B, \hD54B, \h554B, \h332B, \hB32B, \hD32B,
    \h532B, \hCB2B, \h4B2B, \h2B2B, \hAB2B, \hCD2B, \h4D2B, \h2D2B, \hAD2B, \h352B, \hB52B,
    \hD52B, \h552B, \hCCAB, \h4CAB, \h2CAB, \hACAB, \h34AB, \hB4AB, \hD4AB, \h54AB, \h32AB,
    \hB2AB, \hD2AB, \h52AB, \hCAAB, \h4AAB, \h2AAB, \hAAAB, \hCCCD, \h4CCD, \h2CCD, \hACCD,
    \h34CD, \hB4CD, \hD4CD, \h54CD, \h32CD, \hB2CD, \hD2CD, \h52CD, \hCACD, \h4ACD, \h2ACD,
    \hAACD, \h334D, \hB34D, \hD34D, \h534D, \hCB4D, \h4B4D, \h2B4D, \hAB4D, \hCD4D, \h4D4D,
    \h2D4D, \hAD4D, \h354D, \hB54D, \hD54D, \h554D, \h332D, \hB32D, \hD32D, \h532D, \hCB2D,
    \h4B2D, \h2B2D, \hAB2D, \hCD2D, \h4D2D, \h2D2D, \hAD2D, \h352D, \hB52D, \hD52D, \h552D,
    \hCCAD, \h4CAD, \h2CAD, \hACAD, \h34AD, \hB4AD, \hD4AD, \h54AD, \h32AD, \hB2AD, \hD2AD,
    \h52AD, \hCAAD, \h4AAD, \h2AAD, \hAAAD, \h3335, \hB335, \hD335, \h5335, \hCB35, \h4B35,
    \h2B35, \hAB35, \hCD35, \h4D35, \h2D35, \hAD35, \h3535, \hB535, \hD535, \h5535, \hCCB5,
    \h4CB5, \h2CB5, \hACB5, \h34B5, \hB4B5, \hD4B5, \h54B5, \h32B5, \hB2B5, \hD2B5, \h52B5,
    \hCAB5, \h4AB5, \h2AB5, \hAAB5, \hCCD5, \h4CD5, \h2CD5, \hACD5, \h34D5, \hB4D5, \hD4D5,
    \h54D5, \h32D5, \hB2D5, \hD2D5, \h52D5, \hCAD5, \h4AD5, \h2AD5, \hAAD5, \h3355, \hB355,
    \hD355, \h5355, \hCB55, \h4B55, \h2B55, \hAB55, \hCD55, \h4D55, \h2D55, \hAD55, \h3555,
    \hB555, \hD555, \h5555>>

Ones(code) == {i \in 0..15 : (code \div 2^(15 - i)) % 2 = 1}
Flip(ones) == (0..15) \ ones

(* The low byte's pattern, flipped if the high byte's begins with a one    *)
(* (its sign extension), before the high byte's; the first bit is cleared. *)
Encode(sample) ==
  LET low == Ones(bmc_convert[sample[1] + 1])
      high == Ones(bmc_convert[sample[2] + 1])
  IN  ((IF 0 \in high THEN Flip(low) ELSE low) \ {0}) \union {16 + i : i \in high}

(* spdif_buf_init: the preambles, one before each data word.               *)
Preamble(i) == IF i = 1 THEN "B" ELSE IF i % 2 = 0 THEN "W" ELSE "M"

BlockSize == 2 * FRAMES_PER_BLOCK

(* startI2sFeed creates the ring for sixteen blocks.                       *)
ASSUME SpdifAssumption ==
  /\ {FRAMES_PER_BLOCK, UpTo} \subseteq Nat \ {0}
  /\ RingSize \in Nat /\ BlockSize <= RingSize

Subframes(words) == [i \in 1..BlockSize |-> [preamble |-> Preamble(i), data |-> words[i]]]

AnySample == (0..255) \X (0..255)

SpdifInit ==
  /\ I2sInit
  /\ spdif_buf = <<>> /\ feeding = <<>> /\ given = <<>>
  /\ word \in AnySample

(* feedPCMFrames takes any number of samples.                              *)
SpdifFeed ==
  /\ feeding = <<>>
  /\ \E s \in Samples, t \in Samples, n \in 1..2 :
       /\ Len(given) + n <= MaxGiven
       /\ feeding' = SubSeq(<<s, t>>, 1, n)
       /\ given' = given \o feeding'
  /\ UNCHANGED <<i2sVars, spdif_buf, word>>

(* One sample; the last of a block first waits for room in the ring.       *)
EncodeSample ==
  /\ feeding # <<>>
  /\ feeding' = Tail(feeding)
  /\ LET words == Append(spdif_buf, Encode(Head(feeding)))
     IN  IF Len(words) < BlockSize
         THEN spdif_buf' = words /\ UNCHANGED i2sVars
         ELSE spdif_buf' = <<>> /\ feedPCMFramesInternal(Subframes(words))
  /\ UNCHANGED <<given, word>>

SpdifNext == SpdifFeed \/ EncodeSample \/ (I2sNext /\ UNCHANGED <<spdif_buf, feeding, given, word>>)
SpdifSpec == SpdifInit /\ [][SpdifNext]_spdifVars

(***************************************************************************)
(* Properties.                                                             *)
(***************************************************************************)
(* No element sent is skipped or overtakes another: the items the driver   *)
(* took, the item being written and the ring are together what was sent;   *)
(* and what it took besides is a beginning of what came next.              *)
PlayedInOrder ==
  /\ played \o item \o ring = sent
  /\ \A i \in DOMAIN repeats :
       \A k \in DOMAIN repeats[i].data : repeats[i].data[k] = sent[repeats[i].at + k]

(* Not so: after a short write the beginning of the item is played again.  *)
PlayedOnce == \A i \in DOMAIN repeats : repeats[i].data = <<>>

(* Everything sent is eventually played, whatever the driver refuses in    *)
(* between.                                                                *)
AllPlayed == \A n \in 1..MaxSent : Len(sent) >= n ~> Len(played) >= n

One(w, i) == i \in w
Decoded(w, k) == One(w, 2 * k) # One(w, 2 * k + 1)
SampleBit(sample, k) ==
  IF k < 8 THEN (sample[1] \div 2^k) % 2 = 1 ELSE (sample[2] \div 2^(k - 8)) % 2 = 1

(* A word is biphase mark code that fits between the zeros before it and   *)
(* the status bits after it: it starts low and ends high, changes at every *)
(* bit's boundary, and has an even number of ones, for which the sample's  *)
(* lowest bit is given up.                                                 *)
ValidCode(w) ==
  /\ ~One(w, 0) /\ One(w, 31)
  /\ \A k \in 1..15 : One(w, 2 * k) # One(w, 2 * k - 1)
  /\ Cardinality({k \in 0..15 : Decoded(w, k)}) % 2 = 0

Carries(w, sample) == \A k \in 1..15 : Decoded(w, k) = SampleBit(sample, k)

Encodes(sample) == ValidCode(Encode(sample)) /\ Carries(Encode(sample), sample)
EncodesTheSample == Encodes(word)

(* What was sent to the driver and what waits in the block are the samples *)
(* given so far, in order, a left one (B or M) and a right one (W) in turn.  *)
BlocksAreTheSamples ==
  LET words == [i \in DOMAIN sent |-> sent[i].data] \o spdif_buf
      frames == Len(given) - Len(feeding)
  IN  given # <<>> =>
      /\ Len(words) = frames
      /\ \A i \in 1..frames : Carries(words[i], given[i])
      /\ \A i \in DOMAIN sent : (sent[i].preamble = "W") = (i % 2 = 0)
      /\ \A i \in DOMAIN sent : (sent[i].preamble = "B") = (i % BlockSize = 1)

(* The driver gets the samples that were fed, in order, none missing, as a *)
(* receiver decodes them; again only the beginning of an item of which it  *)
(* did not take all at once.                                               *)
SamplesOnTheWire == PlayedInOrder /\ EncodesTheSample /\ BlocksAreTheSamples
=============================================================================
