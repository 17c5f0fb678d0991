----------------------------- MODULE MCFormats -----------------------------
(* The formats: an archive, a container and its decoder, and an encoded    *)
(* stream.  They share no state: each behaviour is that of one part.       *)
EXTENDS TarArchive, Containers

VARIABLE part

(* Frames of four and two bytes and bytes that are of no frame.            *)
Segments == {<<4, 0, 0, 0>>, <<2, 0>>, <<0>>}
SomeStreams == {FlattenSeq(s) : s \in [1..6 -> Segments]}

(* The window is of four bytes: a frame of five never fits.  A source that *)
(* does not know its size says 0.                                          *)
EncodedSegments == {<<3, 0, 0>>, <<2, 0>>, <<0, 0>>, <<5, 0, 0, 0, 0>>}
Source(f, cells, known) ==
  [format |-> f, cells |-> cells, size |-> IF known THEN Len(cells) ELSE 0]
SomeEncoded ==
  {Source("MP3", FlattenSeq(s), known) : s \in [1..3 -> EncodedSegments], known \in BOOLEAN}
  \union {Source(f, <<0, 0, 0>>, TRUE) : f \in {"AAC", "other"}}

MCInit ==
  /\ part \in {"archive", "container", "encoded"}
  /\ ArchiveInit /\ ContainerInit /\ EncodedInit
  /\ part # "container" =>
       codecType = "AAC" /\ stream = FlattenSeq([i \in 1..6 |-> <<0>>]) /\ fetched = 0

MCNext ==
  /\ UNCHANGED part
  /\ \/ part = "archive" /\ ArchiveNext /\ UNCHANGED <<containerVars, encodedVars>>
     \/ part = "container" /\ ContainerNext /\ UNCHANGED <<archiveVars, encodedVars>>
     \/ part = "encoded" /\ EncodedNext /\ UNCHANGED <<archiveVars, containerVars>>

MCVars == <<part, archiveVars, containerVars, encodedVars>>

MCSpec ==
  /\ MCInit /\ [][MCNext]_MCVars
  /\ WF_archiveVars(part = "archive" /\ Extracting)
  /\ WF_containerVars(part = "container" /\ ContainerNext)
  /\ WF_encodedVars(part = "encoded" /\ decodeFrame)

(* A reader that goes on gets on.  extract_all_files returns, or is where  *)
(* the archive was cut in a file's data, and stays there; a container with *)
(* junk in it comes to its end, or, if it is of AAC, into resyncADTS, and  *)
(* stays there; a decoder of an MP3 source comes to the source's end.      *)
EndsAreReached ==
  /\ ExtractEnds
  /\ (part = "container" => ContainerEnds)
  /\ ReadToTheEnd
=============================================================================
