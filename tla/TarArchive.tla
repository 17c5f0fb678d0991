----------------------------- MODULE TarArchive -----------------------------
(***************************************************************************)
(* BellTar (io/BellTar.cpp): a writer that appends files to an archive,    *)
(* and a reader that walks it with the position of an istream.  The        *)
(* archive is a sequence of bytes.  A header's bytes are pairs of what the *)
(* header says and the byte's number; its first one is never Zero (the     *)
(* code's FILL_CHAR).  Bytes of files are members of Byte, Zero included.  *)
(*                                                                         *)
(* The stream is a file's: seeking beyond its end is possible.  A client   *)
(* asks for the next file only if there is one, as the code asserts.       *)
(***************************************************************************)
EXTENDS Integers, FiniteSetsExt, SequencesExt

CONSTANTS Name,
          AppleName,        (* the names that begin with "._"               *)
          Byte, Zero,
          BlockSize,        (* sizeof(tar_header)                           *)
          Scratch,          (* scratch_buffer.size()                        *)
          MaxFiles, MaxLen, (* bounds on the files written                  *)
          MayCut,           (* whether the archive may have been truncated  *)
          CountWhen         (* when the client calls number_of_files        *)

ASSUME TarAssumption ==
  /\ AppleName \subseteq Name
  /\ Zero \in Byte
  /\ {BlockSize, Scratch} \subseteq Nat \ {0}
  /\ {MaxFiles, MaxLen} \subseteq Nat
  /\ MayCut \in BOOLEAN
  /\ CountWhen \subseteq {"between", "peeked", "ended"}

VARIABLES archive,
          inp,              (* the istream: position, eofbit, failbit       *)
          cached,           (* <<>>, or <<the cached header>>               *)
          number_of_files,  (* the member, -1 before it is computed         *)
          phase,            (* writing, reading, or in extract_all_files:   *)
                            (* extract between files and copy within one    *)
          copied,           (* what extract_all_files has of a file         *)
          put, got,         (* history: the files written, those read       *)
          cut               (* history: the archive was truncated           *)

archiveVars == <<archive, inp, cached, number_of_files, phase, copied, put, got, cut>>

File == [name : Name, isDir : {FALSE}, data : BoundedSeq(Byte, MaxLen)]
Directory == [name : Name, isDir : {TRUE}, data : {<<>>}]

ArchiveInit ==
  /\ archive = <<>>
  /\ inp = [pos |-> 0, eof |-> FALSE, fail |-> FALSE]
  /\ cached = <<>> /\ number_of_files = -1
  /\ phase = "writing" /\ copied = <<>>
  /\ put = <<>> /\ got = <<>> /\ cut = FALSE

(***************************************************************************)
(* The writer.                                                             *)
(***************************************************************************)
Header(file) ==
  LET says == [name |-> file.name, size |-> Len(file.data), isDir |-> file.isDir]
  IN  [i \in 1..BlockSize |-> [says |-> says, byte |-> i]]

(* No byte of a header is mistaken for one of a file.                      *)
ASSUME HeaderAssumption ==
  \A file \in File \union Directory : \A i \in 1..BlockSize : Header(file)[i] \notin Byte

fill(size) == [i \in 1..((-size) % BlockSize) |-> Zero]

Put ==
  /\ phase = "writing" /\ Len(put) < MaxFiles
  /\ \E file \in File \union Directory :
       /\ archive' = archive \o Header(file) \o file.data \o fill(Len(file.data))
       /\ put' = Append(put, file)
  /\ UNCHANGED <<inp, cached, number_of_files, phase, copied, got, cut>>

(* finish is called by the destructor, and perhaps by the client before.   *)
Finish ==
  /\ phase = "writing"
  /\ \E times \in 1..2 :
       archive' = archive \o [i \in 1..(times * 2 * BlockSize) |-> Zero]
  /\ phase' = "reading"
  /\ UNCHANGED <<inp, cached, number_of_files, copied, put, got, cut>>

InHeader(cell) == cell \notin Byte

(* Bytes are lost at the end, but not a part of a header.                  *)
Truncate ==
  /\ MayCut /\ phase = "writing"
  /\ \E n \in 0..(Len(archive) - 1) :
       /\ InHeader(archive[n + 1]) => archive[n + 1].byte = 1
       /\ archive' = SubSeq(archive, 1, n)
  /\ cut' = TRUE /\ phase' = "reading"
  /\ UNCHANGED <<inp, cached, number_of_files, copied, put, got>>

(***************************************************************************)
(* The istream.                                                            *)
(***************************************************************************)
good(s) == ~s.eof /\ ~s.fail

HasByte(s) == good(s) /\ s.pos < Len(archive)

peek(s) ==
  [s EXCEPT !.fail = @ \/ ~good(s), !.eof = @ \/ (good(s) /\ ~HasByte(s))]

LeftFor(s, n) == {i \in 1..n : good(s) /\ s.pos + i <= Len(archive)}

BytesRead(s, n) == [i \in LeftFor(s, n) |-> archive[s.pos + i]]

read(s, n) ==
  [pos |-> s.pos + Cardinality(LeftFor(s, n)),
   eof |-> s.eof \/ (good(s) /\ s.pos + n > Len(archive)),
   fail |-> ~good(s) \/ s.pos + n > Len(archive)]

(* Seeking clears eofbit, and goes nowhere after a failure.                *)
seekg(s, pos) == [s EXCEPT !.eof = FALSE, !.pos = IF s.fail THEN @ ELSE pos]

(***************************************************************************)
(* The reader's helpers.                                                   *)
(***************************************************************************)
(* Where bytes other than Zero begin again.                                *)
PastZeros(pos) ==
  CHOOSE p \in pos..(pos + Len(archive)) :
    /\ p >= Len(archive) \/ archive[p + 1] # Zero
    /\ \A q \in pos..(p - 1) : q < Len(archive) /\ archive[q + 1] = Zero

seek_to_next_header(s) ==
  peek(IF good(s) THEN [s EXCEPT !.pos = PastZeros(s.pos)] ELSE s)

check_if_header_is_next(s) == HasByte(s) /\ archive[s.pos + 1] # Zero

(* Whatever else is parsed as a header has a name nobody gave, and here no *)
(* length.                                                                 *)
HeaderAt(pos) ==
  LET cell == archive[pos + 1]
  IN  IF InHeader(cell) /\ cell.byte = 1
      THEN cell.says
      ELSE [name |-> "garbled", size |-> 0, isDir |-> FALSE]

(* cache_header: what it leaves in the cache and the stream.               *)
NextHeader == IF cached # <<>> THEN cached[1] ELSE HeaderAt(inp.pos)
Headed == IF cached # <<>> THEN inp ELSE read(inp, BlockSize)

(* The precondition that cache_header asserts.                             *)
Another == cached # <<>> \/ check_if_header_is_next(inp)

Handled(data, skipped) ==
  got' = Append(got, [name |-> NextHeader.name, data |-> data, skipped |-> skipped])

(***************************************************************************)
(* The reader.                                                             *)
(***************************************************************************)
contains_another_file ==
  /\ phase = "reading"
  /\ inp' = IF inp.eof THEN inp ELSE peek(inp)
  /\ UNCHANGED <<archive, cached, number_of_files, phase, copied, put, got, cut>>

(* get_next_file_name, get_next_file_size and get_next_file_type.          *)
get_next_file ==
  /\ phase = "reading" /\ Another
  /\ inp' = Headed /\ cached' = <<NextHeader>>
  /\ UNCHANGED <<archive, number_of_files, phase, copied, put, got, cut>>

(* Mutant: the cached header stays valid.                                  *)
read_next_file_KeepsHeader ==
  /\ phase = "reading" /\ Another
  /\ Handled(BytesRead(Headed, NextHeader.size), FALSE)
  /\ inp' = seek_to_next_header(read(Headed, NextHeader.size))
  /\ cached' = <<NextHeader>>
  /\ UNCHANGED <<archive, number_of_files, phase, copied, put, cut>>

read_next_file ==
  /\ phase = "reading" /\ Another
  /\ Handled(BytesRead(Headed, NextHeader.size), FALSE)
  /\ inp' = seek_to_next_header(read(Headed, NextHeader.size))
  /\ cached' = <<>>
  /\ UNCHANGED <<archive, number_of_files, phase, copied, put, cut>>

SkipNext ==
  /\ Handled(<<>>, TRUE)
  /\ inp' = seek_to_next_header(seekg(Headed, Headed.pos + NextHeader.size))
  /\ cached' = <<>>
  /\ UNCHANGED <<archive, number_of_files, phase, copied, put, cut>>

skip_next_file == phase = "reading" /\ Another /\ SkipNext

(* How many times skip_next_file finds another file from a position on.    *)
FilesFrom(start) ==
  LET Count[pos \in 0..Len(archive)] ==
        IF pos < Len(archive) /\ archive[pos + 1] # Zero
        THEN LET next == PastZeros(pos + BlockSize + HeaderAt(pos).size)
             IN  1 + IF next < Len(archive) THEN Count[next] ELSE 0
        ELSE 0
  IN  IF start < Len(archive) THEN Count[start] ELSE 0

(* The situations in which a client may ask for the number of files.       *)
Situation ==
  IF cached # <<>> THEN "peeked" ELSE IF good(inp) THEN "between" ELSE "ended"

(* A valid cached header serves for the file at the archive's beginning.   *)
CountFiles ==
  CASE ~good(inp)    -> 0
    [] cached = <<>> -> FilesFrom(0)
    [] OTHER         -> 1 + FilesFrom(PastZeros(cached[1].size))

(* tellg fails when the stream is at its end; if it does not, the position *)
(* is put back, but the cached header is gone.                             *)
NumberOfFiles ==
  /\ phase = "reading" /\ number_of_files = -1 /\ Situation \in CountWhen
  /\ number_of_files' = CountFiles
  /\ inp' = [inp EXCEPT !.eof = FALSE, !.fail = ~good(inp)]
  /\ cached' = <<>>
  /\ UNCHANGED <<archive, phase, copied, put, got, cut>>

(***************************************************************************)
(* extract_all_files.                                                      *)
(***************************************************************************)
ExtractAll ==
  /\ phase = "reading"
  /\ phase' = "extract"
  /\ UNCHANGED <<archive, inp, cached, number_of_files, copied, put, got, cut>>

ExtractOpen ==
  /\ phase = "extract" /\ check_if_header_is_next(inp)
  /\ ~NextHeader.isDir /\ NextHeader.name \notin AppleName
  /\ inp' = Headed /\ cached' = <<NextHeader>>
  /\ phase' = "copy" /\ copied' = <<>>
  /\ UNCHANGED <<archive, number_of_files, put, got, cut>>

ExtractSkip ==
  /\ phase = "extract" /\ check_if_header_is_next(inp)
  /\ NextHeader.isDir \/ NextHeader.name \in AppleName
  /\ SkipNext

ExtractCopy ==
  /\ phase = "copy" /\ Len(copied) < cached[1].size
  /\ LET to_read == Min({cached[1].size - Len(copied), Scratch})
     IN  /\ copied' = copied \o BytesRead(inp, to_read)
         /\ inp' = read(inp, to_read)
  /\ UNCHANGED <<archive, cached, number_of_files, phase, put, got, cut>>

ExtractClose ==
  /\ phase = "copy" /\ Len(copied) >= cached[1].size
  /\ Handled(copied, FALSE)
  /\ cached' = <<>> /\ inp' = seek_to_next_header(inp)
  /\ phase' = "extract" /\ copied' = <<>>
  /\ UNCHANGED <<archive, number_of_files, put, cut>>

ExtractDone ==
  /\ phase = "extract" /\ ~check_if_header_is_next(inp)
  /\ inp' = IF inp.eof THEN inp ELSE peek(inp)
  /\ phase' = "reading"
  /\ UNCHANGED <<archive, cached, number_of_files, copied, put, got, cut>>

Extracting ==
  ExtractOpen \/ ExtractSkip \/ ExtractCopy \/ ExtractClose \/ ExtractDone

ArchiveNext ==
  \/ Put \/ Finish \/ Truncate
  \/ contains_another_file \/ get_next_file
  \/ read_next_file \/ skip_next_file \/ NumberOfFiles
  \/ ExtractAll \/ Extracting

(* A call of extract_all_files goes on; no other call has to be made.      *)
ArchiveSpec == ArchiveInit /\ [][ArchiveNext]_archiveVars /\ WF_archiveVars(Extracting)

(***************************************************************************)
(* Properties.                                                             *)
(***************************************************************************)
(* "The length of the data after the header must be rounded up": an        *)
(* archive is made of whole blocks and every header begins one.            *)
ArchiveTypeOK ==
  /\ inp.pos \in Nat /\ number_of_files \in -1..MaxFiles
  /\ phase \in {"writing", "reading", "extract", "copy"}
  /\ phase = "copy" => cached # <<>>
  /\ cut \/ Len(archive) % BlockSize = 0
  /\ \A i \in DOMAIN archive :
       InHeader(archive[i]) => archive[i].byte = 1 + ((i - 1) % BlockSize)

(* What was written is read back: whatever mix of calls came before, the   *)
(* files read, skipped or extracted are the first ones written, in order,  *)
(* with their names and contents, but for the end of a truncated archive.  *)
ReadBack ==
  /\ Len(got) <= Len(put)
  /\ \A i \in DOMAIN got :
       /\ got[i].name = put[i].name
       /\ \/ got[i].skipped
          \/ got[i].data = put[i].data
          \/ cut /\ i = Len(got) /\ IsPrefix(got[i].data, put[i].data)

(* "Returns number of files in tar at |inp|."                              *)
CountIsRight == number_of_files = -1 \/ cut \/ number_of_files = Len(put)

MoreToRead == check_if_header_is_next(inp) <=> Len(got) < Len(put)

(* contains_another_file: "Returns true if another file can be read from   *)
(* |inp|", between two files ...                                           *)
ContainsBetween ==
  phase = "reading" /\ ~cut /\ cached = <<>> => MoreToRead

(* The reader stays in step with the archive, and what it says of the      *)
(* archive is so.                                                          *)
ArchiveReadBack == ArchiveTypeOK /\ ReadBack /\ CountIsRight /\ ContainsBetween

(* ... and at any time.                                                    *)
ContainsAlways == phase = "reading" /\ ~cut => MoreToRead

(* The archive was cut short in the data of the file that is copied.       *)
DataIsMissing ==
  cut /\ phase = "copy" /\ ~HasByte(inp) /\ Len(copied) < cached[1].size

(* extract_all_files returns, or comes to the place where data is missing. *)
ExtractEnds == phase \in {"extract", "copy"} ~> phase = "reading" \/ DataIsMissing

(* It returns from there too.  Not so: it goes on reading nothing.         *)
ExtractReturns == phase \in {"extract", "copy"} ~> phase = "reading"
=============================================================================
