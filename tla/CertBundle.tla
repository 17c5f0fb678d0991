----------------------------- MODULE CertBundle -----------------------------
(***************************************************************************)
(* bell::X509Bundle: a bundle of subject names with their keys, sorted by  *)
(* name, and the callback mbedtls calls for each certificate of a chain.   *)
(* A cell is a byte of a name or a key, or one of the two-byte numbers: a  *)
(* bundle is the number of its certificates, and for each the lengths of   *)
(* name and key, the name, and the key.  Names are DER: they begin with    *)
(* their length, so that none is the beginning of another.                 *)
(***************************************************************************)
EXTENDS Integers, Sequences

CONSTANTS Bundles,          (* what init is called with                     *)
          Children,         (* certificates: [issuer, signer, flags], the   *)
                            (* flags being what mbedtls holds against them  *)
          BadAfterGood,     (* whether one is refused after one was taken   *)
          MaxInits          (* bound on the calls of init                   *)

VARIABLES bundleBytes,
          crts,             (* s_crt_bundle.crts, the places of the entries *)
          s_should_verify_certs,
          inits,            (* calls of init so far                         *)
          bundle,           (* the bundle of the last init that succeeded   *)
          callback,         (* crtVerifyCallback: [at, child, start, end]   *)
          verdict           (* what it gave: [child, valid]                 *)

bundleVars == <<bundleBytes, crts, s_should_verify_certs, inits, bundle, callback, verdict>>

Null == <<>>
Returned == [at |-> "returned"]
NoVerdict == [valid |-> FALSE]

BundleInit ==
  /\ bundleBytes = <<>> /\ crts = Null /\ s_should_verify_certs = FALSE
  /\ inits = 0 /\ bundle = <<0>> /\ callback = Returned /\ verdict = NoVerdict

(***************************************************************************)
(* init                                                                    *)
(***************************************************************************)
BUNDLE_HEADER_OFFSET == 1
CRT_HEADER_OFFSET == 2
Cell(bytes, i) == IF i < Len(bytes) THEN bytes[i + 1] ELSE 0
EntryEnd(bytes, at) == at + CRT_HEADER_OFFSET + Cell(bytes, at) + Cell(bytes, at + 1)

(* Where the i-th entry begins, and where the last one ends.               *)
Places(bytes) ==
  LET place[i \in 1..bytes[1] + 1] ==
        IF i = 1 THEN BUNDLE_HEADER_OFFSET ELSE EntryEnd(bytes, place[i - 1])
  IN  place
Fits(bytes) ==
  /\ \A i \in 1..bytes[1] : Places(bytes)[i] + CRT_HEADER_OFFSET <= Len(bytes)
  /\ Places(bytes)[bytes[1] + 1] <= Len(bytes)

MayInit == callback = Returned /\ inits < MaxInits /\ inits' = inits + 1

(* Too short, or there is no memory for the table.                         *)
InitThrows(bytes) ==
  /\ MayInit
  /\ UNCHANGED <<bundleBytes, crts, s_should_verify_certs, bundle, callback, verdict>>

(* A bundle that is refused is in bundleBytes already, where the entries   *)
(* of the one before were.                                                 *)
InitRefused(bytes) ==
  /\ MayInit /\ Len(bytes) >= BUNDLE_HEADER_OFFSET + CRT_HEADER_OFFSET /\ ~Fits(bytes)
  /\ crts = Null \/ BadAfterGood
  /\ bundleBytes' = bytes /\ verdict' = NoVerdict
  /\ UNCHANGED <<crts, s_should_verify_certs, bundle, callback>>

(* Mutant: the entries of the bundle before are kept.                      *)
InitDone_KeepsEntries(bytes) ==
  /\ MayInit /\ Len(bytes) >= BUNDLE_HEADER_OFFSET + CRT_HEADER_OFFSET /\ Fits(bytes)
  /\ bundleBytes' = bytes /\ bundle' = bytes /\ verdict' = NoVerdict
  /\ crts' = IF crts = Null THEN [i \in 1..bytes[1] |-> Places(bytes)[i]] ELSE crts
  /\ s_should_verify_certs' = TRUE
  /\ UNCHANGED callback

InitDone(bytes) ==
  /\ MayInit /\ Len(bytes) >= BUNDLE_HEADER_OFFSET + CRT_HEADER_OFFSET /\ Fits(bytes)
  /\ bundleBytes' = bytes /\ bundle' = bytes /\ verdict' = NoVerdict
  /\ crts' = [i \in 1..bytes[1] |-> Places(bytes)[i]]
  /\ s_should_verify_certs' = TRUE
  /\ UNCHANGED callback

(***************************************************************************)
(* crtVerifyCallback, on a connection that verifies.                       *)
(***************************************************************************)
Name(bytes, at) ==
  SubSeq(bytes, at + CRT_HEADER_OFFSET + 1, at + CRT_HEADER_OFFSET + Cell(bytes, at))
Key(bytes, at) == SubSeq(bytes, at + CRT_HEADER_OFFSET + Cell(bytes, at) + 1, EntryEnd(bytes, at))

(* memcmp over the length of the second one.                               *)
Less(a, b) ==
  \E i \in DOMAIN b : i \in DOMAIN a /\ a[i] < b[i] /\ \A j \in 1..i - 1 : a[j] = b[j]
BeginsWith(a, b) == Len(a) >= Len(b) /\ SubSeq(a, 1, Len(b)) = b

MayVerify == callback = Returned
Answer(child, valid) ==
  /\ callback' = Returned /\ verdict' = [valid |-> valid, child |-> child]
  /\ UNCHANGED <<bundleBytes, crts, s_should_verify_certs, inits, bundle>>

(* A weak hash is not held against it; with any other fault than to be     *)
(* untrusted, and with none, the flags stay as they are.                   *)
OnlyUntrusted(child) == child.flags \ {"BAD_MD"} = {"NOT_TRUSTED"}
KeepsFlags(child) == MayVerify /\ ~OnlyUntrusted(child) /\ Answer(child, child.flags = {})

(* attach is open to whoever has no bundle; an empty one counts as none.   *)
NoBundle(child) == MayVerify /\ OnlyUntrusted(child) /\ crts = Null /\ Answer(child, FALSE)

crtVerifyCallback(child) ==
  /\ MayVerify /\ OnlyUntrusted(child) /\ crts # Null
  /\ callback' = [at |-> "search", child |-> child, start |-> 0, end |-> Len(crts) - 1]
  /\ verdict' = NoVerdict
  /\ UNCHANGED <<bundleBytes, crts, s_should_verify_certs, inits, bundle>>

middle == (callback.start + callback.end) \div 2
Here == crts[middle + 1]
Comparing == callback.at = "search" /\ callback.start <= callback.end
SameName == BeginsWith(callback.child.issuer, Name(bundleBytes, Here))

Return(valid) == Answer(callback.child, valid)
Narrow(start, end) ==
  /\ callback' = [callback EXCEPT !.start = start, !.end = end]
  /\ UNCHANGED <<bundleBytes, crts, s_should_verify_certs, inits, bundle, verdict>>

(* The signature is verified with the entry's key.                         *)
crtCheckCertificate(child, key) == child.signer = key
Found ==
  /\ Comparing /\ SameName
  /\ Return(crtCheckCertificate(callback.child, Key(bundleBytes, Here)))
GoBelow ==
  /\ Comparing /\ ~SameName
  /\ Less(callback.child.issuer, Name(bundleBytes, Here))
  /\ Narrow(callback.start, middle - 1)

(* Mutant: the upper half begins with the entry that was too low.          *)
GoAbove_FromMiddle ==
  /\ Comparing /\ ~SameName
  /\ ~Less(callback.child.issuer, Name(bundleBytes, Here))
  /\ Narrow(middle, callback.end)

GoAbove ==
  /\ Comparing /\ ~SameName
  /\ ~Less(callback.child.issuer, Name(bundleBytes, Here))
  /\ Narrow(middle + 1, callback.end)
NotFound ==
  /\ callback.at = "search" /\ callback.start > callback.end /\ Return(FALSE)

Searching == Found \/ GoBelow \/ GoAbove \/ NotFound

BundleNext ==
  \/ \E bytes \in Bundles : InitThrows(bytes) \/ InitRefused(bytes) \/ InitDone(bytes)
  \/ \E child \in Children : KeepsFlags(child) \/ NoBundle(child) \/ crtVerifyCallback(child)
  \/ Searching
BundleFairness == WF_bundleVars(Searching)
BundleSpec == BundleInit /\ [][BundleNext]_bundleVars /\ BundleFairness

(***************************************************************************)
(* Properties                                                              *)
(***************************************************************************)
(* The entries of a bundle, without a search.                              *)
Entries(bytes) ==
  {<<Name(bytes, Places(bytes)[i]), Key(bytes, Places(bytes)[i])>> : i \in 1..bytes[1]}

(* A certificate held against which is only that it is not trusted is      *)
(* valid if and only if the bundle of the last init that succeeded has its *)
(* issuer with the key that signed it, wherever the issuer stands in it,   *)
(* and if it is the first or the last one; the bundle clears no other      *)
(* fault.                                                                  *)
VerdictIsOfTheBundle ==
  verdict # NoVerdict =>
    (verdict.valid <=>
       IF OnlyUntrusted(verdict.child)
         THEN <<verdict.child.issuer, verdict.child.signer>> \in Entries(bundle)
         ELSE verdict.child.flags = {})

(* The search ends.                                                        *)
CallbackReturns == callback # Returned ~> callback = Returned

TakenByInit(bytes) == Len(bytes) >= BUNDLE_HEADER_OFFSET + CRT_HEADER_OFFSET /\ Fits(bytes)
NameOf(bytes, i) == Name(bytes, Places(bytes)[i])
KeyOf(bytes, i) == Key(bytes, Places(bytes)[i])

(* Bundles are made sorted by name, and no name is the beginning of an     *)
(* issuer's but the issuer's own.                                          *)
ASSUME BundleAssumption ==
  /\ \A child \in Children : child.issuer \in Seq(Nat)
  /\ \A bytes \in Bundles : TakenByInit(bytes) =>
       /\ bytes[1] \in Nat
       /\ \A i \in 1..bytes[1] : NameOf(bytes, i) \in Seq(Nat)
       /\ \A i, j \in 1..bytes[1] : i < j => Less(NameOf(bytes, i), NameOf(bytes, j))
       /\ \A i \in 1..bytes[1], child \in Children :
            BeginsWith(child.issuer, NameOf(bytes, i)) => child.issuer = NameOf(bytes, i)
=============================================================================
