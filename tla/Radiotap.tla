------------------------------- MODULE Radiotap -------------------------------
(***************************************************************************)
(* The walk over the fields of a captured frame's radiotap header          *)
(* (hardware/rssi/radiotap.cc) and what radiotap_capture.cc keeps of them.  *)
(*                                                                         *)
(* A header is [version, words, vendors, length]: its words of present     *)
(* bits, for each word the namespace its bit 30 opens, as [known, length], *)
(* and the version and the length it states.  A byte is named by its       *)
(* offset, and so is what is read from it; offset 0 stands for the default *)
(* of a value.                                                             *)
(***************************************************************************)
EXTENDS Integers, Sequences, FiniteSetsExt, TLC

CONSTANTS Header, None

MaxLength == 2014  \* what getRadiotapData says the frame has, whatever it has

\* The namespace bits, the same in every word.
RadiotapNamespace == 29
VendorNamespace == 30
Ext == 31

ASSUME HeaderAssumption ==
  /\ None \notin Header
  /\ \A h \in Header :
       /\ h.version \in 0..255 /\ h.length \in Nat /\ h.words \in Seq(SUBSET (0..Ext)) /\ Len(h.words) > 0
       /\ \A w \in DOMAIN h.words :
            /\ Ext \in h.words[w] <=> w < Len(h.words)
            /\ h.vendors[w].known \in BOOLEAN /\ h.vendors[w].length \in Nat

\* Alignment and size of the fields of the radiotap namespace, and of the vendor
\* namespace 00:00:00/0.
RadiotapSizes ==
  << <<8, 8>>, <<1, 1>>, <<1, 1>>, <<2, 4>>, <<2, 2>>, <<1, 1>>, <<1, 1>>, <<2, 2>>,
     <<2, 2>>, <<2, 2>>, <<1, 1>>, <<1, 1>>, <<1, 1>>, <<1, 1>>, <<2, 2>>, <<2, 2>>,
     <<1, 1>>, <<1, 1>>, <<4, 4>>, <<1, 3>>, <<4, 8>>, <<2, 12>>, <<8, 12>> >>
VendorSizes == [i \in 1..53 |-> <<IF i \in {1, 53} THEN 1 ELSE 4, 4>>]

Sizes(namespace) == IF namespace = "radiotap" THEN RadiotapSizes ELSE VendorSizes

\* Where a field is stored.  FHSS goes with the signal, and the fields from lock
\* quality to antenna with the other signal: their cases have no break.
Members ==
  {"rate", "channelFrequency", "dbmAntsignal", "dbmAntnoise", "dbAntsignal", "dbAntnoise"}
Stored ==
  (2 :> "rate") @@ (3 :> "channelFrequency") @@ [i \in 4..5 |-> "dbmAntsignal"]
  @@ (6 :> "dbmAntnoise") @@ [i \in 7..12 |-> "dbAntsignal"] @@ (13 :> "dbAntnoise")

VARIABLES
  header, \* the header being read, or None
  iter,   \* the iterator: word, left (_bitmap_shifter), since (words since the
          \* index was reset), arg, namespace, isRadiotap, next (_next_ns_data),
          \* reset (_reset_on_ext), err
  data,   \* RadiotapData: the offset each member was read from
  found   \* history: the fields and vendor headers that were passed

radiotapVars == <<header, iter, data, found>>

Default == [m \in Members |-> 0]

NoIterator ==
  [word |-> 1, left |-> {}, since |-> 0, arg |-> 0, namespace |-> "radiotap",
   isRadiotap |-> TRUE, next |-> 0, reset |-> FALSE, err |-> "none"]

RadiotapInit == header = None /\ iter = NoIterator /\ data = Default /\ found = {}
-----------------------------------------------------------------------------
\* Only version 0 is read.  The data starts after the present words, which have to be
\* in the header.
IteratorInit(h) ==
  LET start == 4 + 4 * Len(h.words)
  IN  IF h.version # 0 \/ h.length > MaxLength \/ (Len(h.words) > 1 /\ start > h.length)
      THEN [NoIterator EXCEPT !.err = "EINVAL"]
      ELSE [NoIterator EXCEPT !.left = h.words[1], !.arg = start]

GetRadiotapData(h) ==
  /\ header' = h /\ iter' = IteratorInit(h) /\ data' = Default /\ found' = {}

Aligned(arg, align) == arg + ((-arg) % align)

Bit == Min(iter.left)
ArgIndex == 32 * iter.since + Bit
Walking == header # None /\ iter.err = "none"
Passed == [iter EXCEPT !.left = @ \ {Bit}]

Stop(err) == iter' = [iter EXCEPT !.err = err] /\ UNCHANGED <<header, data, found>>

\* Bug: no padding.
BugPass(at, size, next, kept) ==
  IF iter.arg + size > header.length THEN Stop("EINVAL")
  ELSE /\ iter' = [next EXCEPT !.arg = iter.arg + size]
       /\ found' = found \cup
            {[word |-> iter.word, bit |-> Bit, index |-> ArgIndex, at |-> iter.arg, size |-> size]}
       /\ data' = [m \in Members |-> IF m \in kept THEN iter.arg ELSE data[m]]
       /\ UNCHANGED header

\* The iterator moves past what is at an offset, which must be in the header.
Pass(at, size, next, kept) ==
  IF at + size > header.length THEN Stop("EINVAL")
  ELSE /\ iter' = [next EXCEPT !.arg = at + size]
       /\ found' = found \cup
            {[word |-> iter.word, bit |-> Bit, index |-> ArgIndex, at |-> at, size |-> size]}
       /\ data' = [m \in Members |-> IF m \in kept THEN at ELSE data[m]]
       /\ UNCHANGED header

Field ==
  /\ Walking /\ iter.left # {} /\ Bit < RadiotapNamespace
  /\ iter.namespace # "unknown" /\ ArgIndex < Len(Sizes(iter.namespace))
  /\ LET layout == Sizes(iter.namespace)[ArgIndex + 1]
         kept == IF iter.isRadiotap /\ ArgIndex \in DOMAIN Stored THEN {Stored[ArgIndex]} ELSE {}
     IN  Pass(Aligned(iter.arg, layout[1]), layout[2], Passed, kept)

\* The fields of a namespace nobody knows: its data is skipped.  A vendor's field
\* that its table does not have makes the rest of the namespace such a one.
SkipField ==
  /\ Walking /\ iter.left # {} /\ Bit < RadiotapNamespace
  /\ \/ iter.namespace = "unknown"
     \/ iter.namespace = "vendor" /\ ArgIndex >= Len(VendorSizes)
  /\ iter' = [Passed EXCEPT !.arg = iter.next, !.namespace = "unknown"]
  /\ UNCHANGED <<header, data, found>>

\* A field the radiotap namespace does not define ends the walk, as the last bit
\* does.
NoMoreFields ==
  /\ Walking
  /\ \/ iter.left = {}
     \/ /\ iter.left # {} /\ Bit < RadiotapNamespace
        /\ iter.namespace = "radiotap" /\ ArgIndex >= Len(RadiotapSizes)
  /\ Stop("ENOENT")

OpenVendorNamespace ==
  /\ Walking /\ iter.left # {} /\ Bit = VendorNamespace
  /\ LET vendor == header.vendors[iter.word]
         at == Aligned(iter.arg, 2)
     IN  Pass(at, IF vendor.known THEN 6 ELSE 6 + vendor.length,
              [Passed EXCEPT !.next = at + 6 + vendor.length, !.reset = TRUE, !.isRadiotap = FALSE,
                 !.namespace = IF vendor.known THEN "vendor" ELSE "unknown"], {})

OpenRadiotapNamespace ==
  /\ Walking /\ iter.left # {} /\ Bit = RadiotapNamespace
  /\ IF iter.arg > header.length THEN Stop("EINVAL")
     ELSE /\ iter' = [Passed EXCEPT !.reset = TRUE, !.namespace = "radiotap", !.isRadiotap = TRUE]
          /\ UNCHANGED <<header, data, found>>

\* Bug: the index starts again in every word.
BugExtend ==
  /\ Walking /\ iter.left # {} /\ Bit = Ext
  /\ IF iter.arg > header.length THEN Stop("EINVAL")
     ELSE /\ iter' = [iter EXCEPT !.word = @ + 1, !.left = header.words[iter.word + 1],
                        !.since = 0, !.reset = FALSE]
          /\ UNCHANGED <<header, data, found>>

Extend ==
  /\ Walking /\ iter.left # {} /\ Bit = Ext
  /\ IF iter.arg > header.length THEN Stop("EINVAL")
     ELSE /\ iter' = [iter EXCEPT !.word = @ + 1, !.left = header.words[iter.word + 1],
                        !.since = IF iter.reset THEN 0 ELSE @ + 1, !.reset = FALSE]
          /\ UNCHANGED <<header, data, found>>

IteratorNext ==
  \/ Field \/ SkipField \/ NoMoreFields
  \/ OpenVendorNamespace \/ OpenRadiotapNamespace \/ Extend
-----------------------------------------------------------------------------
Before(e, f) == e.word < f.word \/ (e.word = f.word /\ e.bit < f.bit)

\* The word in which the namespace of a word was opened, 0 for the first one; the
\* vendor's bit comes last in a word.
Opened(h, w) ==
  Max({0} \cup {v \in 1..(w - 1) : h.words[v] \cap {RadiotapNamespace, VendorNamespace} # {}})
Namespace(h, w) ==
  IF Opened(h, w) = 0 \/ VendorNamespace \notin h.words[Opened(h, w)] THEN "radiotap"
  ELSE IF h.vendors[Opened(h, w)].known THEN "vendor" ELSE "unknown"


FieldIndex(h, w, b) == 32 * (w - 1 - Opened(h, w)) + b

\* The fields of the namespaces that are known, as <<word, bit>>, and those among
\* them that the namespace does not have.
Present(h) ==
  {p \in (DOMAIN h.words) \X (0..28) : p[2] \in h.words[p[1]] /\ Namespace(h, p[1]) # "unknown"}
Undefined(h) ==
  {p \in Present(h) : FieldIndex(h, p[1], p[2]) >= Len(Sizes(Namespace(h, p[1])))}

\* An undefined field of the radiotap namespace ends the walk, one of a vendor the
\* namespace.
Lost(h, p) ==
  \E q \in Undefined(h) :
    /\ q[1] < p[1] \/ (q[1] = p[1] /\ q[2] <= p[2])
    /\ Namespace(h, q[1]) = "radiotap" \/ Opened(h, q[1]) = Opened(h, p[1])

Alignment(e) ==
  IF e.bit = VendorNamespace THEN 2 ELSE Sizes(Namespace(header, e.word))[e.index + 1][1]

\* What was passed lies in the header, after the present words, aligned, and
\* without a gap but for the padding: what the code skips of a namespace it does
\* not know is just the data that namespace has (radiotap.cc:300-368).  After a
\* vendor's field that is undefined the code goes on where the vendor's data ends by its
\* own account, which may be anywhere.
FieldsTile ==
  \A e \in found :
    LET before == {f \in found : Before(f, e)}
        end == Max({4 + 4 * Len(header.words)} \cup {f.at + f.size : f \in before})
    IN  /\ e.at + e.size <= header.length
        /\ (\A p \in Undefined(header) : Before(e, [word |-> p[1], bit |-> p[2]])) =>
             e.at = Aligned(end, Alignment(e))

\* A field is read as the field its bit is in the namespace its word belongs to,
\* counted from the word that opened that namespace, and when the walk ends well
\* none was left out that an undefined field does not precede
\* (radiotap.cc:262-330, 340-396).
FieldsNamed ==
  LET fields == {<<e.word, e.bit>> : e \in {e \in found : e.bit < RadiotapNamespace}}
  IN  header # None =>
        /\ fields \subseteq Present(header)
        /\ \A e \in found : e.bit < RadiotapNamespace => e.index = FieldIndex(header, e.word, e.bit)
        /\ iter.err = "ENOENT" => fields = {p \in Present(header) : ~Lost(header, p)}
=============================================================================
