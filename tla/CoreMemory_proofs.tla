------------------------- MODULE CoreMemory_proofs -------------------------
(***************************************************************************)
(* Proofs about CoreMemory, for any number of concurrent calls,            *)
(* paragraphs and retries: nothing that was written to the block is lost   *)
(* but for a reason of the code, and an append keeps the rest of the block *)
(* as it is.  About Workflows, whose activities are the other writers of   *)
(* what agents keep, for any requests, episodes and consolidations.  And   *)
(* about Vault, the pages they keep: for any files, slugs and agents the   *)
(* index agrees with itself and, between two polls, with the files.        *)
(***************************************************************************)
EXTENDS CoreMemory, Workflows, Vault, SequenceTheorems, WellFoundedInduction, TLAPS

\* The sizes of the code: MAX_CAS_RETRIES and EVICTION_BATCH_SIZE are 5, the
\* token limits positive.
Sizes ==
    /\ MaxCasRetries \in Nat \ {0} /\ Batch \in Nat \ {0}
    /\ Limit \in Nat /\ Threshold \in Nat /\ MaxCalls \in Nat

-----------------------------------------------------------------------------
(* Sequences of paragraphs and the paragraphs in them                       *)

LEMMA InRange ==
    ASSUME NEW s \in Seq(Paragraph)
    PROVE  /\ Range(s) \subseteq Paragraph
           /\ \A p : p \in Range(s) <=> \E i \in 1 .. Len(s) : s[i] = p
  BY LenProperties, ElementOfSeq DEF Range

LEMMA RangeEmpty ==
    Range(<<>>) = {}
<1>1. <<>> \in Seq(Paragraph) /\ \A i : i \notin 1 .. Len(<<>>)
  OBVIOUS
<1> QED
  BY <1>1, InRange

LEMMA RangeConcat ==
    ASSUME NEW s \in Seq(Paragraph), NEW t \in Seq(Paragraph)
    PROVE  s \o t \in Seq(Paragraph) /\ Range(s) \subseteq Range(s \o t)
<1>1. /\ s \o t \in Seq(Paragraph) /\ Len(s \o t) = Len(s) + Len(t)
      /\ \A i \in 1 .. Len(s) + Len(t) : (s \o t)[i] =
                     IF i <= Len(s) THEN s[i] ELSE t[i - Len(s)]
  BY ConcatProperties
<1>2. Len(s) \in Nat /\ Len(t) \in Nat
  OBVIOUS
<1>3. ASSUME NEW p \in Range(s) PROVE p \in Range(s \o t)
  <2>1. PICK i \in 1 .. Len(s) : s[i] = p
    BY InRange
  <2>2. i \in 1 .. Len(s) + Len(t) /\ i <= Len(s)
    BY <1>2
  <2>3. (s \o t)[i] = p
    BY <1>1, <2>1, <2>2, Zenon
  <2> QED
    BY <1>1, <2>2, <2>3, InRange
<1> QED
  BY <1>1, <1>3

\* What is left of the paragraphs to evict after the first.
LEMMA RangeTail ==
    ASSUME NEW s \in Seq(Paragraph), s # <<>>
    PROVE  /\ Tail(s) \in Seq(Paragraph) /\ Head(s) \in Range(s)
           /\ Range(s) = {Head(s)} \cup Range(Tail(s))
           /\ Len(s) = 1 <=> Tail(s) = <<>>
<1>1. /\ Tail(s) \in Seq(Paragraph) /\ Len(Tail(s)) = Len(s) - 1
      /\ \A i \in 1 .. Len(Tail(s)) : Tail(s)[i] = s[i + 1]
  BY HeadTailProperties
<1>2. Len(s) \in Nat /\ Len(s) # 0 /\ Head(s) = s[1] /\ Len(<<>>) = 0
  OBVIOUS
<1> DEFINE n == Len(s)
           m == Len(Tail(s))
<1>3. /\ 1 \in 1 .. n
      /\ \A i \in 1 .. m : i + 1 \in 1 .. n
      /\ \A i \in 1 .. n : i # 1 => i - 1 \in 1 .. m /\ (i - 1) + 1 = i
      /\ n = 1 <=> m = 0
  <2>1. n \in Nat /\ n # 0 /\ m = n - 1
    BY <1>1, <1>2
  <2> HIDE DEF n, m
  <2> QED BY <2>1
<1>4. Head(s) \in Range(s)
  BY <1>2, <1>3, InRange
<1>5. ASSUME NEW p \in Range(Tail(s)) PROVE p \in Range(s)
  <2>1. PICK i \in 1 .. m : Tail(s)[i] = p
    BY <1>1, InRange
  <2>2. s[i + 1] = p /\ i + 1 \in 1 .. n
    BY <1>1, <1>3, <2>1, Zenon
  <2> QED
    BY <2>2, InRange, Zenon
<1>6. ASSUME NEW p \in Range(s), p # Head(s) PROVE p \in Range(Tail(s))
  <2>1. PICK i \in 1 .. n : s[i] = p
    BY InRange
  <2>2. i # 1
    BY <1>2, <1>6, <2>1
  <2>3. i - 1 \in 1 .. m /\ (i - 1) + 1 = i
    BY <1>3, <2>2, Zenon
  <2>4. Tail(s)[i - 1] = s[(i - 1) + 1]
    BY <1>1, <2>3, Zenon
  <2>5. Tail(s)[i - 1] = p
    BY <2>1, <2>3, <2>4, Zenon
  <2> QED
    BY <1>1, <2>3, <2>5, InRange, Zenon
<1>7. m = 0 <=> Tail(s) = <<>>
  BY <1>1, <1>2, EmptySeq
<1> QED
  BY <1>1, <1>3, <1>4, <1>5, <1>6, <1>7

\* What context_to_archival takes out and what it keeps are the whole block.
LEMMA RangeSplit ==
    ASSUME Sizes, NEW s \in Seq(Paragraph), 1 < Len(s),
           NEW b, b = IF Len(s) < Batch THEN Len(s) ELSE Batch
    PROVE  /\ SubSeq(s, 1, b) \in Seq(Paragraph) /\ SubSeq(s, 1, b) # <<>>
           /\ SubSeq(s, Batch + 1, Len(s)) \in Seq(Paragraph)
           /\ Range(SubSeq(s, 1, b)) \subseteq Range(s)
           /\ Range(s) \subseteq Range(SubSeq(s, 1, b)) \cup Range(SubSeq(s, Batch + 1, Len(s)))
<1> DEFINE n == Len(s)
           u == SubSeq(s, 1, b)
           v == SubSeq(s, Batch + 1, n)
<1>1. n \in Nat /\ 1 < n /\ Batch \in Nat /\ Batch # 0
  BY DEF Sizes
<1>2. b \in Nat /\ 1 <= b /\ b <= n /\ b <= Batch /\ (b < n => b = Batch)
  <2>1. b = IF n < Batch THEN n ELSE Batch
    OBVIOUS
  <2> HIDE DEF n
  <2> QED BY <1>1, <2>1
<1>3. /\ \A i \in 1 .. b : s[i] \in Paragraph
      /\ \A i \in Batch + 1 .. n : s[i] \in Paragraph
  <2>1. \A i \in 1 .. n : s[i] \in Paragraph
    BY ElementOfSeq
  <2>2. 1 .. b \subseteq 1 .. n /\ Batch + 1 .. n \subseteq 1 .. n
    <3> HIDE DEF n
    <3> QED BY <1>1, <1>2
  <2> QED
    BY <2>1, <2>2, Zenon
<1>4. /\ u \in Seq(Paragraph) /\ Len(u) = b
      /\ \A i \in 1 .. b : u[i] = s[i]
  <2>1. /\ u \in Seq(Paragraph) /\ Len(u) = IF 1 <= b THEN b - 1 + 1 ELSE 0
        /\ \A i \in 1 .. b - 1 + 1 : u[i] = s[1 + i - 1]
    BY <1>2, <1>3, SubSeqProperties
  <2>2. b - 1 + 1 = b /\ \A i \in 1 .. b : 1 + i - 1 = i
    BY <1>2
  <2> HIDE DEF u
  <2> QED BY <1>2, <2>1, <2>2
<1>5. /\ v \in Seq(Paragraph)
      /\ Len(v) = IF Batch + 1 <= n THEN n - (Batch + 1) + 1 ELSE 0
      /\ \A i \in 1 .. n - (Batch + 1) + 1 : v[i] = s[Batch + 1 + i - 1]
  BY <1>1, <1>3, SubSeqProperties
<1>6. u # <<>>
  BY <1>2, <1>4
<1>7. Range(u) \subseteq Range(s)
  <2> SUFFICES ASSUME NEW p \in Range(u) PROVE p \in Range(s)
    OBVIOUS
  <2> HIDE DEF u
  <2>1. PICK i \in 1 .. b : u[i] = p
    BY <1>4, InRange
  <2>2. i \in 1 .. n
    <3> HIDE DEF n
    <3> QED BY <1>1, <1>2
  <2> QED
    BY <1>4, <2>1, <2>2, InRange, Zenon
<1>8. ASSUME NEW p \in Range(s) PROVE p \in Range(u) \cup Range(v)
  <2>1. PICK i \in 1 .. n : s[i] = p
    BY InRange
  <2>2. CASE i <= b
    <3>1. i \in 1 .. b
      <4> HIDE DEF n
      <4> QED BY <1>1, <1>2, <2>2
    <3> QED
      BY <1>4, <2>1, <3>1, InRange, Zenon
  <2>3. CASE ~(i <= b)
    <3>1. /\ Batch + 1 <= n /\ i - Batch \in 1 .. n - (Batch + 1) + 1
          /\ Batch + 1 + (i - Batch) - 1 = i
      <4> HIDE DEF n
      <4> QED BY <1>1, <1>2, <2>3
    <3>2. v[i - Batch] = s[Batch + 1 + (i - Batch) - 1]
      BY <1>5, <3>1, Zenon
    <3>3. v[i - Batch] = p
      BY <2>1, <3>1, <3>2, Zenon
    <3>4. Len(v) = n - (Batch + 1) + 1
      BY <1>5, <3>1, Zenon
    <3>5. i - Batch \in 1 .. Len(v)
      BY <3>1, <3>4, Zenon
    <3> QED
      BY <1>5, <3>3, <3>5, InRange, Zenon
  <2> QED
    BY <2>2, <2>3
<1> QED
  BY <1>4, <1>5, <1>6, <1>7, <1>8, Zenon

\* Every nonempty set of naturals has a least element.
LEMMA Least ==
    ASSUME NEW T, T \subseteq Nat, T # {} PROVE \E n \in T : \A m \in T : n <= m
<1> DEFINE R == OpToRel(<, Nat)
<1>1. IsWellFoundedOn(R, Nat)
  BY NatLessThanWellFounded
<1>2. PICK n \in T : \A m \in T : ~(<<m, n>> \in R)
  <2> HIDE DEF R
  <2> QED BY <1>1, WFMin
<1>3. \A m \in T : ~(m < n)
  BY <1>2 DEF OpToRel
<1> QED
  BY <1>3

\* str.replace(old, new, 1) takes out nothing but the old text.
LEMMA ReplacedOne ==
    ASSUME NEW s \in Seq(Paragraph), NEW old \in Range(s), NEW new \in Paragraph
    PROVE  /\ ReplaceFirst(s, old, new) \in Seq(Paragraph)
           /\ Range(s) \subseteq Range(ReplaceFirst(s, old, new)) \cup {old}
<1> DEFINE First(i) == s[i] = old /\ \A j \in 1 .. i - 1 : s[j] # old
           at == {i \in 1 .. Len(s) : s[i] = old}
<1>1. at \subseteq Nat /\ at # {}
  BY InRange
<1>2. PICK n \in at : \A m \in at : n <= m
  <2> HIDE DEF at
  <2> QED BY <1>1, Least
<1>3. First(n)
  <2>1. s[n] = old /\ n \in 1 .. Len(s) /\ Len(s) \in Nat
    BY <1>2
  <2>2. ASSUME NEW j \in 1 .. n - 1, s[j] = old PROVE FALSE
    <3>1. j \in 1 .. Len(s) /\ j < n /\ j \in Nat /\ n \in Nat
      BY <2>1
    <3>2. n <= j
      BY <1>2, <2>2, <3>1
    <3> QED
      BY <3>1, <3>2
  <2> QED
    BY <2>1, <2>2
<1>4. DOMAIN s = 1 .. Len(s)
  BY LenProperties
<1>5. PICK i \in 1 .. Len(s) : s[i] = old /\ ReplaceFirst(s, old, new) = [s EXCEPT ![i] = new]
  <2> DEFINE i == CHOOSE i \in DOMAIN s : First(i)
  <2>1. i \in DOMAIN s /\ First(i)
    <3>1. \E j \in DOMAIN s : First(j)
      BY <1>2, <1>3, <1>4
    <3> HIDE DEF First
    <3> QED BY <3>1
  <2>2. ReplaceFirst(s, old, new) = [s EXCEPT ![i] = new]
    BY DEF ReplaceFirst
  <2> QED
    BY <1>4, <2>1, <2>2
<1> DEFINE t == [s EXCEPT ![i] = new]
<1>6. /\ t \in Seq(Paragraph) /\ Len(t) = Len(s)
      /\ \A j \in 1 .. Len(s) : t[j] = IF j = i THEN new ELSE s[j]
  BY ExceptSeq
<1>7. ASSUME NEW p \in Range(s), p # old PROVE p \in Range(t)
  <2> HIDE DEF t
  <2>1. PICK j \in 1 .. Len(s) : s[j] = p
    BY InRange
  <2>2. t[j] = p
    BY <1>5, <1>6, <1>7, <2>1
  <2> QED
    BY <1>6, <2>2, InRange
<1> QED
  BY <1>5, <1>6, <1>7

-----------------------------------------------------------------------------
(* The inductive invariant                                                  *)

\* What is in the block was written to it.
BlockWritten == Range(kv.content) \subseteq written

\* Where a call stands says what it may be doing.
Shape(c) ==
    /\ call[c].revision <= sequence
    /\ call[c].at = "read" => call[c].kind \in {"append", "page", "replace"}
    /\ call[c].at = "refetch" =>
          call[c].kind \in {"update", "evict"} /\ call[c].attempt # 1
    /\ call[c].at = "archive" => call[c].kind = "evict" /\ call[c].evict # <<>>
    /\ call[c].at \in {"read", "write", "refetch"} => call[c].evict = <<>>
    /\ call[c].kind = "replace" => Len(call[c].text) = 1 /\ Len(call[c].old) = 1
    /\ call[c].kind = "bootstrap" => call[c].attempt = 1 /\ call[c].revision = 0
    /\ Range(call[c].evict) \subseteq written

\* A call that has not met a conflict since it read the block will write what
\* it made of the block of the revision it expects.
Informed(c) ==
    /\ call[c].at \in {"archive", "write"}
    /\ call[c].kind \in Whole => call[c].attempt = 1

MadeOf(c, content) ==
    /\ call[c].kind \in {"update", "evict"} => call[c].seen = content
    /\ call[c].kind \in {"append", "page"} => call[c].seen = content \o call[c].text
    /\ call[c].kind = "replace" =>
          Range(content) \subseteq Range(call[c].seen) \cup Range(call[c].old)

Current(c) ==
    Informed(c) => /\ call[c].revision = kv.revision => MadeOf(c, kv.content)
                   /\ call[c].revision = 0 => MadeOf(c, <<>>)

\* What an eviction takes out of the block is still to be archived, or is in
\* the archive, or was given up.
Evicting(c) ==
    call[c].kind = "evict" =>
        Range(call[c].seen) \subseteq
            Range(call[c].text) \cup Range(call[c].evict) \cup archive \cup excused

CallOK(c) == Shape(c) /\ Current(c) /\ Evicting(c)

IInv == /\ CoreTypeOK
        /\ BlockWritten
        /\ NoSilentLoss
        /\ \A c \in Caller : CallOK(c)

-----------------------------------------------------------------------------
(* Calls                                                                    *)

LEMMA CallType ==
    ASSUME CoreTypeOK, NEW c \in Caller
    PROVE  /\ call[c] \in Call /\ call[c].at \in At /\ call[c].kind \in Kind
           /\ call[c].revision \in Nat /\ call[c].attempt \in 1 .. MaxCasRetries
           /\ call[c].seen \in Seq(Paragraph) /\ call[c].text \in Seq(Paragraph)
           /\ call[c].old \in Seq(Paragraph) /\ call[c].evict \in Seq(Paragraph)
<1>1. call[c] \in Call
  BY DEF CoreTypeOK
<1> QED
  BY <1>1 DEF Call

LEMMA BlockType ==
    ASSUME CoreTypeOK
    PROVE  /\ kv.revision \in Nat /\ kv.revision <= sequence /\ sequence \in Nat
           /\ kv.content \in Seq(Paragraph)
           /\ kv.revision = 0 => kv.content = <<>>
  BY DEF CoreTypeOK

LEMMA IdleFields ==
    ASSUME Sizes
    PROVE  /\ Idle \in Call /\ Idle.at = "idle" /\ Idle.kind = "update" /\ Idle.revision = 0
           /\ Idle.attempt = 1 /\ Idle.seen = <<>> /\ Idle.text = <<>> /\ Idle.old = <<>>
           /\ Idle.evict = <<>>
<1>1. 1 \in 1 .. MaxCasRetries
  BY DEF Sizes
<1>2. <<>> \in Seq(Paragraph)
  OBVIOUS
<1> QED
  BY <1>1, <1>2 DEF Idle, Call, At, Kind

LEMMA IdleOK ==
    ASSUME Sizes, CoreTypeOK', NEW c \in Caller, call'[c] = Idle
    PROVE  CallOK(c)'
<1>1. sequence' \in Nat
  BY DEF CoreTypeOK
<1>2. Shape(c)'
  BY <1>1, IdleFields, RangeEmpty DEF Shape
<1> QED
  BY <1>2, IdleFields DEF CallOK, Current, Informed, Evicting

\* A call that does nothing is not disturbed: what another call writes has a
\* revision of its own, and so has the block after a purge.
LEMMA Kept ==
    ASSUME CoreTypeOK, CoreTypeOK', NEW c \in Caller, CallOK(c), call'[c] = call[c],
           sequence <= sequence', written \subseteq written', archive \subseteq archive',
           excused \subseteq excused',
           \/ kv' = kv
           \/ kv'.revision = sequence + 1
           \/ kv'.revision = 0
    PROVE  CallOK(c)'
<1>1. call[c].revision \in Nat /\ sequence \in Nat /\ sequence' \in Nat
  BY CallType DEF CoreTypeOK
<1>2. Shape(c)'
  <2>1. call[c].revision <= sequence'
    BY <1>1 DEF CallOK, Shape
  <2> QED
    BY <2>1 DEF CallOK, Shape
<1>3. Evicting(c)'
  BY DEF CallOK, Evicting
<1>4. Informed(c)' <=> Informed(c)
  BY DEF Informed
<1>5. \A content : MadeOf(c, content)' <=> MadeOf(c, content)
  BY DEF MadeOf
<1>6. Current(c)'
  <2> SUFFICES ASSUME Informed(c)
               PROVE  /\ call[c].revision = kv'.revision => MadeOf(c, kv.content)'
                      /\ call[c].revision = 0 => MadeOf(c, <<>>)'
    BY <1>4 DEF Current
  <2>1. call[c].revision = 0 => MadeOf(c, <<>>)'
    BY <1>5 DEF CallOK, Current
  <2>2. CASE kv' = kv
    <3>1. call[c].revision = kv.revision => MadeOf(c, kv.content)
      BY DEF CallOK, Current
    <3>2. MadeOf(c, kv.content) => MadeOf(c, kv.content)'
      BY <2>2 DEF MadeOf
    <3> QED
      BY <2>1, <2>2, <3>1, <3>2
  <2>3. CASE kv'.revision = sequence + 1
    <3>1. call[c].revision # kv'.revision
      BY <1>1, <2>3 DEF CallOK, Shape
    <3> QED
      BY <2>1, <3>1
  <2>4. CASE kv'.revision = 0
    <3>1. kv'.content = <<>>
      BY <2>4 DEF CoreTypeOK
    <3>2. MadeOf(c, <<>>)' => MadeOf(c, kv.content)'
      BY <3>1 DEF MadeOf
    <3> QED
      BY <2>1, <2>4, <3>2
  <2> QED
    BY <2>2, <2>3, <2>4
<1> QED
  BY <1>2, <1>3, <1>6 DEF CallOK

-----------------------------------------------------------------------------
(* Calls begin                                                              *)

\* A step of one call keeps the invariant if it keeps what is about the block
\* and about that call.
LEMMA StepFrom ==
    ASSUME IInv, CoreTypeOK', BlockWritten', NoSilentLoss',
           NEW c \in Caller, \A d \in Caller \ {c} : call'[d] = call[d], CallOK(c)',
           sequence <= sequence', written \subseteq written', archive \subseteq archive',
           excused \subseteq excused',
           \/ kv' = kv
           \/ kv'.revision = sequence + 1
           \/ kv'.revision = 0
    PROVE  IInv'
<1>1. ASSUME NEW d \in Caller \ {c} PROVE CallOK(d)'
  <2>1. call'[d] = call[d] /\ CallOK(d) /\ CoreTypeOK
    BY DEF IInv
  <2> QED
    BY <2>1, Kept
<1> QED
  BY <1>1 DEF IInv

LEMMA BeginEffect ==
    ASSUME CoreTypeOK, Sizes, NEW c \in Caller, NEW with \in Call, Begin(c, with)
    PROVE  /\ CoreTypeOK' /\ call'[c] = with
           /\ \A d \in Caller \ {c} : call'[d] = call[d]
           /\ UNCHANGED <<kv, sequence, archive, written, excused>>
<1>1. /\ UNCHANGED <<kv, sequence, archive, written, excused>>
      /\ call' = [call EXCEPT ![c] = with]
  BY DEF Begin
<1>2. calls' \in 0 .. MaxCalls
  <2>1. calls \in 0 .. MaxCalls /\ calls < MaxCalls /\ calls' = calls + 1 /\ MaxCalls \in Nat
    BY DEF Begin, CoreTypeOK, Sizes
  <2> QED
    BY <2>1
<1>3. call' \in [Caller -> Call] /\ call'[c] = with
      /\ \A d \in Caller \ {c} : call'[d] = call[d]
  BY <1>1 DEF CoreTypeOK
<1> QED
  BY <1>1, <1>2, <1>3 DEF CoreTypeOK

\* A call that begins leaves the block and the archive as they are.
LEMMA BeginStep ==
    ASSUME IInv, Sizes, NEW c \in Caller, NEW with \in Call, Begin(c, with), CallOK(c)'
    PROVE  IInv'
<1>1. /\ CoreTypeOK' /\ \A d \in Caller \ {c} : call'[d] = call[d]
      /\ UNCHANGED <<kv, sequence, archive, written, excused>>
  BY BeginEffect DEF IInv
<1>2. BlockWritten' /\ NoSilentLoss'
  BY <1>1 DEF IInv, BlockWritten, NoSilentLoss
<1>3. sequence <= sequence'
  BY <1>1 DEF IInv, CoreTypeOK
<1> QED
  BY <1>1, <1>2, <1>3, StepFrom

LEMMA OneParagraph ==
    ASSUME NEW p \in Paragraph
    PROVE  <<p>> \in Seq(Paragraph) /\ Len(<<p>>) = 1
OBVIOUS

LEMMA UpdateStep ==
    ASSUME IInv, Sizes, NEW c \in Caller, NEW p \in Paragraph, NEW informed \in BOOLEAN,
           UpdateBlock(c, p, informed)
    PROVE  IInv'
<1> DEFINE rev == IF informed THEN kv.revision ELSE 0
           seen == IF informed THEN kv.content ELSE <<>>
           with == [Idle EXCEPT !.at = "write", !.kind = "update", !.text = <<p>>,
                                !.revision = rev, !.seen = seen]
<1>1. /\ rev \in Nat /\ rev <= sequence /\ seen \in Seq(Paragraph)
      /\ rev = kv.revision => seen = kv.content
      /\ rev = 0 => seen = <<>>
  BY BlockType DEF IInv
<1> HIDE DEF rev, seen
<1>2. /\ with \in Call /\ with.at = "write" /\ with.kind = "update" /\ with.revision = rev
      /\ with.attempt = 1 /\ with.seen = seen /\ with.evict = <<>>
  BY <1>1, IdleFields, OneParagraph DEF Call, At, Kind
<1>3. Begin(c, with)
  BY DEF UpdateBlock, rev, seen
<1> HIDE DEF with
<1>4. call'[c] = with /\ UNCHANGED <<kv, sequence, archive, written, excused>>
  BY <1>2, <1>3, BeginEffect DEF IInv
<1>5. Shape(c)'
  BY <1>1, <1>2, <1>4, RangeEmpty DEF Shape
<1>6. Current(c)'
  BY <1>1, <1>2, <1>4 DEF Current, MadeOf
<1>7. CallOK(c)'
  BY <1>2, <1>4, <1>5, <1>6 DEF CallOK, Evicting
<1> QED
  BY <1>2, <1>3, <1>7, BeginStep

\* The calls that read the block first: append_block, page_from_archival and
\* replace_in_block.
LEMMA ReaderStep ==
    ASSUME IInv, Sizes, NEW c \in Caller, NEW with \in Call, Begin(c, with),
           with.at = "read", with.kind \in {"append", "page", "replace"}, with.revision = 0,
           Len(with.text) = 1, with.kind = "replace" => Len(with.old) = 1, with.evict = <<>>
    PROVE  IInv'
<1>1. call'[c] = with /\ UNCHANGED <<kv, sequence, archive, written, excused>>
  BY BeginEffect DEF IInv
<1>2. sequence \in Nat
  BY DEF IInv, CoreTypeOK
<1>3. Shape(c)'
  BY <1>1, <1>2, RangeEmpty DEF Shape
<1>4. CallOK(c)'
  BY <1>1, <1>3 DEF CallOK, Current, Informed, Evicting
<1> QED
  BY <1>4, BeginStep

LEMMA BootstrapStep ==
    ASSUME IInv, Sizes, NEW c \in Caller, BootstrapAgent(c) PROVE IInv'
<1> DEFINE with == [Idle EXCEPT !.at = "write", !.kind = "bootstrap"]
<1>1. /\ with \in Call /\ with.at = "write" /\ with.kind = "bootstrap" /\ with.revision = 0
      /\ with.attempt = 1 /\ with.evict = <<>>
  BY IdleFields DEF Call, At, Kind
<1>2. Begin(c, with)
  BY DEF BootstrapAgent
<1> HIDE DEF with
<1>3. call'[c] = with /\ UNCHANGED <<kv, sequence, archive, written, excused>>
  BY <1>1, <1>2, BeginEffect DEF IInv
<1>4. sequence \in Nat
  BY DEF IInv, CoreTypeOK
<1>5. Shape(c)'
  BY <1>1, <1>3, <1>4, RangeEmpty DEF Shape
<1>6. CallOK(c)'
  BY <1>1, <1>3, <1>5 DEF CallOK, Current, MadeOf, Evicting
<1> QED
  BY <1>1, <1>2, <1>6, BeginStep

LEMMA EvictStep ==
    ASSUME IInv, Sizes, NEW c \in Caller, ContextToArchival(c) PROVE IInv'
<1> DEFINE n == Len(kv.content)
           b == IF n < Batch THEN n ELSE Batch
           out == SubSeq(kv.content, 1, b)
           rest == SubSeq(kv.content, Batch + 1, n)
           with == [Idle EXCEPT !.at = "archive", !.kind = "evict", !.revision = kv.revision,
                                !.seen = kv.content, !.evict = out, !.text = rest]
<1>1. /\ kv.content \in Seq(Paragraph) /\ kv.revision \in Nat /\ kv.revision <= sequence
      /\ kv.revision = 0 => kv.content = <<>>
  BY BlockType DEF IInv
<1>2. 1 < n /\ Begin(c, with)
  <2>1. n \in Nat /\ n > 1
    BY <1>1 DEF ContextToArchival
  <2>2. Begin(c, with)
    BY DEF ContextToArchival
  <2> HIDE DEF n, with
  <2> QED BY <2>1, <2>2
<1>3. /\ out \in Seq(Paragraph) /\ out # <<>> /\ rest \in Seq(Paragraph)
      /\ Range(out) \subseteq Range(kv.content)
      /\ Range(kv.content) \subseteq Range(out) \cup Range(rest)
  BY <1>1, <1>2, RangeSplit
<1> HIDE DEF out, rest
<1>4. /\ with \in Call /\ with.at = "archive" /\ with.kind = "evict"
      /\ with.revision = kv.revision /\ with.attempt = 1 /\ with.seen = kv.content
      /\ with.evict = out /\ with.text = rest
  BY <1>1, <1>3, IdleFields DEF Call, At, Kind
<1> HIDE DEF with
<1>5. call'[c] = with /\ UNCHANGED <<kv, sequence, archive, written, excused>>
  BY <1>2, <1>4, BeginEffect DEF IInv
<1>6. Shape(c)'
  BY <1>1, <1>3, <1>4, <1>5 DEF Shape, IInv, BlockWritten
<1>7. Current(c)'
  BY <1>1, <1>4, <1>5 DEF Current, MadeOf
<1>8. Evicting(c)'
  BY <1>3, <1>4, <1>5 DEF Evicting
<1> QED
  BY <1>2, <1>4, <1>6, <1>7, <1>8, BeginStep DEF CallOK

-----------------------------------------------------------------------------
(* Calls go on                                                              *)

LEMMA ArchiveStep ==
    ASSUME IInv, Sizes, NEW c \in Caller, ArchiveOne(c) PROVE IInv'
<1> DEFINE k == call[c]
           p == Head(k.evict)
           at == IF Len(k.evict) = 1 THEN "write" ELSE "archive"
<1>1. /\ k \in Call /\ k.evict \in Seq(Paragraph) /\ CallOK(c) /\ CoreTypeOK
      /\ k.at = "archive" /\ k.kind = "evict" /\ k.evict # <<>>
      /\ Range(k.evict) \subseteq written /\ k.revision <= sequence
  BY CallType DEF IInv, ArchiveOne, CallOK, Shape
<1>2. /\ call' = [call EXCEPT ![c] = [k EXCEPT !.evict = Tail(k.evict), !.at = at]]
      /\ UNCHANGED <<kv, sequence, calls, written>>
      /\ \/ archive' = archive \cup {p} /\ excused' = excused
         \/ excused' = excused \cup {p} /\ archive' = archive
  BY <1>1 DEF ArchiveOne, Call, IInv, CoreTypeOK
<1>3. /\ Tail(k.evict) \in Seq(Paragraph) /\ p \in Range(k.evict)
      /\ Range(k.evict) = {p} \cup Range(Tail(k.evict))
      /\ at = "archive" => Tail(k.evict) # <<>>
      /\ at = "write" => Tail(k.evict) = <<>>
      /\ at \in {"archive", "write"}
  BY <1>1, RangeTail
<1> HIDE DEF p, at
<1>4. call' \in [Caller -> Call] /\ \A d \in Caller \ {c} : call'[d] = call[d]
  BY <1>1, <1>2, <1>3 DEF CoreTypeOK, Call, At
<1>5. /\ call'[c].evict = Tail(k.evict) /\ call'[c].at = at /\ call'[c].kind = "evict"
      /\ call'[c].revision = k.revision /\ call'[c].attempt = k.attempt
      /\ call'[c].seen = k.seen /\ call'[c].text = k.text /\ call'[c].old = k.old
  BY <1>1, <1>2 DEF CoreTypeOK, Call
<1>6. p \in written /\ p \in Paragraph
  BY <1>1, <1>3, InRange
<1>7. CoreTypeOK'
  BY <1>1, <1>2, <1>4, <1>6 DEF CoreTypeOK
<1>8. Shape(c)'
  BY <1>1, <1>2, <1>3, <1>5 DEF Shape
<1>9. Current(c)'
  <2>1. Informed(c)' => Informed(c)
    BY <1>1, <1>5 DEF Informed
  <2>2. \A content : MadeOf(c, content) => MadeOf(c, content)'
    BY <1>1, <1>5 DEF MadeOf
  <2>3. MadeOf(c, kv.content) => MadeOf(c, kv.content)'
    BY <1>1, <1>2, <1>5 DEF MadeOf
  <2> QED
    BY <1>1, <1>2, <1>5, <2>1, <2>2, <2>3 DEF CallOK, Current
<1>10. Evicting(c)'
  <2>1. Range(k.seen) \subseteq Range(k.text) \cup Range(k.evict) \cup archive \cup excused
    BY <1>1 DEF CallOK, Evicting
  <2>2. Range(k.seen) \subseteq
            Range(k.text) \cup Range(Tail(k.evict)) \cup archive' \cup excused'
    BY <1>2, <1>3, <2>1
  <2> QED
    BY <1>5, <2>2 DEF Evicting
<1>11. archive \subseteq archive' /\ excused \subseteq excused'
  BY <1>2
<1>12. BlockWritten' /\ NoSilentLoss'
  BY <1>2, <1>11 DEF IInv, BlockWritten, NoSilentLoss
<1>13. sequence <= sequence' /\ written \subseteq written' /\ kv' = kv
  BY <1>2, BlockType DEF IInv
<1>14. CallOK(c)'
  BY <1>8, <1>9, <1>10 DEF CallOK
<1> QED
  BY <1>4, <1>7, <1>11, <1>12, <1>13, <1>14, StepFrom

\* A step that changes nothing but a call.
LEMMA CallStep ==
    ASSUME IInv, NEW c \in Caller, NEW k \in Call, call' = [call EXCEPT ![c] = k],
           UNCHANGED <<kv, sequence, archive, calls, written, excused>>
    PROVE  /\ CoreTypeOK' /\ call'[c] = k
           /\ CallOK(c)' => IInv'
<1>1. CoreTypeOK
  BY DEF IInv
<1>2. call' \in [Caller -> Call] /\ call'[c] = k
      /\ \A d \in Caller \ {c} : call'[d] = call[d]
  BY <1>1 DEF CoreTypeOK
<1>3. CoreTypeOK'
  BY <1>1, <1>2 DEF CoreTypeOK
<1>4. BlockWritten' /\ NoSilentLoss'
  BY DEF IInv, BlockWritten, NoSilentLoss
<1>5. sequence <= sequence'
  BY <1>1 DEF CoreTypeOK
<1>6. ASSUME CallOK(c)' PROVE IInv'
  BY <1>2, <1>3, <1>4, <1>5, <1>6, StepFrom
<1> QED
  BY <1>2, <1>3, <1>6

LEMMA ReadStep ==
    ASSUME IInv, Sizes, NEW c \in Caller, ReadBlock(c) PROVE IInv'
<1> DEFINE k == call[c]
           found == k.kind # "replace" \/ k.old[1] \in Range(kv.content)
           content == IF k.kind = "replace"
                      THEN ReplaceFirst(kv.content, k.old[1], k.text[1])
                      ELSE kv.content \o k.text
           made == [k EXCEPT !.at = "write", !.revision = kv.revision, !.seen = content]
<1>1. /\ k \in Call /\ k.text \in Seq(Paragraph) /\ k.old \in Seq(Paragraph)
      /\ CallOK(c) /\ CoreTypeOK /\ kv.content \in Seq(Paragraph)
      /\ kv.revision \in Nat /\ kv.revision <= sequence /\ sequence \in Nat
      /\ kv.revision = 0 => kv.content = <<>>
  BY CallType, BlockType DEF IInv
<1>2. /\ k.at = "read" /\ UNCHANGED <<kv, sequence, archive, calls, written, excused>>
      /\ call' = [call EXCEPT ![c] = IF found /\ Len(content) <= Limit THEN made ELSE Idle]
  BY DEF ReadBlock
<1>3. CASE ~(found /\ Len(content) <= Limit)
  <2>1. call' = [call EXCEPT ![c] = Idle]
    BY <1>2, <1>3
  <2>2. CoreTypeOK' /\ call'[c] = Idle /\ (CallOK(c)' => IInv')
    BY <1>2, <2>1, IdleFields, CallStep
  <2> QED
    BY <2>2, IdleOK
<1>4. CASE found /\ Len(content) <= Limit
  <2>1. /\ k.kind \in {"append", "page", "replace"}
        /\ k.kind = "replace" => Len(k.text) = 1 /\ Len(k.old) = 1
        /\ k.kind = "bootstrap" => k.attempt = 1
        /\ Range(k.evict) \subseteq written
    BY <1>1, <1>2 DEF CallOK, Shape
  <2>2. ASSUME k.kind = "replace"
        PROVE  /\ content \in Seq(Paragraph)
               /\ Range(kv.content) \subseteq Range(content) \cup Range(k.old)
    <3>1. k.text[1] \in Paragraph /\ k.old[1] \in Range(k.old) /\ k.old[1] \in Range(kv.content)
      <4>1. 1 \in 1 .. Len(k.text) /\ 1 \in 1 .. Len(k.old)
        BY <2>1, <2>2
      <4> QED
        BY <1>1, <1>4, <2>2, <4>1, InRange, ElementOfSeq
    <3>2. content = ReplaceFirst(kv.content, k.old[1], k.text[1])
      BY <2>2
    <3> HIDE DEF content
    <3> QED
      BY <1>1, <3>1, <3>2, ReplacedOne
  <2>3. ASSUME k.kind # "replace"
        PROVE  content \in Seq(Paragraph) /\ content = kv.content \o k.text
    BY <1>1, <2>3, RangeConcat
  <2> HIDE DEF content
  <2>5. /\ made \in Call /\ made.at = "write" /\ made.kind = k.kind
        /\ made.revision = kv.revision /\ made.seen = content /\ made.text = k.text
        /\ made.old = k.old /\ made.evict = k.evict /\ made.attempt = k.attempt
    BY <1>1, <2>2, <2>3 DEF Call, At
  <2>6. call' = [call EXCEPT ![c] = made]
    BY <1>2, <1>4
  <2> HIDE DEF made
  <2>7. call'[c] = made /\ (CallOK(c)' => IInv')
    BY <1>2, <2>5, <2>6, CallStep
  <2>8. Shape(c)'
    BY <1>1, <1>2, <2>1, <2>5, <2>7 DEF CallOK, Shape
  <2>9. Current(c)'
    <3>1. MadeOf(c, kv.content)'
      BY <1>2, <2>1, <2>2, <2>3, <2>5, <2>7 DEF MadeOf
    <3>2. call'[c].revision = kv'.revision
      BY <1>2, <2>5, <2>7
    <3>3. kv'.revision = 0 => kv'.content = <<>>
      BY <1>1, <1>2
    <3>4. kv'.content = <<>> => MadeOf(c, <<>>)'
      BY <3>1 DEF MadeOf
    <3> QED
      BY <3>1, <3>2, <3>3, <3>4 DEF Current
  <2>10. CallOK(c)'
    BY <2>1, <2>5, <2>7, <2>8, <2>9 DEF CallOK, Evicting
  <2> QED
    BY <2>7, <2>10
<1> QED
  BY <1>3, <1>4

LEMMA ConflictStep ==
    ASSUME IInv, Sizes, NEW c \in Caller, Conflict(c) PROVE IInv'
<1> DEFINE k == call[c]
           at == IF k.kind \in Whole THEN "refetch" ELSE "read"
           again == [k EXCEPT !.attempt = k.attempt + 1, !.at = at]
<1>1. /\ k \in Call /\ CallOK(c) /\ CoreTypeOK /\ k.kind \in Kind
      /\ k.attempt \in 1 .. MaxCasRetries /\ MaxCasRetries \in Nat
  BY CallType DEF IInv, Sizes
<1>2. /\ k.at = "write" /\ UNCHANGED <<kv, sequence, archive, calls, written, excused>>
      /\ call' = [call EXCEPT ![c] =
                    IF k.attempt = MaxCasRetries \/ k.kind = "bootstrap" THEN Idle ELSE again]
  BY <1>1 DEF Conflict, Call
<1>3. CASE k.attempt = MaxCasRetries \/ k.kind = "bootstrap"
  <2>1. call' = [call EXCEPT ![c] = Idle]
    BY <1>2, <1>3
  <2>2. CoreTypeOK' /\ call'[c] = Idle /\ (CallOK(c)' => IInv')
    BY <1>2, <2>1, IdleFields, CallStep
  <2> QED
    BY <2>2, IdleOK
<1>4. CASE ~(k.attempt = MaxCasRetries \/ k.kind = "bootstrap")
  <2>1. k.attempt + 1 \in 1 .. MaxCasRetries /\ k.attempt + 1 # 1
    BY <1>1, <1>4
  <2>2. at \in {"refetch", "read"}
        /\ (at = "refetch" => k.kind \in {"update", "evict"})
        /\ (at = "read" => k.kind \in {"append", "page", "replace"})
    BY <1>1, <1>4 DEF Whole, Kind
  <2> HIDE DEF at
  <2>3. /\ again \in Call /\ again.at = at /\ again.kind = k.kind
        /\ again.revision = k.revision /\ again.seen = k.seen /\ again.text = k.text
        /\ again.old = k.old /\ again.evict = k.evict /\ again.attempt = k.attempt + 1
    BY <1>1, <2>1, <2>2 DEF Call, At
  <2>4. call' = [call EXCEPT ![c] = again]
    BY <1>2, <1>4
  <2> HIDE DEF again
  <2>5. call'[c] = again /\ (CallOK(c)' => IInv')
    BY <1>2, <2>3, <2>4, CallStep
  <2>6. Shape(c)'
    BY <1>1, <1>2, <1>4, <2>1, <2>2, <2>3, <2>5 DEF CallOK, Shape
  <2>7. Current(c)'
    BY <2>2, <2>3, <2>5 DEF Current, Informed
  <2>8. Evicting(c)'
    BY <1>1, <1>2, <2>3, <2>5 DEF CallOK, Evicting
  <2> QED
    BY <2>5, <2>6, <2>7, <2>8 DEF CallOK
<1> QED
  BY <1>3, <1>4

LEMMA RefetchStep ==
    ASSUME IInv, Sizes, NEW c \in Caller, Refetch(c) PROVE IInv'
<1> DEFINE k == call[c]
           again == [k EXCEPT !.revision = kv.revision, !.at = "write"]
<1>1. /\ k \in Call /\ CallOK(c) /\ CoreTypeOK /\ k.kind \in Kind
      /\ kv.revision \in Nat /\ kv.revision <= sequence
  BY CallType, BlockType DEF IInv
<1>2. /\ k.at = "refetch" /\ UNCHANGED <<kv, sequence, archive, calls, written, excused>>
      /\ call' = [call EXCEPT ![c] = again]
  BY <1>1 DEF Refetch, Call, CoreTypeOK
<1>3. k.kind \in {"update", "evict"} /\ k.attempt # 1
  BY <1>1, <1>2 DEF CallOK, Shape
<1>4. /\ again \in Call /\ again.at = "write" /\ again.kind = k.kind
      /\ again.revision = kv.revision /\ again.seen = k.seen /\ again.text = k.text
      /\ again.old = k.old /\ again.evict = k.evict /\ again.attempt = k.attempt
  BY <1>1 DEF Call, At
<1> HIDE DEF again
<1>5. call'[c] = again /\ (CallOK(c)' => IInv')
  BY <1>2, <1>4, CallStep
<1>6. Shape(c)'
  BY <1>1, <1>2, <1>3, <1>4, <1>5 DEF CallOK, Shape
<1>7. Current(c)'
  BY <1>3, <1>4, <1>5 DEF Current, Informed, Whole
<1>8. Evicting(c)'
  BY <1>1, <1>2, <1>4, <1>5 DEF CallOK, Evicting
<1> QED
  BY <1>5, <1>6, <1>7, <1>8 DEF CallOK

-----------------------------------------------------------------------------
(* The block changes                                                        *)

\* What a write takes out of the block is in the archive or given up.
LEMMA WriteAccounts ==
    ASSUME IInv, NEW c \in Caller, call[c].at = "write", Matches(call[c])
    PROVE  /\ Content(call[c]) \in Seq(Paragraph)
           /\ GivenUp(call[c]) \subseteq Range(kv.content)
           /\ Range(kv.content) \subseteq
                 Range(Content(call[c])) \cup archive \cup excused \cup GivenUp(call[c])
<1> DEFINE k == call[c]
           gone == Range(kv.content) \ Range(Content(k))
<1>1. /\ k.kind \in Kind /\ k.seen \in Seq(Paragraph) /\ k.text \in Seq(Paragraph)
      /\ CallOK(c) /\ kv.content \in Seq(Paragraph)
      /\ k.attempt \in 1 .. MaxCasRetries
      /\ kv.revision = 0 => kv.content = <<>>
  BY CallType, BlockType DEF IInv
<1>2. Content(k) \in Seq(Paragraph)
  BY <1>1 DEF Content
<1>3. k.revision = kv.revision
  BY DEF Matches
<1>4. Informed(c) => MadeOf(c, kv.content)
  BY <1>1, <1>3 DEF CallOK, Current
<1>5. k.attempt > 1 \/ k.attempt = 1
  BY <1>1
<1>6. CASE k.kind = "update"
  <2>1. GivenUp(k) = IF k.attempt > 1 THEN gone ELSE gone \cap Range(k.seen)
    BY <1>6 DEF GivenUp
  <2>2. k.attempt = 1 => k.seen = kv.content
    BY <1>4, <1>6 DEF Informed, MadeOf
  <2> QED
    BY <1>2, <1>5, <2>1, <2>2
<1>7. CASE k.kind = "evict"
  <2>1. GivenUp(k) = IF k.attempt > 1 THEN gone \ Range(k.seen) ELSE {}
    BY <1>7 DEF GivenUp
  <2>2. k.attempt = 1 => k.seen = kv.content
    BY <1>4, <1>7 DEF Informed, MadeOf
  <2>3. Content(k) = k.text
    BY <1>7 DEF Content, Whole
  <2>4. Range(k.seen) \subseteq Range(k.text) \cup archive \cup excused
    <3>1. k.evict = <<>>
      BY <1>1 DEF CallOK, Shape
    <3> QED
      BY <1>1, <1>7, <3>1, RangeEmpty DEF CallOK, Evicting
  <2> QED
    BY <1>2, <1>5, <2>1, <2>2, <2>3, <2>4
<1>8. CASE k.kind = "replace"
  <2>1. GivenUp(k) = gone \cap Range(k.old)
    BY <1>8 DEF GivenUp
  <2>2. Content(k) = k.seen
    BY <1>8 DEF Content, Whole
  <2>3. Range(kv.content) \subseteq Range(k.seen) \cup Range(k.old)
    BY <1>4, <1>8 DEF Informed, MadeOf, Whole
  <2> QED
    BY <1>2, <2>1, <2>2, <2>3
<1>9. CASE k.kind \in {"append", "page"}
  <2>1. GivenUp(k) = {}
    BY <1>9 DEF GivenUp
  <2>2. Content(k) = k.seen
    BY <1>9 DEF Content, Whole
  <2>3. k.seen = kv.content \o k.text
    BY <1>4, <1>9 DEF Informed, MadeOf, Whole
  <2> QED
    BY <1>1, <1>2, <2>1, <2>2, <2>3, RangeConcat
<1>10. CASE k.kind = "bootstrap"
  <2>1. GivenUp(k) = {}
    BY <1>10 DEF GivenUp
  <2>2. kv.content = <<>>
    BY <1>1, <1>3, <1>10 DEF CallOK, Shape
  <2> QED
    BY <1>2, <2>1, <2>2, RangeEmpty
<1> QED
  BY <1>1, <1>6, <1>7, <1>8, <1>9, <1>10 DEF Kind

LEMMA WriteStep ==
    ASSUME IInv, Sizes, NEW c \in Caller, WriteBlock(c) PROVE IInv'
<1> DEFINE new == Content(call[c])
           lost == GivenUp(call[c])
<1>1. /\ kv' = [revision |-> sequence + 1, content |-> new] /\ sequence' = sequence + 1
      /\ written' = written \cup Range(new) /\ excused' = excused \cup lost
      /\ call' = [call EXCEPT ![c] = Idle] /\ UNCHANGED <<archive, calls>>
      /\ CoreTypeOK /\ BlockWritten /\ NoSilentLoss
  BY DEF WriteBlock, IInv
<1>2. /\ new \in Seq(Paragraph) /\ lost \subseteq Range(kv.content)
      /\ Range(kv.content) \subseteq Range(new) \cup archive \cup excused \cup lost
  BY WriteAccounts DEF WriteBlock
<1> HIDE DEF new, lost
<1>3. call' \in [Caller -> Call] /\ call'[c] = Idle
      /\ \A d \in Caller \ {c} : call'[d] = call[d]
  BY <1>1, IdleFields DEF CoreTypeOK
<1>4. /\ sequence' \in Nat /\ sequence <= sequence' /\ kv'.revision = sequence + 1
      /\ kv'.content = new /\ sequence + 1 # 0
      /\ kv' \in [revision : 0 .. sequence', content : Seq(Paragraph)]
  <2>1. sequence \in Nat
    BY <1>1 DEF CoreTypeOK
  <2>2. sequence + 1 \in 0 .. sequence + 1
    BY <2>1
  <2> QED
    BY <1>1, <1>2, <2>1, <2>2
<1>5. written' \subseteq Paragraph /\ excused' \subseteq written'
  BY <1>1, <1>2, InRange DEF CoreTypeOK, BlockWritten
<1>6. CoreTypeOK'
  BY <1>1, <1>3, <1>4, <1>5 DEF CoreTypeOK
<1>7. BlockWritten' /\ NoSilentLoss'
  BY <1>1, <1>2, <1>4 DEF BlockWritten, NoSilentLoss
<1>8. CallOK(c)'
  BY <1>3, <1>6, IdleOK
<1> QED
  BY <1>1, <1>3, <1>4, <1>6, <1>7, <1>8, StepFrom

LEMMA DeleteStep ==
    ASSUME IInv, Sizes, DeleteAgent PROVE IInv'
<1>1. /\ kv' = [revision |-> 0, content |-> <<>>] /\ sequence' = sequence + 1
      /\ excused' = excused \cup Range(kv.content) /\ UNCHANGED <<archive, call, written>>
      /\ calls' = calls + 1 /\ calls < MaxCalls
      /\ CoreTypeOK /\ BlockWritten /\ NoSilentLoss
  BY DEF DeleteAgent, IInv
<1>2. calls' \in 0 .. MaxCalls
  <2>1. calls \in 0 .. MaxCalls /\ MaxCalls \in Nat
    BY <1>1 DEF CoreTypeOK, Sizes
  <2> QED
    BY <1>1, <2>1
<1>3. /\ sequence' \in Nat /\ sequence <= sequence' /\ kv'.revision = 0 /\ kv'.content = <<>>
      /\ kv' \in [revision : 0 .. sequence', content : Seq(Paragraph)]
  <2>1. sequence \in Nat
    BY <1>1 DEF CoreTypeOK
  <2>2. 0 \in 0 .. sequence + 1 /\ <<>> \in Seq(Paragraph)
    BY <2>1
  <2> QED
    BY <1>1, <2>1, <2>2
<1>4. CoreTypeOK'
  BY <1>1, <1>2, <1>3 DEF CoreTypeOK, BlockWritten
<1>5. BlockWritten' /\ NoSilentLoss'
  BY <1>1, <1>3, RangeEmpty DEF BlockWritten, NoSilentLoss
<1>6. ASSUME NEW d \in Caller PROVE CallOK(d)'
  <2>1. CallOK(d) /\ call'[d] = call[d]
    BY <1>1 DEF IInv
  <2> QED
    BY <1>1, <1>3, <1>4, <2>1, Kept
<1> QED
  BY <1>4, <1>5, <1>6 DEF IInv

-----------------------------------------------------------------------------
(* The theorems                                                             *)

LEMMA IInvInit ==
    ASSUME Sizes, CoreInit PROVE IInv
<1>1. CoreTypeOK
  <2>1. 0 \in 0 .. 0 /\ 0 \in 0 .. MaxCalls /\ <<>> \in Seq(Paragraph)
    BY DEF Sizes
  <2>2. call \in [Caller -> Call]
    BY IdleFields DEF CoreInit
  <2> QED
    BY <2>1, <2>2 DEF CoreInit, CoreTypeOK
<1>2. BlockWritten /\ NoSilentLoss
  BY RangeEmpty DEF CoreInit, BlockWritten, NoSilentLoss
<1>3. ASSUME NEW c \in Caller PROVE CallOK(c)
  <2>1. call[c] = Idle /\ sequence = 0
    BY DEF CoreInit
  <2>2. Shape(c)
    BY <2>1, IdleFields, RangeEmpty DEF Shape
  <2> QED
    BY <2>1, <2>2, IdleFields DEF CallOK, Current, Informed, Evicting
<1> QED
  BY <1>1, <1>2, <1>3 DEF IInv

LEMMA IInvStep ==
    ASSUME Sizes, IInv, [CoreNext]_coreVars PROVE IInv'
<1>1. CASE UNCHANGED coreVars
  <2>1. CoreTypeOK' /\ BlockWritten' /\ NoSilentLoss'
    BY <1>1 DEF IInv, coreVars, CoreTypeOK, BlockWritten, NoSilentLoss
  <2>2. ASSUME NEW d \in Caller PROVE CallOK(d)'
    BY <1>1 DEF IInv, coreVars, CallOK, Shape, Current, Informed, MadeOf, Evicting
  <2> QED
    BY <2>1, <2>2 DEF IInv
<1>2. ASSUME NEW c \in Caller, NEW p \in Paragraph, NEW informed \in BOOLEAN,
             UpdateBlock(c, p, informed)
      PROVE  IInv'
  BY <1>2, UpdateStep
<1>3. ASSUME NEW c \in Caller, NEW p \in Paragraph, AppendBlock(c, p) PROVE IInv'
  <2> DEFINE with == [Idle EXCEPT !.at = "read", !.kind = "append", !.text = <<p>>]
  <2>1. Begin(c, with)
    BY <1>3 DEF AppendBlock
  <2>2. /\ with \in Call /\ with.at = "read" /\ with.kind = "append" /\ with.revision = 0
        /\ Len(with.text) = 1 /\ with.evict = <<>>
    BY IdleFields, OneParagraph DEF Call, At, Kind
  <2> HIDE DEF with
  <2> QED
    BY <2>1, <2>2, ReaderStep
<1>4. ASSUME NEW c \in Caller, NEW p \in Paragraph, PageFromArchival(c, p) PROVE IInv'
  <2> DEFINE with == [Idle EXCEPT !.at = "read", !.kind = "page", !.text = <<p>>]
  <2>1. Begin(c, with)
    BY <1>4 DEF PageFromArchival
  <2>2. /\ with \in Call /\ with.at = "read" /\ with.kind = "page" /\ with.revision = 0
        /\ Len(with.text) = 1 /\ with.evict = <<>>
    BY IdleFields, OneParagraph DEF Call, At, Kind
  <2> HIDE DEF with
  <2> QED
    BY <2>1, <2>2, ReaderStep
<1>5. ASSUME NEW c \in Caller, NEW old \in Paragraph, NEW p \in Paragraph,
             ReplaceInBlock(c, old, p)
      PROVE  IInv'
  <2> DEFINE with == [Idle EXCEPT !.at = "read", !.kind = "replace", !.old = <<old>>,
                                  !.text = <<p>>]
  <2>1. Begin(c, with)
    BY <1>5 DEF ReplaceInBlock
  <2>2. /\ with \in Call /\ with.at = "read" /\ with.kind = "replace" /\ with.revision = 0
        /\ Len(with.text) = 1 /\ Len(with.old) = 1 /\ with.evict = <<>>
    BY IdleFields, OneParagraph DEF Call, At, Kind
  <2> HIDE DEF with
  <2> QED
    BY <2>1, <2>2, ReaderStep
<1>6. ASSUME NEW c \in Caller, BootstrapAgent(c) \/ ContextToArchival(c) PROVE IInv'
  BY <1>6, BootstrapStep, EvictStep
<1>7. ASSUME NEW c \in Caller, ArchiveOne(c) \/ ReadBlock(c) \/ WriteBlock(c) PROVE IInv'
  BY <1>7, ArchiveStep, ReadStep, WriteStep
<1>8. ASSUME NEW c \in Caller, Conflict(c) \/ Refetch(c) PROVE IInv'
  BY <1>8, ConflictStep, RefetchStep
<1>9. CASE DeleteAgent
  BY <1>9, DeleteStep
<1> QED
  BY <1>1, <1>2, <1>3, <1>4, <1>5, <1>6, <1>7, <1>8, <1>9 DEF CoreNext

LEMMA InductiveInvariant ==
    ASSUME Sizes PROVE CoreSpec => []IInv
  BY IInvInit, IInvStep, PTL DEF CoreSpec

\* Whatever the calls of update_block, append_block, replace_in_block,
\* bootstrap_agent, the pager and delete_agent do beside each other, what was
\* written to the block is in it or in the archive, unless the code gave it up;
\* and no call makes more attempts than MAX_CAS_RETRIES.
THEOREM NothingLostSilently ==
    ASSUME Sizes PROVE CoreSpec => []CoreSafe
<1>1. IInv => CoreSafe
  BY DEF IInv, CoreSafe
<1> QED
  BY <1>1, InductiveInvariant, PTL

\* The write of an append puts its text behind the block as it is at that
\* moment, however many conflicts the CAS loop of append_block met before.
THEOREM AppendsKept ==
    ASSUME Sizes PROVE CoreSpec => AppendsKeepTheRest
<1>1. ASSUME IInv, [CoreNext]_coreVars, NEW c \in Caller,
             call[c].kind \in {"append", "page"}, call[c].at = "write", kv' # kv,
             call'[c] = Idle
      PROVE  kv'.content = kv.content \o call[c].text
  <2>1. Idle.at = "idle"
    BY DEF Idle
  <2>2. CASE WriteBlock(c)
    <3>1. kv'.content = call[c].seen /\ call[c].revision = kv.revision
      BY <1>1, <2>2 DEF WriteBlock, Content, Whole, Matches
    <3>2. MadeOf(c, kv.content)
      BY <1>1, <3>1 DEF IInv, CallOK, Current, Informed, Whole
    <3> QED
      BY <1>1, <3>1, <3>2 DEF MadeOf
  <2>3. CASE DeleteAgent
    <3>1. call'[c] = call[c]
      BY <2>3 DEF DeleteAgent
    <3> QED
      BY <1>1, <2>1, <3>1
  <2>4. ASSUME NEW d \in Caller, WriteBlock(d), d # c PROVE FALSE
    <3>1. call'[c] = call[c]
      BY <1>1, <2>4 DEF WriteBlock, IInv, CoreTypeOK
    <3> QED
      BY <1>1, <2>1, <3>1
  <2>5. (\E d \in Caller : WriteBlock(d)) \/ DeleteAgent
    BY <1>1 DEF CoreNext, coreVars, UpdateBlock, AppendBlock, ReplaceInBlock, BootstrapAgent,
       ContextToArchival, PageFromArchival, Begin, ArchiveOne, ReadBlock, Conflict, Refetch
  <2> QED
    BY <2>2, <2>3, <2>4, <2>5
<1>2. IInv /\ [CoreNext]_coreVars =>
         [\A c \in Caller :
            call[c].kind \in {"append", "page"} /\ call[c].at = "write" /\ kv' # kv
              /\ call'[c] = Idle
            => kv'.content = kv.content \o call[c].text]_coreVars
  BY <1>1
<1> QED
  BY <1>2, InductiveInvariant, PTL DEF CoreSpec, AppendsKeepTheRest

-----------------------------------------------------------------------------
(* Workflows.  HiddenHasRule is not inductive: it says nothing of the       *)
(* consolidation that is about to hide its episodes.  That one has stored   *)
(* its rule, or the erasure has been there and has taken the episodes too.  *)

Prepared(d) ==
    /\ dream[d].at = "store" => dream[d].rules # <<>>
    /\ dream[d].at = "mark" =>
         \/ \E r \in rules : r.key = dream[d].episodes
         \/ \A e \in dream[d].episodes : episode[e] = "erased"
    /\ \A e \in dream[d].episodes : episode[e] # "absent"

\* A request without a key has no row before its activity has run.
RunOnce ==
    \A r \in Learning : r \notin reruns =>
        /\ rows[r] <= 1
        /\ ingest[r] \in {"none", "embed", "store"} => rows[r] = 0

WorkflowInv ==
    /\ WorkflowTypeOK /\ HiddenHasRule /\ StoredOnce
    /\ \A d \in Dream : Prepared(d)
    /\ RunOnce

ingestVars == <<ingest, rows, reruns>>
dreamVars == <<episode, rules, dream, synthesized>>

\* The dreams do not touch what the ingestion keeps, and the reverse.
LEMMA IngestKept ==
    ASSUME WorkflowInv, UNCHANGED ingestVars
    PROVE  RunOnce' /\ (\A q, r \in Evidence : rows'[q] + (IF q = r THEN 0 ELSE rows'[r]) <= 1)
             /\ (\A r \in Learning : rows'[r] > 1 => r \in reruns')
  BY DEF WorkflowInv, RunOnce, StoredOnce, ingestVars

LEMMA DreamsKept ==
    ASSUME WorkflowInv, UNCHANGED dreamVars
    PROVE  /\ HiddenHasRule' /\ (\A d \in Dream : Prepared(d)')
           /\ \A q, r \in rules' : q.key = r.key => q = r
  BY DEF WorkflowInv, HiddenHasRule, Prepared, StoredOnce, dreamVars

LEMMA IngestStart ==
    ASSUME WorkflowInv, NEW r \in Request,
           StartIngest(r) \/ GenerateEmbedding(r) \/ LogAudit(r)
    PROVE  WorkflowInv'
<1>1. /\ UNCHANGED dreamVars /\ UNCHANGED <<family, rows, reruns, scrub, store, faults>>
      /\ ingest' \in [Request -> IngestAt]
      /\ \A q \in Request : ingest'[q] \in {"none", "embed", "store"} =>
                            ingest[q] \in {"none", "embed", "store"}
  BY DEF StartIngest, GenerateEmbedding, LogAudit, dreamVars, WorkflowInv, WorkflowTypeOK,
     IngestAt
<1>2. WorkflowTypeOK'
  BY <1>1 DEF WorkflowInv, WorkflowTypeOK, dreamVars
<1>3. RunOnce' /\ StoredOnce'
  BY <1>1, LearningRequests DEF WorkflowInv, RunOnce, StoredOnce, dreamVars
<1> QED
  BY <1>1, <1>2, <1>3, DreamsKept DEF WorkflowInv

LEMMA StoreStep ==
    ASSUME WorkflowInv, MaxFaults \in Nat, NEW r \in Request, StoreMemory(r)
    PROVE  WorkflowInv'
<1>1. /\ UNCHANGED dreamVars /\ UNCHANGED <<family, scrub, store>>
      /\ ingest[r] = "store"
  BY DEF StoreMemory, dreamVars
<1>2. /\ ingest' \in [Request -> IngestAt] /\ reruns' \subseteq Request
      /\ faults' \in 0 .. MaxFaults /\ reruns \subseteq reruns'
      /\ \A q \in Request : q # r => ingest'[q] = ingest[q]
      /\ ingest'[r] = "audit" \/ r \in reruns'
  BY DEF StoreMemory, Fault, WorkflowInv, WorkflowTypeOK, IngestAt
<1>3. /\ rows' \in [Request -> Nat]
      /\ \A q \in Request : q # r => rows'[q] = rows[q]
      /\ HasRow(r) => rows' = rows
      /\ ~HasRow(r) => rows'[r] = rows[r] + 1
  BY DEF StoreMemory, WorkflowInv, WorkflowTypeOK
<1>4. WorkflowTypeOK'
  BY <1>1, <1>2, <1>3 DEF WorkflowInv, WorkflowTypeOK, dreamVars
<1>5. \A q \in Learning : q \in Request /\ (q # r => rows'[q] = rows[q] /\ ingest'[q] = ingest[q])
  BY <1>2, <1>3, LearningRequests
<1>6. r \in Learning => rows'[r] = rows[r] + 1 /\ (r \notin reruns => rows[r] = 0)
  BY <1>1, <1>3 DEF HasRow, Evidence, WorkflowInv, RunOnce
<1>7. RunOnce'
  BY <1>1, <1>2, <1>5, <1>6 DEF WorkflowInv, RunOnce, WorkflowTypeOK
<1>8. \A q \in Learning : rows'[q] > 1 => q \in reruns'
  BY <1>2, <1>5, <1>6 DEF WorkflowInv, StoredOnce, WorkflowTypeOK
<1>9. \A p, q \in Evidence : rows'[p] + (IF p = q THEN 0 ELSE rows'[q]) <= 1
  <2>1. CASE r \in Learning
    <3>1. \A q \in Evidence : rows'[q] = rows[q]
      BY <2>1, <1>3 DEF Evidence
    <3> QED
      BY <3>1 DEF WorkflowInv, StoredOnce
  <2>2. CASE HasRow(r)
    BY <2>2, <1>3 DEF WorkflowInv, StoredOnce
  <2>3. CASE r \in Evidence /\ ~HasRow(r)
    <3>1. \A q \in Evidence : rows[q] = 0 /\ q \in Request
      BY <2>3 DEF HasRow, WorkflowInv, WorkflowTypeOK, Evidence
    <3>2. rows'[r] = 1 /\ \A q \in Evidence : q # r => rows'[q] = 0
      BY <2>3, <3>1, <1>3
    <3> QED
      BY <3>1, <3>2
  <2> QED
    BY <2>1, <2>2, <2>3 DEF Evidence
<1> QED
  BY <1>1, <1>4, <1>7, <1>8, <1>9, DreamsKept DEF WorkflowInv, StoredOnce

LEMMA EpisodeStep ==
    ASSUME WorkflowInv, NEW e \in Episode, NewEpisode(e)
    PROVE  WorkflowInv'
<1>1. /\ UNCHANGED ingestVars
      /\ UNCHANGED <<family, rules, dream, synthesized, scrub, store, faults>>
      /\ episode[e] = "absent" /\ episode' \in [Episode -> EpisodeState]
      /\ episode'[e] = "searchable"
      /\ \A f \in Episode : f # e => episode'[f] = episode[f]
  BY DEF NewEpisode, ingestVars, WorkflowInv, WorkflowTypeOK, EpisodeState
<1>2. WorkflowTypeOK'
  BY <1>1 DEF WorkflowInv, WorkflowTypeOK, ingestVars
<1>3. HiddenHasRule'
  BY <1>1 DEF WorkflowInv, HiddenHasRule
<1>4. ASSUME NEW d \in Dream PROVE Prepared(d)'
  <2>1. dream[d].episodes \subseteq Episode /\ Prepared(d)
    BY DEF WorkflowInv, WorkflowTypeOK, Consolidation
  <2> QED
    BY <1>1, <2>1 DEF Prepared
<1>5. \A q, r \in rules' : q.key = r.key => q = r
  BY <1>1 DEF WorkflowInv, StoredOnce
<1> QED
  BY <1>1, <1>2, <1>3, <1>4, <1>5, IngestKept DEF WorkflowInv, StoredOnce

\* What a step of one consolidation has to establish.
LEMMA DreamEffect ==
    ASSUME WorkflowInv, NEW d \in Dream, UNCHANGED ingestVars,
           UNCHANGED <<family, scrub, store>>, faults' \in 0 .. MaxFaults,
           dream' \in [Dream -> Consolidation],
           \A c \in Dream : c # d => dream'[c] = dream[c],
           episode' \in [Episode -> EpisodeState],
           \A e \in Episode : /\ episode[e] # "absent" => episode'[e] # "absent"
                              /\ episode[e] = "erased" => episode'[e] = "erased",
           rules \subseteq rules', rules' \subseteq [key : SUBSET Episode, text : Rule],
           \A q, r \in rules' : q.key = r.key => q = r,
           HiddenHasRule', Prepared(d)'
    PROVE  WorkflowInv'
<1>1. WorkflowTypeOK'
  BY DEF WorkflowInv, WorkflowTypeOK, ingestVars
<1>2. ASSUME NEW c \in Dream PROVE Prepared(c)'
  <2>1. CASE c = d
    BY <2>1
  <2>2. CASE c # d
    <3>1. dream[c].episodes \subseteq Episode /\ Prepared(c) /\ dream'[c] = dream[c]
      BY <2>2 DEF WorkflowInv, WorkflowTypeOK, Consolidation
    <3> QED
      BY <3>1 DEF Prepared
  <2> QED
    BY <2>1, <2>2
<1> QED
  BY <1>1, <1>2, IngestKept DEF WorkflowInv, StoredOnce

LEMMA DreamType ==
    ASSUME WorkflowInv, NEW d \in Dream
    PROVE  /\ dream[d] \in Consolidation /\ dream[d].at \in DreamAt
           /\ dream[d].episodes \subseteq Episode /\ dream[d].rules \in Seq(Rule)
           /\ Prepared(d) /\ episode \in [Episode -> EpisodeState]
           /\ faults \in 0 .. MaxFaults /\ dream \in [Dream -> Consolidation]
           /\ rules \subseteq [key : SUBSET Episode, text : Rule]
           /\ \A q, r \in rules : q.key = r.key => q = r
  BY DEF WorkflowInv, WorkflowTypeOK, Consolidation, StoredOnce

\* A step that moves a consolidation and touches no row.
LEMMA DreamMoves ==
    ASSUME WorkflowInv, NEW d \in Dream, UNCHANGED ingestVars,
           UNCHANGED <<family, episode, rules, scrub, store>>, faults' \in 0 .. MaxFaults,
           NEW new \in Consolidation, dream' = [dream EXCEPT ![d] = new],
           new.at = "store" => new.rules # <<>>, new.at # "mark",
           \A e \in new.episodes : episode[e] # "absent"
    PROVE  WorkflowInv'
<1>1. /\ dream' \in [Dream -> Consolidation] /\ dream'[d] = new
      /\ \A c \in Dream : c # d => dream'[c] = dream[c]
  BY DreamType
<1>2. HiddenHasRule' /\ Prepared(d)'
  BY <1>1 DEF WorkflowInv, HiddenHasRule, Prepared
<1> QED
  BY <1>1, <1>2, DreamType, DreamEffect

LEMMA FetchStep ==
    ASSUME WorkflowInv, MaxFaults \in Nat, NEW d \in Dream, FetchEpisodes(d)
    PROVE  WorkflowInv'
<1> DEFINE found == {e \in Episode : episode[e] = "searchable"}
<1>1. /\ UNCHANGED ingestVars /\ UNCHANGED <<family, episode, rules, scrub, store>>
      /\ faults' \in 0 .. MaxFaults
      /\ \/ dream' = [dream EXCEPT ![d] = [@ EXCEPT !.at = "synthesize", !.episodes = found]]
         \/ dream' = [dream EXCEPT ![d].at = "skipped"]
  BY DreamType DEF FetchEpisodes, Fault, DreamGoes, ingestVars
<1>2. CASE dream' = [dream EXCEPT ![d] = [@ EXCEPT !.at = "synthesize", !.episodes = found]]
  <2>1. PICK new : new = [dream[d] EXCEPT !.at = "synthesize", !.episodes = found]
    OBVIOUS
  <2>2. new \in Consolidation /\ new.at = "synthesize" /\ new.episodes = found
    BY <2>1, DreamType DEF Consolidation, DreamAt
  <2>3. dream' = [dream EXCEPT ![d] = new]
    BY <1>2, <2>1, DreamType
  <2> QED
    BY <1>1, <2>2, <2>3, DreamMoves
<1>3. CASE dream' = [dream EXCEPT ![d].at = "skipped"]
  <2>1. PICK new : new = [dream[d] EXCEPT !.at = "skipped"]
    OBVIOUS
  <2>2. new \in Consolidation /\ new.at = "skipped" /\ new.episodes = dream[d].episodes
    BY <2>1, DreamType DEF Consolidation, DreamAt
  <2>3. dream' = [dream EXCEPT ![d] = new]
    BY <1>3, <2>1, DreamType
  <2> QED
    BY <1>1, <2>2, <2>3, DreamMoves, DreamType DEF Prepared
<1> QED
  BY <1>1, <1>2, <1>3

LEMMA SynthesizeStep ==
    ASSUME WorkflowInv, NEW d \in Dream, SynthesizeRules(d) \/ DreamAudit(d)
    PROVE  WorkflowInv'
<1>1. /\ UNCHANGED ingestVars
      /\ UNCHANGED <<family, episode, rules, scrub, store>> /\ faults' \in 0 .. MaxFaults
  BY DreamType DEF SynthesizeRules, DreamAudit, ingestVars
<1>2. ASSUME NEW to \in {"skipped", "completed"}, dream' = [dream EXCEPT ![d].at = to]
      PROVE  WorkflowInv'
  <2>1. PICK new : new = [dream[d] EXCEPT !.at = to]
    OBVIOUS
  <2>2. new \in Consolidation /\ new.at = to /\ new.episodes = dream[d].episodes
    BY <2>1, DreamType DEF Consolidation, DreamAt
  <2>3. dream' = [dream EXCEPT ![d] = new]
    BY <1>2, <2>1, DreamType
  <2> QED
    BY <1>1, <2>2, <2>3, DreamMoves, DreamType DEF Prepared
<1>3. ASSUME NEW q \in Rule, NEW r \in Rule,
             dream' = [dream EXCEPT ![d].at = "store",
                                    ![d].rules = IF q = r THEN <<q>> ELSE <<q, r>>]
      PROVE  WorkflowInv'
  <2>1. PICK list : list = IF q = r THEN <<q>> ELSE <<q, r>>
    OBVIOUS
  <2>2. PICK new : new = [dream[d] EXCEPT !.at = "store", !.rules = list]
    OBVIOUS
  <2>3. list \in Seq(Rule) /\ list # <<>>
    BY <2>1
  <2>4. new \in Consolidation /\ new.rules = list /\ new.at = "store"
          /\ new.episodes = dream[d].episodes
    BY <2>2, <2>3, DreamType DEF Consolidation, DreamAt
  <2>5. dream' = [dream EXCEPT ![d] = new]
    BY <1>3, <2>1, <2>2, DreamType
  <2> QED
    BY <1>1, <2>3, <2>4, <2>5, DreamMoves, DreamType DEF Prepared
<1>4. \/ \E to \in {"skipped", "completed"} : dream' = [dream EXCEPT ![d].at = to]
      \/ \E q, r \in Rule :
            dream' = [dream EXCEPT ![d].at = "store",
                                   ![d].rules = IF q = r THEN <<q>> ELSE <<q, r>>]
  BY DEF SynthesizeRules, DreamAudit, DreamGoes
<1> QED
  BY <1>2, <1>3, <1>4

LEMMA RuleStep ==
    ASSUME WorkflowInv, MaxFaults \in Nat, NEW d \in Dream, StoreDreamRule(d)
    PROVE  WorkflowInv'
<1>1. PICK key : key = dream[d].episodes
  OBVIOUS
<1>2. PICK text : text = Head(dream[d].rules)
  OBVIOUS
<1>3. key \in SUBSET Episode /\ text \in Rule /\ Tail(dream[d].rules) \in Seq(Rule)
      /\ Len(dream[d].rules) \in Nat \ {0}
  <2>1. dream[d].rules \in Seq(Rule) /\ dream[d].rules # <<>> /\ dream[d].episodes \subseteq Episode
    BY DreamType DEF StoreDreamRule, Prepared
  <2> QED
    BY <2>1, <1>1, <1>2
<1>4. rules' = Upsert(key, text)
  BY <1>1, <1>2 DEF StoreDreamRule
<1>5. /\ rules \subseteq rules' /\ rules' \subseteq [key : SUBSET Episode, text : Rule]
      /\ \A q, r \in rules' : q.key = r.key => q = r
      /\ \E r \in rules' : r.key = key
  <2>1. CASE \E r \in rules : r.key = key
    <3>1. rules' = rules
      BY <1>4, <2>1 DEF Upsert
    <3> QED
      BY <2>1, <3>1, DreamType
  <2>2. CASE ~ \E r \in rules : r.key = key
    <3>1. PICK row : row = [key |-> key, text |-> text]
      OBVIOUS
    <3>2. row \in [key : SUBSET Episode, text : Rule] /\ row.key = key
      BY <1>3, <3>1
    <3>3. rules' = rules \cup {row}
      BY <1>4, <2>2, <3>1 DEF Upsert
    <3> QED
      BY <2>2, <3>2, <3>3, DreamType
  <2> QED
    BY <2>1, <2>2
<1>6. /\ UNCHANGED ingestVars /\ UNCHANGED <<family, episode, scrub, store>>
      /\ faults' \in 0 .. MaxFaults
  BY DreamType DEF StoreDreamRule, Fault, ingestVars
<1>7. HiddenHasRule'
  BY <1>5, <1>6 DEF WorkflowInv, HiddenHasRule
<1>8. ASSUME NEW new \in Consolidation, dream' = [dream EXCEPT ![d] = new],
             new.episodes = key, new.at \in {"store", "mark"},
             new.at = "store" => new.rules # <<>>
      PROVE  WorkflowInv'
  <2>1. /\ dream' \in [Dream -> Consolidation] /\ dream'[d] = new
        /\ \A c \in Dream : c # d => dream'[c] = dream[c]
    BY <1>8, DreamType
  <2>2. \A e \in key : episode'[e] # "absent"
    BY <1>1, <1>6, DreamType DEF Prepared
  <2>3. Prepared(d)'
    BY <1>5, <1>8, <2>1, <2>2 DEF Prepared
  <2> QED
    BY <1>5, <1>6, <1>7, <2>1, <2>3, DreamType, DreamEffect
<1>9. CASE dream' = [dream EXCEPT ![d].rules = Tail(@),
                       ![d].at = IF Len(dream[d].rules) = 1 THEN "mark" ELSE "store"]
  <2>1. PICK new : new = [dream[d] EXCEPT !.rules = Tail(dream[d].rules),
                            !.at = IF Len(dream[d].rules) = 1 THEN "mark" ELSE "store"]
    OBVIOUS
  <2>2. /\ new \in Consolidation /\ new.rules = Tail(dream[d].rules) /\ new.episodes = key
        /\ new.at = IF Len(dream[d].rules) = 1 THEN "mark" ELSE "store"
    BY <1>1, <1>3, <2>1, DreamType DEF Consolidation, DreamAt
  <2>3. Len(dream[d].rules) # 1 => Tail(dream[d].rules) # <<>>
    <3>1. PICK list : list = dream[d].rules
      OBVIOUS
    <3>2. list \in Seq(Rule) /\ list # <<>>
      BY <3>1, DreamType DEF StoreDreamRule, Prepared
    <3>3. Len(Tail(list)) = Len(list) - 1 /\ Len(list) \in Nat
      BY <3>2, HeadTailProperties
    <3>4. Len(<<>>) = 0
      OBVIOUS
    <3>5. ASSUME Len(list) # 1, Tail(list) = <<>> PROVE FALSE
      <4>1. Len(Tail(list)) = 0
        BY <3>4, <3>5, Zenon
      <4> QED
        BY <3>3, <3>5, <4>1
    <3>6. Len(list) # 1 => Tail(list) # <<>>
      BY <3>5
    <3> QED
      BY <3>1, <3>6, Zenon
  <2>4. dream' = [dream EXCEPT ![d] = new]
    BY <1>9, <2>1, DreamType
  <2> QED
    BY <1>8, <2>2, <2>3, <2>4
<1>10. CASE dream' = dream
  <2>1. dream' = [dream EXCEPT ![d] = dream[d]] /\ dream[d].at = "store"
    BY <1>10, DreamType DEF StoreDreamRule
  <2> QED
    BY <1>1, <1>8, <2>1, DreamType DEF Prepared
<1> QED
  BY <1>9, <1>10 DEF StoreDreamRule

LEMMA MarkStep ==
    ASSUME WorkflowInv, MaxFaults \in Nat, NEW d \in Dream, MarkConsolidated(d)
    PROVE  WorkflowInv'
<1>1. /\ UNCHANGED ingestVars /\ UNCHANGED <<family, rules, scrub, store>>
      /\ faults' \in 0 .. MaxFaults /\ dream[d].at = "mark"
  BY DreamType DEF MarkConsolidated, Fault, ingestVars
<1>2. /\ dream' \in [Dream -> Consolidation] /\ dream'[d].at = "audit"
      /\ dream'[d].episodes = dream[d].episodes
      /\ \A c \in Dream : c # d => dream'[c] = dream[c]
  <2>1. PICK new : new = [dream[d] EXCEPT !.at = "audit"]
    OBVIOUS
  <2>2. new \in Consolidation /\ new.at = "audit" /\ new.episodes = dream[d].episodes
    BY <2>1, DreamType DEF Consolidation, DreamAt
  <2>3. dream' = [dream EXCEPT ![d] = new]
    BY <2>1, DreamType DEF MarkConsolidated, DreamGoes
  <2> QED
    BY <2>2, <2>3, DreamType
<1>3. /\ episode' \in [Episode -> EpisodeState]
      /\ \A e \in Episode : \/ episode'[e] = episode[e]
                            \/ /\ e \in dream[d].episodes /\ episode[e] # "erased"
                               /\ episode'[e] = "hidden"
  BY DreamType DEF MarkConsolidated, Hidden, EpisodeState
<1>4. HiddenHasRule'
  <2> SUFFICES ASSUME NEW e \in Episode, episode'[e] = "hidden"
               PROVE  \E r \in rules' : e \in r.key
    BY DEF HiddenHasRule
  <2>1. CASE episode'[e] = episode[e]
    BY <1>1, <2>1 DEF WorkflowInv, HiddenHasRule
  <2>2. CASE e \in dream[d].episodes /\ episode[e] # "erased"
    BY <1>1, <2>2, DreamType DEF Prepared
  <2> QED
    BY <1>3, <2>1, <2>2
<1>5. Prepared(d)'
  BY <1>2, <1>3, DreamType DEF Prepared
<1>6. \A e \in Episode : /\ episode[e] # "absent" => episode'[e] # "absent"
                         /\ episode[e] = "erased" => episode'[e] = "erased"
  BY <1>3
<1> QED
  BY <1>1, <1>2, <1>3, <1>4, <1>5, <1>6, DreamType, DreamEffect

LEMMA ScrubStep ==
    ASSUME WorkflowInv, MaxFaults \in Nat, Scrub
    PROVE  WorkflowInv'
<1>1. /\ UNCHANGED <<family, ingest, reruns, dream, synthesized>>
      /\ scrub' \in ScrubAt /\ store' \subseteq {"kv", "vector", "graph"}
      /\ faults' \in 0 .. MaxFaults
  <2>1. scrub \in {"none", "kv", "vector", "graph"}
    BY DEF Scrub, WorkflowInv, WorkflowTypeOK, ScrubAt
  <2>2. scrub' \in ScrubAt
    BY <2>1 DEF Scrub, ScrubNext, ScrubAt
  <2>3. UNCHANGED <<family, ingest, reruns, dream, synthesized>>
    BY DEF Scrub
  <2>4. store' \subseteq {"kv", "vector", "graph"}
    BY DEF Scrub, WorkflowInv, WorkflowTypeOK
  <2>5. faults' = faults \/ Fault
    BY DEF Scrub
  <2> QED
    BY <2>2, <2>3, <2>4, <2>5 DEF Fault, WorkflowInv, WorkflowTypeOK
<1>2. CASE UNCHANGED <<rules, episode, rows>>
  <2>1. WorkflowTypeOK'
    BY <1>1, <1>2 DEF WorkflowInv, WorkflowTypeOK
  <2> QED
    BY <1>1, <1>2, <2>1, IngestKept, DreamsKept
    DEF WorkflowInv, StoredOnce, ingestVars, dreamVars
<1>3. CASE rules' = {} /\ episode' = Erased /\ rows' = [r \in Request |-> 0]
  <2>1. /\ episode' \in [Episode -> EpisodeState]
        /\ \A e \in Episode : /\ episode[e] # "absent" => episode'[e] = "erased"
                              /\ episode'[e] # "hidden"
    BY <1>3 DEF Erased, EpisodeState, WorkflowInv, WorkflowTypeOK
  <2>2. WorkflowTypeOK'
    BY <1>1, <1>3, <2>1 DEF WorkflowInv, WorkflowTypeOK
  <2>3. ASSUME NEW d \in Dream PROVE Prepared(d)'
    <3>1. \A e \in dream[d].episodes : episode'[e] = "erased"
      BY <2>1, DreamType DEF Prepared
    <3>2. dream'[d] = dream[d] /\ Prepared(d)
      BY <1>1, DreamType
    <3> QED
      BY <3>1, <3>2 DEF Prepared
  <2>4. RunOnce' /\ StoredOnce'
    BY <1>1, <1>3, LearningRequests DEF RunOnce, StoredOnce, Evidence
  <2> QED
    BY <2>1, <2>2, <2>3, <2>4 DEF WorkflowInv, HiddenHasRule
<1> QED
  BY <1>2, <1>3 DEF Scrub

\* However often the engine runs the activities of the workflows again, whichever
\* fail, and wherever the erasure comes between: no episode is hidden without a
\* rule, and evidence is stored once for its key (store_memory,
\* store_dream_rule, mark_episodes_consolidated).
THEOREM WorkflowsKept ==
    ASSUME MaxFaults \in Nat PROVE WorkflowSpec => []WorkflowSafe
<1>1. WorkflowInit => WorkflowInv
  <2> SUFFICES ASSUME WorkflowInit PROVE WorkflowInv
    OBVIOUS
  <2>1. NoDream \in Consolidation /\ NoDream.at = "none" /\ NoDream.episodes = {}
    BY DEF NoDream, Consolidation, DreamAt
  <2>2. WorkflowTypeOK
    BY <2>1 DEF WorkflowInit, WorkflowTypeOK, IngestAt, EpisodeState, ScrubAt
  <2>3. HiddenHasRule /\ \A d \in Dream : Prepared(d)
    BY <2>1 DEF WorkflowInit, HiddenHasRule, Prepared
  <2>4. RunOnce /\ StoredOnce
    BY LearningRequests DEF WorkflowInit, RunOnce, StoredOnce, Evidence
  <2> QED
    BY <2>2, <2>3, <2>4 DEF WorkflowInv
<1>2. WorkflowInv /\ [WorkflowNext]_workflowVars => WorkflowInv'
  <2> SUFFICES ASSUME WorkflowInv, [WorkflowNext]_workflowVars PROVE WorkflowInv'
    OBVIOUS
  <2>1. CASE UNCHANGED workflowVars
    <3>1. WorkflowTypeOK'
      BY <2>1 DEF WorkflowInv, WorkflowTypeOK, workflowVars
    <3> QED
      BY <2>1, <3>1, IngestKept, DreamsKept
      DEF WorkflowInv, StoredOnce, ingestVars, dreamVars, workflowVars
  <2>2. CASE WorkflowNext
    BY <2>2, IngestStart, StoreStep, EpisodeStep, FetchStep, SynthesizeStep, RuleStep,
       MarkStep, ScrubStep DEF WorkflowNext, IngestStep, DreamStep
  <2> QED
    BY <2>1, <2>2
<1>3. WorkflowInv => WorkflowSafe
  BY DEF WorkflowInv, WorkflowSafe
<1> QED
  BY <1>1, <1>2, <1>3, PTL DEF WorkflowSpec

-----------------------------------------------------------------------------
(* Vault: the inductive invariant                                           *)

Phase == {"down", "scan", "idle", "dispatch"}

VaultTypes ==
    /\ VaultTypeOK
    /\ disk \in [Path -> {None} \cup FileState]
    /\ \A p \in Path : disk[p] # None => disk[p].content \in Contents[p]
    /\ now \in Nat
    /\ put \in [Writer -> {None} \cup HalfPut]
    /\ daemon \in [phase : Phase, todo : SUBSET Path, read : {None} \cup FileRead,
                   fresh : {<<>>} \cup [Path -> Nat]]
    /\ snap \in [Path -> Nat]
    /\ timer \in [poll : Nat, quiet : [Path -> Nat]]
    /\ unused \subseteq Uuid
    /\ linked \in [Id -> SUBSET Slug]
    /\ torn \subseteq Id

\* A put_node no other came across still has to write the links of the node.
PutKnown ==
    \A w \in Writer :
        put[w] # None /\ put[w].clean /\ nodes[put[w].id] # None
            => nodes[put[w].id].links = put[w].links

\* A path's own node has a slug of that file, and ids are used when taken.
NodesOwned ==
    /\ \A p \in Path : nodes[p] # None => \E c \in Contents[p] : nodes[p].slug = c.slug
    /\ \A i \in unused : nodes[i] = None

\* What the daemon has at hand in each phase.
DaemonHolds ==
    /\ daemon.phase \in {"down", "idle"} => DaemonFree
    /\ daemon.read # None =>
          /\ put["daemon"] = None
          /\ daemon.read.path \notin daemon.todo
          /\ daemon.read.content \in Contents[daemon.read.path]
    /\ daemon.phase = "dispatch" => daemon.fresh \in [Path -> Nat]

\* No time stamp is ahead of the clock, no snapshot ahead of its files.
Times ==
    \A p \in Path :
        /\ snap[p] <= now
        /\ disk[p] # None => snap[p] <= disk[p].mtime /\ disk[p].mtime <= now
        /\ daemon.phase = "dispatch" =>
              /\ daemon.fresh[p] <= now
              /\ disk[p] # None => daemon.fresh[p] <= disk[p].mtime

\* The debouncer has forgotten a file before the next poll finds it changed.
Forgotten ==
    \A p \in Path :
        /\ timer.quiet[p] <= PollEvery
        /\ daemon.phase = "scan" => timer.quiet[p] = 0
        /\ daemon.phase = "idle" => timer.quiet[p] <= timer.poll
        /\ daemon.phase = "dispatch" /\ p \in daemon.todo => timer.quiet[p] = 0

Excused(p) ==
    \/ disk[p] = None
    \/ p \in missed
    \/ daemon.phase = "dispatch" /\ disk[p].mtime # daemon.fresh[p]
    \/ daemon.phase = "idle" /\ disk[p].mtime # snap[p]

\* A file the daemon has visited is in the index, or it is the one just read.
UpToDate ==
    daemon.phase # "down" => \A p \in Path \ daemon.todo :
        \/ Excused(p)
        \/ daemon.read # None /\ daemon.read.path = p
              /\ daemon.read.content = disk[p].content
        \/ (daemon.read # None => daemon.read.path # p) /\ Indexed(p)

VaultInv ==
    /\ VaultTypes /\ RegistrySound /\ PutKnown /\ LinksOfBody /\ NodesOwned
    /\ DaemonHolds /\ Times /\ Forgotten /\ UpToDate

-----------------------------------------------------------------------------
(* put_node                                                                 *)

LEMMA OneNode ==
    ASSUME RegistrySound, NEW i \in Id, NEW j \in Id, nodes[i] # None, nodes[j] # None,
           nodes[i].slug = nodes[j].slug
    PROVE  i = j
  BY DEF RegistrySound

\* The first transaction of put_node, on the node of the slug or on an id when
\* the slug has no node.
LEMMA PutNodeStep ==
    ASSUME VaultTypes, RegistrySound, PutKnown, LinksOfBody,
           NEW w \in Writer, NEW i \in Id, NEW row \in Row, put[w] = None,
           GetNode(row.slug) \subseteq {i},
           PutNode(w, i, row), UNCHANGED <<linked, torn>>
    PROVE  /\ nodes' \in [Id -> {None} \cup Row]
           /\ registry' \in [Slug -> Id \cup {None}]
           /\ put' \in [Writer -> {None} \cup HalfPut]
           /\ \A v \in Writer : put'[v] = None <=> v # w /\ put[v] = None
           /\ RegistrySound' /\ PutKnown' /\ LinksOfBody'
<1>1. /\ nodes \in [Id -> {None} \cup Row] /\ registry \in [Slug -> Id \cup {None}]
      /\ put \in [Writer -> {None} \cup HalfPut] /\ links \in [Id -> SUBSET Slug]
      /\ None \notin Id \cup Row \cup HalfPut
  BY Naming DEF VaultTypes, VaultTypeOK, Row
<1>2. /\ nodes' = [nodes EXCEPT ![i] = row] /\ registry' = [registry EXCEPT ![row.slug] = i]
      /\ links' = links
  BY DEF PutNode
<1>3. row.slug \in Slug /\ row.links \subseteq Slug
  BY DEF Row
<1> DEFINE new == [id |-> i, links |-> row.links,
                   clean |-> \A u \in Writer \ {w} : put[u] = None \/ put[u].id # i]
<1>4. new \in HalfPut /\ new.id = i /\ new.links = row.links
  BY <1>3 DEF HalfPut
<1>A. ASSUME NEW v \in Writer, put[v] # None
      PROVE  /\ [put[v] EXCEPT !.clean = FALSE] \in HalfPut
             /\ [put[v] EXCEPT !.clean = FALSE].id = put[v].id
             /\ ~[put[v] EXCEPT !.clean = FALSE].clean
  BY <1>1, <1>A DEF HalfPut
<1>B. put' = [v \in Writer |-> IF v = w THEN new
                               ELSE IF put[v] # None /\ put[v].id = i
                               THEN [put[v] EXCEPT !.clean = FALSE] ELSE put[v]]
  BY DEF PutNode
<1> HIDE DEF new
<1>C. /\ put' \in [Writer -> {None} \cup HalfPut]
      /\ put'[w] # None /\ put'[w].id = i /\ put'[w].links = row.links
  BY <1>1, <1>4, <1>A, <1>B
<1>D. ASSUME NEW v \in Writer \ {w}, put[v] # None
      PROVE  /\ put'[v] # None /\ put'[v].id = put[v].id
             /\ IF put[v].id = i THEN ~put'[v].clean ELSE put'[v] = put[v]
  BY <1>1, <1>A, <1>B, <1>D
<1>E. ASSUME NEW v \in Writer \ {w}, put[v] = None PROVE put'[v] = None
  BY <1>B, <1>E
<1>5. nodes' \in [Id -> {None} \cup Row] /\ registry' \in [Slug -> Id \cup {None}]
  BY <1>1, <1>2, <1>3
<1>6. RegistrySound'
  <2>1. ASSUME NEW s \in Slug, registry'[s] # None PROVE nodes'[registry'[s]] # None
    BY <1>1, <1>2, <1>3, <2>1 DEF RegistrySound
  <2>2. ASSUME NEW j \in Id, nodes'[j] # None PROVE registry'[nodes'[j].slug] = j
    <3>1. CASE j = i
      BY <1>1, <1>2, <1>3, <3>1
    <3>2. CASE j # i
      <4>1. nodes'[j] = nodes[j] /\ nodes[j] \in Row /\ nodes[j].slug \in Slug
        BY <1>1, <1>2, <2>2, <3>2 DEF Row
      <4>2. nodes[j].slug # row.slug
        BY <2>2, <3>2, <4>1 DEF GetNode
      <4> QED
        BY <1>1, <1>2, <2>2, <4>1, <4>2 DEF RegistrySound
    <3> QED
      BY <3>1, <3>2
  <2> QED
    BY <2>1, <2>2 DEF RegistrySound
<1>7. PutKnown'
  <2> SUFFICES ASSUME NEW v \in Writer, put'[v] # None, put'[v].clean, nodes'[put'[v].id] # None
               PROVE  nodes'[put'[v].id].links = put'[v].links
    BY DEF PutKnown
  <2>1. CASE v = w
    BY <1>1, <1>2, <1>C, <2>1
  <2>2. CASE v # w
    <3>1. put[v] # None
      BY <1>E, <2>2
    <3>2. put'[v] = put[v] /\ put[v].id # i /\ put[v].id \in Id
      BY <1>1, <1>D, <2>2, <3>1 DEF HalfPut
    <3> QED
      BY <1>1, <1>2, <3>1, <3>2 DEF PutKnown
  <2> QED
    BY <2>1, <2>2
<1>8. LinksOfBody'
  <2> SUFFICES ASSUME NEW j \in Id
               PROVE  \/ nodes'[j] = None \/ j \in torn'
                      \/ \E v \in Writer : put'[v] # None /\ put'[v].id = j
                      \/ links'[j] = nodes'[j].links \cup linked'[j]
    BY DEF LinksOfBody
  <2>1. CASE j = i
    BY <1>C, <2>1
  <2>2. CASE j # i
    <3>1. nodes'[j] = nodes[j] /\ links'[j] = links[j] /\ linked'[j] = linked[j] /\ torn' = torn
      BY <1>1, <1>2, <2>2
    <3>2. ASSUME NEW v \in Writer, put[v] # None, put[v].id = j
          PROVE  put'[v] # None /\ put'[v].id = j
      BY <1>D, <2>2, <3>2
    <3> QED
      BY <3>1, <3>2 DEF LinksOfBody
  <2> QED
    BY <2>1, <2>2
<1> QED
  BY <1>5, <1>6, <1>7, <1>8, <1>C, <1>D, <1>E

-----------------------------------------------------------------------------
(* The index                                                                *)

LEMMA IndexKept ==
    ASSUME RegistrySound, PutKnown, LinksOfBody, NodesOwned,
           UNCHANGED <<nodes, registry, links, put, unused, linked, torn>>
    PROVE  RegistrySound' /\ PutKnown' /\ LinksOfBody' /\ NodesOwned'
  BY DEF RegistrySound, PutKnown, LinksOfBody, NodesOwned

LEMMA IndexPutLinks ==
    ASSUME VaultInv, NEW w \in Writer, PutLinks(w)
    PROVE  RegistrySound' /\ PutKnown' /\ LinksOfBody' /\ NodesOwned'
<1> DEFINE i == put[w].id
<1>1. /\ put[w] # None /\ put[w] \in HalfPut /\ i \in Id
      /\ links \in [Id -> SUBSET Slug] /\ linked \in [Id -> SUBSET Slug]
      /\ put \in [Writer -> {None} \cup HalfPut]
  BY DEF PutLinks, VaultInv, VaultTypes, VaultTypeOK, HalfPut
<1>2. /\ links' = [links EXCEPT ![i] = put[w].links]
      /\ linked' = [linked EXCEPT ![i] = {}]
      /\ torn' = IF put[w].clean THEN torn \ {i} ELSE torn \cup {i}
      /\ put' = [put EXCEPT ![w] = None]
      /\ UNCHANGED <<nodes, registry, unused>>
  BY DEF PutLinks, ReplaceLinks
<1>3. RegistrySound' /\ NodesOwned'
  BY <1>2 DEF VaultInv, RegistrySound, NodesOwned
<1>4. PutKnown'
  BY <1>1, <1>2 DEF VaultInv, PutKnown
<1>5. LinksOfBody'
  <2> SUFFICES ASSUME NEW j \in Id, nodes[j] # None, j \notin torn',
                      \A v \in Writer : put'[v] = None \/ put'[v].id # j
               PROVE  links'[j] = nodes[j].links \cup linked'[j]
    BY <1>2 DEF LinksOfBody
  <2>1. CASE j = i
    BY <1>1, <1>2, <2>1 DEF VaultInv, PutKnown
  <2>2. CASE j # i
    BY <1>1, <1>2, <2>2 DEF VaultInv, LinksOfBody
  <2> QED
    BY <2>1, <2>2
<1> QED
  BY <1>3, <1>4, <1>5

LEMMA IndexPutLink ==
    ASSUME VaultInv, NEW src \in Slug, NEW dst \in Slug, PutLink(src, dst)
    PROVE  RegistrySound' /\ PutKnown' /\ LinksOfBody' /\ NodesOwned'
<1>1. /\ registry[src] \in Id
      /\ links \in [Id -> SUBSET Slug] /\ linked \in [Id -> SUBSET Slug]
  BY DEF PutLink, ResolveSlug, VaultInv, VaultTypes, VaultTypeOK
<1>2. /\ links' = [links EXCEPT ![registry[src]] = @ \cup {dst}]
      /\ linked' = [linked EXCEPT ![registry[src]] = @ \cup {dst}]
      /\ UNCHANGED <<nodes, registry, put, unused, torn>>
  BY DEF PutLink, ResolveSlug
<1>3. RegistrySound' /\ PutKnown' /\ NodesOwned'
  BY <1>2 DEF VaultInv, RegistrySound, PutKnown, NodesOwned
<1>4. LinksOfBody'
  BY <1>1, <1>2 DEF VaultInv, LinksOfBody
<1> QED
  BY <1>3, <1>4

LEMMA IndexDelete ==
    ASSUME VaultInv, NEW s \in Slug, DeleteNode(s)
    PROVE  RegistrySound' /\ PutKnown' /\ LinksOfBody' /\ NodesOwned'
<1>1. PICK i \in GetNode(s) :
          /\ nodes' = [nodes EXCEPT ![i] = None]
          /\ registry' = [r \in Slug |-> IF registry[r] = i THEN None ELSE registry[r]]
          /\ UNCHANGED <<links, put, unused, linked, torn>>
  BY DEF DeleteNode
<1>2. /\ i \in Id /\ nodes \in [Id -> {None} \cup Row] /\ None \notin Id
      /\ registry \in [Slug -> Id \cup {None}]
      /\ put \in [Writer -> {None} \cup HalfPut]
  BY Naming DEF GetNode, VaultInv, VaultTypes, VaultTypeOK, Row
<1>3. RegistrySound'
  <2>1. ASSUME NEW r \in Slug, registry'[r] # None PROVE nodes'[registry'[r]] # None
    BY <1>1, <1>2, <2>1 DEF VaultInv, RegistrySound
  <2>2. ASSUME NEW j \in Id, nodes'[j] # None PROVE registry'[nodes'[j].slug] = j
    <3>1. j # i /\ nodes'[j] = nodes[j] /\ nodes[j] \in Row /\ nodes[j].slug \in Slug
      BY <1>1, <1>2, <2>2 DEF Row
    <3> QED
      BY <1>1, <3>1, <2>2 DEF VaultInv, RegistrySound
  <2> QED
    BY <2>1, <2>2 DEF RegistrySound
<1>4. PutKnown'
  BY <1>1, <1>2 DEF VaultInv, PutKnown, HalfPut
<1>5. LinksOfBody' /\ NodesOwned'
  BY <1>1, <1>2 DEF VaultInv, LinksOfBody, NodesOwned, VaultTypes, Id
<1> QED
  BY <1>3, <1>4, <1>5

LEMMA IndexCrash ==
    ASSUME VaultInv, NEW w \in Writer, Crash(w) \/ PutLinksRaises(w)
    PROVE  RegistrySound' /\ PutKnown' /\ LinksOfBody' /\ NodesOwned'
<1>1. /\ put' = [put EXCEPT ![w] = None]
      /\ torn' = IF put[w] = None THEN torn ELSE torn \cup {put[w].id}
      /\ UNCHANGED <<nodes, registry, links, unused, linked>>
  BY DEF Crash, PutLinksRaises, index
<1>2. put \in [Writer -> {None} \cup HalfPut]
  BY DEF VaultInv, VaultTypes
<1>3. RegistrySound' /\ PutKnown' /\ NodesOwned'
  BY <1>1, <1>2 DEF VaultInv, RegistrySound, PutKnown, NodesOwned
<1>4. LinksOfBody'
  BY <1>1, <1>2 DEF VaultInv, LinksOfBody
<1> QED
  BY <1>3, <1>4

\* An agent writes the node of the slug, or a new one for a slug without a node.
LEMMA AgentWrites ==
    ASSUME VaultInv, NEW s \in Slug, NEW dsts \in SUBSET Slug,
           AgentPut(s, dsts, GetNode(s))
    PROVE  /\ nodes' \in [Id -> {None} \cup Row]
           /\ registry' \in [Slug -> Id \cup {None}]
           /\ put' \in [Writer -> {None} \cup HalfPut]
           /\ put'["daemon"] = None <=> put["daemon"] = None
           /\ RegistrySound' /\ PutKnown' /\ LinksOfBody' /\ NodesOwned'
           /\ \A k \in Id : nodes[k] # None /\ nodes[k].slug # s => nodes'[k] = nodes[k]
<1> DEFINE row == [slug |-> s, links |-> dsts, hashed |-> FALSE]
<1>1. PICK i \in (IF GetNode(s) # {} THEN GetNode(s) ELSE unused) :
          PutNode("agent", i, row) /\ unused' = unused \ {i}
  BY DEF AgentPut
<1>2. /\ row \in Row /\ i \in Id /\ "agent" \in Writer /\ "daemon" \in Writer
      /\ put["agent"] = None /\ UNCHANGED <<linked, torn>>
      /\ unused \subseteq Uuid /\ nodes \in [Id -> {None} \cup Row]
  BY DEF Row, GetNode, Id, Writer, AgentPut, VaultInv, VaultTypes, VaultTypeOK
<1>3. GetNode(s) \subseteq {i}
  BY <1>1, OneNode DEF GetNode, VaultInv
<1>4. /\ nodes' \in [Id -> {None} \cup Row] /\ registry' \in [Slug -> Id \cup {None}]
      /\ put' \in [Writer -> {None} \cup HalfPut]
      /\ \A v \in Writer : put'[v] = None <=> v # "agent" /\ put[v] = None
      /\ RegistrySound' /\ PutKnown' /\ LinksOfBody'
  <2> HIDE DEF row
  <2>1. row.slug = s
    BY DEF row
  <2> QED
    BY <1>1, <1>2, <1>3, <2>1, PutNodeStep DEF VaultInv
<1>5. nodes' = [nodes EXCEPT ![i] = row] /\ row.slug = s
  BY <1>1 DEF PutNode
<1>6. i \in unused \/ (i \in GetNode(s) /\ nodes[i] # None /\ nodes[i].slug = s)
  BY <1>1 DEF GetNode
<1>7. NodesOwned'
  <2>1. ASSUME NEW p \in Path, nodes'[p] # None PROVE \E c \in Contents[p] : nodes'[p].slug = c.slug
    BY <1>2, <1>5, <1>6, <2>1, Naming DEF VaultInv, NodesOwned, Id
  <2>2. ASSUME NEW j \in unused' PROVE nodes'[j] = None
    BY <1>1, <1>2, <1>5 DEF VaultInv, NodesOwned, Id
  <2> QED
    BY <2>1, <2>2 DEF NodesOwned
<1>8. ASSUME NEW k \in Id, nodes[k] # None, nodes[k].slug # s PROVE nodes'[k] = nodes[k]
  BY <1>2, <1>5, <1>6, <1>8 DEF VaultInv, NodesOwned
<1> QED
  BY <1>2, <1>4, <1>7, <1>8

\* The daemon writes the file it has read.
LEMMA DaemonWrites ==
    ASSUME VaultInv, SyncText
    PROVE  /\ nodes' \in [Id -> {None} \cup Row]
           /\ registry' \in [Slug -> Id \cup {None}]
           /\ put' \in [Writer -> {None} \cup HalfPut]
           /\ links' = links
           /\ RegistrySound' /\ PutKnown' /\ LinksOfBody' /\ NodesOwned'
           /\ \E k \in Id : /\ nodes'[k] # None
                            /\ nodes'[k].slug = daemon.read.content.slug
                            /\ nodes'[k].links = daemon.read.content.links
           /\ \A k \in Id, q \in Path : \A c \in Contents[q] :
                 nodes[k] # None /\ nodes[k].slug = c.slug /\ q # daemon.read.path
                    => nodes'[k] = nodes[k]
<1> DEFINE f == daemon.read.path
           c == daemon.read.content
           row == [slug |-> c.slug, links |-> c.links, hashed |-> TRUE]
<1>1. /\ daemon.read \in FileRead /\ f \in Path /\ c \in Contents[f]
      /\ put["daemon"] = None /\ daemon.read # None
  BY DEF SyncText, VaultInv, VaultTypes, DaemonHolds, FileRead
<1>2. /\ c.slug \in Slug /\ c.links \in SUBSET Slug
      /\ row \in Row /\ row.slug = c.slug /\ row.links = c.links /\ row # None
  <2>1. c \in [slug : Slug, links : SUBSET Slug]
    BY <1>1, Naming
  <2>2. c.slug \in Slug /\ c.links \in SUBSET Slug
    BY <2>1
  <2>3. row \in Row /\ row.slug = c.slug /\ row.links = c.links
    BY <2>2 DEF Row
  <2> HIDE DEF row
  <2> QED
    BY <2>2, <2>3, Naming
<1>3. /\ nodes \in [Id -> {None} \cup Row] /\ registry \in [Slug -> Id \cup {None}]
      /\ put \in [Writer -> {None} \cup HalfPut] /\ unused \subseteq Uuid
      /\ "daemon" \in Writer
  BY DEF VaultInv, VaultTypes, VaultTypeOK, Row, Writer
<1>4. UNCHANGED <<linked, torn, unused>>
  BY DEF SyncText
<1>5. CASE \E i \in GetNode(c.slug) : nodes[i] = row
  <2>1. UNCHANGED <<nodes, registry, links, put>>
    BY <1>5 DEF SyncText, index
  <2>2. RegistrySound' /\ PutKnown' /\ LinksOfBody' /\ NodesOwned'
    BY <1>4, <2>1, IndexKept DEF VaultInv
  <2>3. PICK i \in Id : nodes[i] = row
    BY <1>5 DEF GetNode
  <2> HIDE DEF row, c, f
  <2>4. nodes'[i] # None /\ nodes'[i].slug = c.slug /\ nodes'[i].links = c.links
    BY <1>2, <2>1, <2>3
  <2> QED
    BY <1>3, <2>1, <2>2, <2>4 DEF c
<1>6. CASE ~\E i \in GetNode(c.slug) : nodes[i] = row
  <2>1. PICK i \in (IF GetNode(c.slug) # {} THEN GetNode(c.slug) ELSE {f}) :
            PutNode("daemon", i, row)
    BY <1>6 DEF SyncText
  <2>2. i \in Id /\ GetNode(c.slug) \subseteq {i}
    BY <1>1, <2>1, OneNode DEF GetNode, VaultInv, Id
  <2>3. nodes' = [nodes EXCEPT ![i] = row] /\ links' = links
    BY <2>1 DEF PutNode
  <2>4. i = f \/ (nodes[i] # None /\ nodes[i].slug = c.slug)
    BY <2>1 DEF GetNode
  <2> HIDE DEF row
  <2>5. /\ nodes' \in [Id -> {None} \cup Row] /\ registry' \in [Slug -> Id \cup {None}]
        /\ put' \in [Writer -> {None} \cup HalfPut]
        /\ RegistrySound' /\ PutKnown' /\ LinksOfBody'
    BY <1>1, <1>2, <1>3, <1>4, <2>1, <2>2, PutNodeStep DEF VaultInv
  <2>6. NodesOwned'
    <3>1. ASSUME NEW p \in Path, nodes'[p] # None
          PROVE  \E d \in Contents[p] : nodes'[p].slug = d.slug
      <4>1. CASE p = i /\ i = f
        BY <1>1, <1>2, <1>3, <2>2, <2>3, <4>1
      <4>2. CASE p = i /\ i # f
        BY <1>2, <1>3, <2>2, <2>3, <2>4, <4>2 DEF VaultInv, NodesOwned
      <4>3. CASE p # i
        BY <1>3, <2>3, <3>1, <4>3 DEF VaultInv, NodesOwned, Id
      <4> QED
        BY <4>1, <4>2, <4>3
    <3>2. ASSUME NEW j \in unused' PROVE nodes'[j] = None
      <4>1. j # i /\ j \in Id
        BY <1>1, <1>3, <1>4, <2>4, Naming DEF VaultInv, NodesOwned, Id
      <4> QED
        BY <1>3, <1>4, <2>3, <4>1 DEF VaultInv, NodesOwned
    <3> QED
      BY <3>1, <3>2 DEF NodesOwned
  <2>7. ASSUME NEW k \in Id, NEW q \in Path, NEW d \in Contents[q],
               nodes[k] # None, nodes[k].slug = d.slug, q # f
        PROVE  nodes'[k] = nodes[k]
    <3>1. k # i
      <4>1. d.slug # c.slug
        BY <1>1, <2>7, Naming
      <4>2. i = f => \E e \in Contents[f] : nodes[i] = None \/ nodes[i].slug = e.slug
        BY <1>1 DEF VaultInv, NodesOwned
      <4>3. \A e \in Contents[f] : d.slug # e.slug
        BY <1>1, <2>7, Naming
      <4> QED
        BY <2>4, <2>7, <4>1, <4>2, <4>3
    <3> QED
      BY <1>3, <2>3, <3>1
  <2>8. nodes'[i] # None /\ nodes'[i].slug = c.slug /\ nodes'[i].links = c.links
    BY <1>2, <1>3, <2>2, <2>3
  <2> HIDE DEF c, f
  <2>9. \A k \in Id, q \in Path : \A d \in Contents[q] :
           nodes[k] # None /\ nodes[k].slug = d.slug /\ q # f => nodes'[k] = nodes[k]
    BY <2>7
  <2> QED
    BY <2>2, <2>3, <2>5, <2>6, <2>8, <2>9 DEF c, f
<1> QED
  BY <1>5, <1>6

-----------------------------------------------------------------------------
(* Types                                                                    *)

LEMMA MtimesType ==
    ASSUME VaultTypes
    PROVE  /\ Mtimes \in [Path -> Nat]
           /\ \A p \in Path : Mtimes[p] = IF disk[p] = None THEN 0 ELSE disk[p].mtime
  BY DEF Mtimes, VaultTypes, FileState

LEMMA TypesFiles ==
    ASSUME VaultTypes
    PROVE  /\ \A p \in Path : \A c \in Contents[p] : Edit(p, c) => VaultTypes'
           /\ \A p \in Path : Unlink(p) => VaultTypes'
           /\ Tick => VaultTypes'
<1>1. ASSUME NEW p \in Path, NEW c \in Contents[p], Edit(p, c) PROVE VaultTypes'
  <2>1. [content |-> c, mtime |-> now] \in FileState
    BY DEF FileState, FileContent, VaultTypes
  <2>2. disk' = [disk EXCEPT ![p] = [content |-> c, mtime |-> now]]
    BY <1>1 DEF Edit
  <2> QED
    BY <1>1, <2>1, <2>2 DEF Edit, VaultTypes, VaultTypeOK, index
<1>2. ASSUME NEW p \in Path, Unlink(p) PROVE VaultTypes'
  BY <1>2 DEF Unlink, VaultTypes, VaultTypeOK, index
<1>3. ASSUME Tick PROVE VaultTypes'
  <2>1. timer' \in [poll : Nat, quiet : [Path -> Nat]] /\ now' \in Nat
    BY <1>3 DEF Tick, VaultTypes
  <2> QED
    BY <1>3, <2>1 DEF Tick, VaultTypes, VaultTypeOK, index
<1> QED
  BY <1>1, <1>2, <1>3

LEMMA TypesIndex ==
    ASSUME VaultInv
    PROVE  /\ \A w \in Writer : PutLinks(w) \/ Crash(w) \/ PutLinksRaises(w) => VaultTypes'
           /\ \A s, d \in Slug : PutLink(s, d) => VaultTypes'
           /\ \A s \in Slug : DeleteNode(s) => VaultTypes'
           /\ \A s \in Slug, d \in SUBSET Slug : AgentPut(s, d, GetNode(s)) => VaultTypes'
           /\ SyncText => VaultTypes'
<1> USE DEF VaultInv
<1>1. ASSUME NEW w \in Writer, PutLinks(w) PROVE VaultTypes'
  <2>1. put[w] \in HalfPut /\ put[w].id \in Id /\ put[w].links \in SUBSET Slug
    BY <1>1 DEF PutLinks, VaultTypes, HalfPut
  <2> QED
    BY <1>1, <2>1 DEF PutLinks, ReplaceLinks, VaultTypes, VaultTypeOK
<1>2. ASSUME NEW w \in Writer, Crash(w) \/ PutLinksRaises(w) PROVE VaultTypes'
  <2>1. put[w] # None => put[w].id \in Id
    BY DEF VaultTypes, HalfPut
  <2>2. AtRest \in [phase : Phase, todo : SUBSET Path, read : {None} \cup FileRead,
                    fresh : {<<>>} \cup [Path -> Nat]]
    BY DEF AtRest, Phase
  <2> QED
    BY <1>2, <2>1, <2>2 DEF Crash, PutLinksRaises, VaultTypes, VaultTypeOK, index, Phase
<1>3. ASSUME NEW s \in Slug, NEW d \in Slug, PutLink(s, d) PROVE VaultTypes'
  <2>1. registry[s] \in Id
    BY <1>3 DEF PutLink, ResolveSlug, VaultTypes, VaultTypeOK
  <2> QED
    BY <1>3, <2>1 DEF PutLink, ResolveSlug, VaultTypes, VaultTypeOK
<1>4. ASSUME NEW s \in Slug, DeleteNode(s) PROVE VaultTypes'
  BY <1>4 DEF DeleteNode, GetNode, VaultTypes, VaultTypeOK
<1>5. ASSUME NEW s \in Slug, NEW d \in SUBSET Slug, AgentPut(s, d, GetNode(s))
      PROVE  VaultTypes'
  <2>1. /\ nodes' \in [Id -> {None} \cup Row] /\ registry' \in [Slug -> Id \cup {None}]
        /\ put' \in [Writer -> {None} \cup HalfPut]
    BY <1>5, AgentWrites
  <2>2. links' = links /\ unused' \subseteq unused
    BY <1>5 DEF AgentPut, PutNode
  <2> QED
    BY <1>5, <2>1, <2>2 DEF AgentPut, VaultTypes, VaultTypeOK, Row
<1>6. ASSUME SyncText PROVE VaultTypes'
  <2>1. /\ nodes' \in [Id -> {None} \cup Row] /\ registry' \in [Slug -> Id \cup {None}]
        /\ put' \in [Writer -> {None} \cup HalfPut] /\ links' = links
    BY <1>6, DaemonWrites
  <2>2. /\ daemon' = [daemon EXCEPT !.read = None]
        /\ UNCHANGED <<disk, now, edits, snap, timer, unused, linked, torn>>
    BY <1>6 DEF SyncText
  <2> QED
    BY <2>1, <2>2 DEF VaultTypes, VaultTypeOK, Row
<1> QED
  BY <1>1, <1>2, <1>3, <1>4, <1>5, <1>6

LEMMA TypesDaemon ==
    ASSUME VaultTypes, DaemonHolds
    PROVE  /\ Start \/ StartWatching \/ Poll \/ EndPoll \/ Stop => VaultTypes'
           /\ \A p \in Path : ScanFile(p) \/ Handle(p) => VaultTypes'
           /\ SyncTextRaises => VaultTypes'
<1> DEFINE Daemon == [phase : Phase, todo : SUBSET Path, read : {None} \cup FileRead,
                      fresh : {<<>>} \cup [Path -> Nat]]
<1>1. AtRest \in Daemon /\ daemon \in Daemon /\ Mtimes \in [Path -> Nat]
  BY MtimesType DEF AtRest, Phase, VaultTypes
<1>A. /\ timer \in [poll : Nat, quiet : [Path -> Nat]] /\ PollEvery \in Nat /\ Window \in Nat
      /\ snap \in [Path -> Nat]
  BY Naming DEF VaultTypes
<1>2. ASSUME Start \/ StartWatching \/ Poll \/ EndPoll \/ Stop
      PROVE  /\ daemon' \in Daemon
             /\ snap' \in [Path -> Nat] /\ timer' \in [poll : Nat, quiet : [Path -> Nat]]
  <2>1. CASE Start
    BY <1>1, <1>A, <2>1 DEF Start, Phase
  <2>2. CASE StartWatching
    BY <1>1, <1>A, <2>2 DEF StartWatching, Phase
  <2>3. CASE Poll
    BY <1>1, <1>A, <2>3 DEF Poll, Phase
  <2>4. CASE EndPoll
    BY <1>1, <1>A, <2>4 DEF EndPoll, Phase, DaemonHolds
  <2>5. CASE Stop
    BY <1>1, <1>A, <2>5 DEF Stop
  <2> QED
    BY <1>2, <2>1, <2>2, <2>3, <2>4, <2>5
<1>3. ASSUME Start \/ StartWatching \/ Poll \/ EndPoll \/ Stop
      PROVE  VaultTypes'
  <2>1. /\ UNCHANGED <<disk, now, nodes, registry, links, put, unused, linked, torn>>
    BY <1>3 DEF Start, StartWatching, Poll, EndPoll, Stop, index
  <2> QED
    BY <1>2, <1>3, <2>1 DEF VaultTypes, VaultTypeOK, Phase
<1>4. ASSUME NEW p \in Path, NEW r \in BOOLEAN, ReadFile(p, r) PROVE daemon' \in Daemon
  <2>1. disk[p] # None => [path |-> p, content |-> disk[p].content] \in FileRead
    BY DEF VaultTypes, FileState, FileRead
  <2> QED
    BY <1>1, <1>4, <2>1 DEF ReadFile
<1>5. ASSUME NEW p \in Path, ScanFile(p) \/ Handle(p) PROVE VaultTypes'
  <2>1. daemon' \in Daemon /\ timer' \in [poll : Nat, quiet : [Path -> Nat]]
    <3>1. timer' = timer \/ timer' = [timer EXCEPT !.quiet[p] = Window]
      BY <1>5 DEF ScanFile, Handle
    <3>2. \/ \E r \in BOOLEAN : ReadFile(p, r)
          \/ daemon' = [daemon EXCEPT !.todo = @ \ {p}]
      BY <1>5 DEF ScanFile, Handle
    <3>3. daemon' = [daemon EXCEPT !.todo = @ \ {p}] => daemon' \in Daemon
      BY <1>1
    <3>4. timer' \in [poll : Nat, quiet : [Path -> Nat]]
      BY <1>A, <3>1
    <3> HIDE DEF Daemon
    <3> QED
      BY <1>4, <3>2, <3>3, <3>4
  <2>2. UNCHANGED <<disk, now, nodes, registry, links, put, snap, unused, linked, torn>>
    BY <1>5 DEF ScanFile, Handle, index
  <2> QED
    BY <2>1, <2>2 DEF VaultTypes, VaultTypeOK, Phase
<1>6. ASSUME SyncTextRaises PROVE VaultTypes'
  <2>1. daemon' \in Daemon
    BY <1>1, <1>6 DEF SyncTextRaises
  <2> QED
    BY <1>6, <2>1 DEF SyncTextRaises, VaultTypes, VaultTypeOK, Phase, index
<1> QED
  BY <1>3, <1>5, <1>6

-----------------------------------------------------------------------------
(* The daemon                                                               *)

\* Steps of others leave the daemon where it is.
LEMMA DaemonAlone ==
    ASSUME DaemonHolds, Times, Forgotten, UNCHANGED <<daemon, now, snap, timer>>,
           put["daemon"] = None => put'["daemon"] = None,
           \A p \in Path : disk'[p] = disk[p] \/ disk'[p] = None
    PROVE  DaemonHolds' /\ Times' /\ Forgotten'
  BY DEF DaemonHolds, DaemonFree, Times, Forgotten

LEMMA DaemonEdit ==
    ASSUME VaultInv, NEW p \in Path, NEW c \in Contents[p], Edit(p, c)
    PROVE  DaemonHolds' /\ Times' /\ Forgotten'
<1>1. /\ disk' = [disk EXCEPT ![p] = [content |-> c, mtime |-> now]]
      /\ UNCHANGED <<daemon, now, snap, timer, put>>
  BY DEF Edit
<1>2. disk \in [Path -> {None} \cup FileState] /\ now \in Nat /\ snap \in [Path -> Nat]
  BY DEF VaultInv, VaultTypes
<1>3. DaemonHolds' /\ Forgotten'
  BY <1>1 DEF VaultInv, DaemonHolds, DaemonFree, Forgotten
<1>4. Times'
  <2> SUFFICES ASSUME NEW q \in Path
               PROVE  /\ snap[q] <= now
                      /\ disk'[q] # None => snap[q] <= disk'[q].mtime /\ disk'[q].mtime <= now
                      /\ daemon.phase = "dispatch" =>
                            /\ daemon.fresh[q] <= now
                            /\ disk'[q] # None => daemon.fresh[q] <= disk'[q].mtime
    BY <1>1 DEF Times
  <2>1. disk'[q] = disk[q] \/ disk'[q].mtime = now
    BY <1>1, <1>2
  <2> QED
    BY <1>2, <2>1 DEF VaultInv, Times
<1> QED
  BY <1>3, <1>4

LEMMA DaemonTick ==
    ASSUME VaultInv, Tick
    PROVE  DaemonHolds' /\ Times' /\ Forgotten'
<1>1. /\ timer \in [poll : Nat, quiet : [Path -> Nat]] /\ PollEvery \in Nat
      /\ now \in Nat /\ snap \in [Path -> Nat]
      /\ \A p \in Path : disk[p] # None => disk[p].mtime \in Nat
      /\ daemon.phase = "dispatch" => daemon.fresh \in [Path -> Nat]
  BY Naming DEF VaultInv, VaultTypes, FileState, DaemonHolds
<1>2. UNCHANGED <<daemon, disk, snap, put>> /\ now' \in {now, now + 1}
  BY DEF Tick
<1>3. /\ timer'.poll = (IF timer.poll > 0 THEN timer.poll - 1 ELSE 0)
      /\ \A p \in Path : timer'.quiet[p] =
            IF timer.quiet[p] > 0 THEN timer.quiet[p] - 1 ELSE 0
  BY DEF Tick
<1>4. DaemonHolds'
  BY <1>2 DEF VaultInv, DaemonHolds, DaemonFree
<1>5. Times'
  BY <1>1, <1>2 DEF VaultInv, Times
<1>6. Forgotten'
  BY <1>1, <1>2, <1>3 DEF VaultInv, Forgotten
<1> QED
  BY <1>4, <1>5, <1>6

LEMMA DaemonPhases ==
    ASSUME VaultInv, Start \/ StartWatching \/ Poll \/ EndPoll \/ Stop
    PROVE  DaemonHolds' /\ Times' /\ Forgotten'
<1>1. /\ daemon \in [phase : Phase, todo : SUBSET Path, read : {None} \cup FileRead,
                     fresh : {<<>>} \cup [Path -> Nat]]
      /\ timer \in [poll : Nat, quiet : [Path -> Nat]]
      /\ PollEvery \in Nat /\ Window \in Nat /\ Window <= PollEvery
      /\ now \in Nat /\ snap \in [Path -> Nat]
      /\ \A p \in Path : disk[p] # None => disk[p].mtime \in Nat
      /\ Mtimes \in [Path -> Nat]
      /\ \A p \in Path : Mtimes[p] = IF disk[p] = None THEN 0 ELSE disk[p].mtime
  BY MtimesType, Naming DEF VaultInv, VaultTypes, FileState
<1>2. UNCHANGED <<disk, now, put>>
  BY DEF Start, StartWatching, Poll, EndPoll, Stop
<1>3. DaemonHolds /\ Times /\ Forgotten
  BY DEF VaultInv
<1>4. CASE Start
  <2>1. /\ daemon'.phase = "scan" /\ daemon'.read = None
        /\ snap' = [p \in Path |-> 0] /\ timer' = [timer EXCEPT !.quiet = [p \in Path |-> 0]]
    BY <1>4 DEF Start, AtRest
  <2>2. DaemonHolds' /\ Forgotten'
    BY <1>1, <1>2, <2>1 DEF DaemonHolds, Forgotten
  <2>3. Times'
    BY <1>1, <1>2, <1>3, <2>1 DEF Times
  <2> QED
    BY <2>2, <2>3
<1>5. CASE StartWatching
  <2>1. /\ daemon.phase = "scan" /\ DaemonFree
        /\ daemon' = [daemon EXCEPT !.phase = "idle"]
        /\ snap' = Mtimes /\ timer' = [timer EXCEPT !.poll = PollEvery]
    BY <1>5 DEF StartWatching
  <2>2. /\ daemon'.phase = "idle" /\ daemon'.todo = daemon.todo /\ daemon'.read = daemon.read
        /\ timer'.quiet = timer.quiet /\ timer'.poll = PollEvery
    BY <1>1, <2>1
  <2>3. DaemonHolds' /\ Forgotten'
    BY <1>1, <1>2, <1>3, <2>1, <2>2 DEF DaemonHolds, DaemonFree, Forgotten
  <2>4. Times'
    BY <1>1, <1>2, <1>3, <2>1, <2>2 DEF Times
  <2> QED
    BY <2>3, <2>4
<1>6. CASE Poll
  <2>1. daemon.phase = "idle" /\ timer.poll = 0 /\ UNCHANGED snap
    BY <1>6 DEF Poll
  <2>2. /\ daemon'.phase = "dispatch" /\ daemon'.fresh = Mtimes /\ daemon'.read = daemon.read
        /\ daemon'.todo = {p \in Path : Mtimes[p] > snap[p]}
    BY <1>1, <1>6 DEF Poll
  <2>3. /\ timer'.poll = 0
        /\ \A p \in Path : timer'.quiet[p] =
              IF Mtimes[p] = 0 /\ snap[p] # 0 /\ timer.quiet[p] = 0
              THEN Window ELSE timer.quiet[p]
    BY <1>1, <1>6, <2>1 DEF Poll
  <2>4. DaemonHolds'
    BY <1>1, <1>2, <1>3, <2>1, <2>2 DEF DaemonHolds, DaemonFree
  <2>5. Forgotten'
    <3>1. \A p \in Path : timer.quiet[p] = 0
      BY <1>1, <1>3, <2>1 DEF Forgotten
    <3> QED
      BY <1>1, <2>2, <2>3, <3>1 DEF Forgotten
  <2>6. Times'
    BY <1>1, <1>2, <1>3, <2>1, <2>2 DEF Times
  <2> QED
    BY <2>4, <2>5, <2>6
<1>7. CASE EndPoll
  <2>1. /\ daemon.phase = "dispatch" /\ DaemonFree /\ snap' = daemon.fresh
        /\ daemon'.phase = "idle" /\ daemon'.todo = {} /\ daemon'.read = None
        /\ timer' = [timer EXCEPT !.poll = PollEvery]
    BY <1>7 DEF EndPoll, AtRest
  <2>2. timer'.quiet = timer.quiet /\ timer'.poll = PollEvery
    BY <1>1, <2>1
  <2>3. DaemonHolds' /\ Forgotten'
    BY <1>1, <1>2, <1>3, <2>1, <2>2 DEF DaemonHolds, DaemonFree, Forgotten
  <2>4. Times'
    BY <1>1, <1>2, <1>3, <2>1, <2>2 DEF Times
  <2> QED
    BY <2>3, <2>4
<1>8. CASE Stop
  <2>1. /\ daemon.phase = "idle" /\ UNCHANGED <<snap, timer>>
        /\ daemon'.phase = "down" /\ daemon'.todo = {} /\ daemon'.read = None
    BY <1>8 DEF Stop, AtRest
  <2> QED
    BY <1>1, <1>2, <1>3, <2>1 DEF DaemonHolds, DaemonFree, Forgotten, Times
<1> QED
  BY <1>4, <1>5, <1>6, <1>7, <1>8

LEMMA DaemonReads ==
    ASSUME VaultInv, NEW p \in Path, ScanFile(p) \/ Handle(p)
    PROVE  DaemonHolds' /\ Times' /\ Forgotten'
<1>1. /\ daemon \in [phase : Phase, todo : SUBSET Path, read : {None} \cup FileRead,
                     fresh : {<<>>} \cup [Path -> Nat]]
      /\ timer \in [poll : Nat, quiet : [Path -> Nat]]
      /\ PollEvery \in Nat /\ Window \in Nat /\ Window <= PollEvery
  BY Naming DEF VaultInv, VaultTypes
<1>2. /\ UNCHANGED <<disk, now, snap, put>> /\ p \in daemon.todo
      /\ daemon.phase \in {"scan", "dispatch"} /\ put["daemon"] = None
  BY DEF ScanFile, Handle, ReadFile
<1>3. /\ daemon'.phase = daemon.phase /\ daemon'.fresh = daemon.fresh
      /\ daemon'.todo = daemon.todo \ {p}
      /\ daemon'.read = None \/ (/\ daemon'.read = [path |-> p, content |-> disk[p].content]
                                 /\ disk[p] # None)
  <2>1. ASSUME NEW r \in BOOLEAN, ReadFile(p, r)
        PROVE  /\ daemon'.phase = daemon.phase /\ daemon'.fresh = daemon.fresh
               /\ daemon'.todo = daemon.todo \ {p}
               /\ daemon'.read = None
                  \/ (/\ daemon'.read = [path |-> p, content |-> disk[p].content]
                      /\ disk[p] # None)
    <3> DEFINE got == IF disk[p] = None \/ ~r THEN None
                      ELSE [path |-> p, content |-> disk[p].content]
    <3>1. daemon' = [daemon EXCEPT !.todo = @ \ {p}, !.read = got]
      BY <2>1 DEF ReadFile
    <3>2. got = None \/ (got = [path |-> p, content |-> disk[p].content] /\ disk[p] # None)
      OBVIOUS
    <3> HIDE DEF got
    <3> QED
      BY <1>1, <3>1, <3>2
  <2>2. CASE daemon.read = None /\ daemon' = [daemon EXCEPT !.todo = @ \ {p}]
    BY <1>1, <2>2
  <2> QED
    BY <2>1, <2>2 DEF ScanFile, Handle
<1>4. DaemonHolds'
  <2>1. disk[p] # None => disk[p].content \in Contents[p]
    BY DEF VaultInv, VaultTypes
  <2> QED
    BY <1>2, <1>3, <2>1 DEF VaultInv, DaemonHolds
<1>5. Times'
  BY <1>2, <1>3 DEF VaultInv, Times
<1>6. Forgotten'
  <2>1. CASE timer' = timer
    BY <1>1, <1>2, <1>3, <2>1 DEF VaultInv, Forgotten
  <2>2. CASE timer' # timer
    <3>1. timer' = [timer EXCEPT !.quiet[p] = Window] /\ daemon.phase = "dispatch"
      BY <2>2 DEF ScanFile, Handle
    <3>2. /\ timer'.poll = timer.poll /\ timer'.quiet = [timer.quiet EXCEPT ![p] = Window]
      BY <1>1, <3>1
    <3> QED
      BY <1>1, <1>3, <3>1, <3>2 DEF VaultInv, Forgotten
  <2> QED
    BY <2>1, <2>2
<1> QED
  BY <1>4, <1>5, <1>6

LEMMA DaemonWritesText ==
    ASSUME VaultInv, SyncText
    PROVE  DaemonHolds' /\ Times' /\ Forgotten'
<1>1. /\ daemon \in [phase : Phase, todo : SUBSET Path, read : {None} \cup FileRead,
                     fresh : {<<>>} \cup [Path -> Nat]]
      /\ daemon.read # None /\ daemon' = [daemon EXCEPT !.read = None]
      /\ UNCHANGED <<disk, now, snap, timer>>
  BY DEF VaultInv, VaultTypes, SyncText
<1>2. /\ daemon'.phase = daemon.phase /\ daemon'.fresh = daemon.fresh
      /\ daemon'.todo = daemon.todo /\ daemon'.read = None
  BY <1>1
<1>3. DaemonHolds'
  BY <1>1, <1>2 DEF VaultInv, DaemonHolds, DaemonFree
<1> QED
  BY <1>1, <1>2, <1>3 DEF VaultInv, Times, Forgotten

LEMMA DaemonCrash ==
    ASSUME VaultInv, NEW w \in Writer, Crash(w) \/ PutLinksRaises(w)
    PROVE  DaemonHolds' /\ Times' /\ Forgotten'
<1>1. /\ put \in [Writer -> {None} \cup HalfPut] /\ put' = [put EXCEPT ![w] = None]
      /\ UNCHANGED <<disk, now, snap, timer>> /\ "daemon" \in Writer
  BY DEF VaultInv, VaultTypes, Crash, PutLinksRaises, Writer
<1>2. CASE w = "daemon" /\ daemon' = AtRest
  <2>1. daemon' = AtRest
    BY <1>2
  <2>2. /\ daemon'.phase = "down" /\ daemon'.todo = {} /\ daemon'.read = None
    BY <2>1 DEF AtRest
  <2>3. put'["daemon"] = None
    BY <1>1, <1>2
  <2> QED
    BY <1>1, <2>2, <2>3 DEF VaultInv, DaemonHolds, DaemonFree, Times, Forgotten
<1>3. CASE daemon' = daemon
  <2>1. put["daemon"] = None => put'["daemon"] = None
    BY <1>1
  <2> QED
    BY <1>1, <1>3, <2>1, DaemonAlone DEF VaultInv
<1> QED
  BY <1>2, <1>3 DEF Crash, PutLinksRaises

\* A file that could not be written is given up, and so is a start.
LEMMA DaemonRaises ==
    ASSUME VaultInv, SyncTextRaises
    PROVE  DaemonHolds' /\ Times' /\ Forgotten'
<1>1. /\ daemon \in [phase : Phase, todo : SUBSET Path, read : {None} \cup FileRead,
                     fresh : {<<>>} \cup [Path -> Nat]]
      /\ daemon.read # None /\ UNCHANGED <<disk, now, snap, timer, put>>
      /\ put["daemon"] = None
  BY DEF VaultInv, VaultTypes, DaemonHolds, SyncTextRaises
<1>2. CASE daemon' = AtRest
  <2>1. /\ daemon'.phase = "down" /\ daemon'.todo = {} /\ daemon'.read = None
    BY <1>2 DEF AtRest
  <2> QED
    BY <1>1, <2>1 DEF VaultInv, DaemonHolds, DaemonFree, Times, Forgotten
<1>3. CASE daemon' = [daemon EXCEPT !.read = None]
  <2>1. /\ daemon'.phase = daemon.phase /\ daemon'.fresh = daemon.fresh
        /\ daemon'.todo = daemon.todo /\ daemon'.read = None
    BY <1>1, <1>3
  <2>2. DaemonHolds'
    BY <1>1, <2>1 DEF VaultInv, DaemonHolds, DaemonFree
  <2> QED
    BY <1>1, <2>1, <2>2 DEF VaultInv, Times, Forgotten
<1> QED
  BY <1>2, <1>3 DEF SyncTextRaises

-----------------------------------------------------------------------------
(* The index and the files                                                  *)

\* A file stays indexed while the node of its slug is left alone.
LEMMA IndexedKept ==
    ASSUME NEW p \in Path, disk'[p] = disk[p], Indexed(p),
           \A k \in Id : nodes[k] # None /\ nodes[k].slug = disk[p].content.slug
                           => nodes'[k] = nodes[k]
    PROVE  Indexed(p)'
  BY DEF Indexed, GetNode

\* Steps that leave the daemon alone, and what agents write is noted as missed.
LEMMA UpToDateOthers ==
    ASSUME UpToDate, UNCHANGED <<daemon, snap, disk>>, missed \subseteq missed',
           \A p \in Path : disk[p] # None /\ p \notin missed' =>
              \A k \in Id : nodes[k] # None /\ nodes[k].slug = disk[p].content.slug
                              => nodes'[k] = nodes[k]
    PROVE  UpToDate'
<1> SUFFICES ASSUME daemon.phase # "down", NEW p \in Path \ daemon.todo, ~Excused(p)'
             PROVE  \/ daemon.read # None /\ daemon.read.path = p
                          /\ daemon.read.content = disk[p].content
                    \/ (daemon.read # None => daemon.read.path # p) /\ Indexed(p)'
  BY DEF UpToDate
<1>1. ~Excused(p) /\ disk[p] # None /\ p \notin missed'
  BY DEF Excused
<1>2. Indexed(p) => Indexed(p)'
  BY <1>1, IndexedKept
<1> QED
  BY <1>1, <1>2 DEF UpToDate

LEMMA UpToDateEdit ==
    ASSUME VaultInv, NEW p \in Path, NEW c \in Contents[p], Edit(p, c)
    PROVE  UpToDate'
<1>1. /\ disk' = [disk EXCEPT ![p] = [content |-> c, mtime |-> now]]
      /\ missed' = IF Unseen(p) THEN missed \cup {p} ELSE missed \ {p}
      /\ UNCHANGED <<daemon, snap, nodes>>
      /\ disk \in [Path -> {None} \cup FileState]
      /\ daemon.phase \in Phase
  BY DEF Edit, VaultInv, VaultTypes, index
<1> SUFFICES ASSUME daemon.phase # "down", NEW q \in Path \ daemon.todo, ~Excused(q)'
             PROVE  \/ daemon.read # None /\ daemon.read.path = q
                          /\ daemon.read.content = disk'[q].content
                    \/ (daemon.read # None => daemon.read.path # q) /\ Indexed(q)'
  BY <1>1 DEF UpToDate
<1>2. CASE q = p
  <2>1. disk'[p].mtime = now /\ disk'[q] # None /\ q \notin missed'
    BY <1>1, <1>2 DEF Excused
  <2>2. ~Unseen(p)
    BY <1>1, <1>2, <2>1
  <2>3. CASE daemon.phase = "scan"
    BY <1>2, <2>2, <2>3 DEF Unseen
  <2>4. CASE daemon.phase = "dispatch"
    <3>1. daemon.fresh[p] # now
      BY <1>2, <2>2, <2>4 DEF Unseen
    <3> QED
      BY <1>1, <1>2, <2>1, <2>4, <3>1 DEF Excused
  <2>5. CASE daemon.phase = "idle"
    <3>1. snap[p] # now
      BY <2>2, <2>5 DEF Unseen
    <3> QED
      BY <1>1, <1>2, <2>1, <2>5, <3>1 DEF Excused
  <2> QED
    BY <1>1, <2>3, <2>4, <2>5 DEF Phase
<1>3. CASE q # p
  <2>1. disk'[q] = disk[q] /\ (q \in missed' <=> q \in missed)
    BY <1>1, <1>3
  <2>2. ~Excused(q)
    BY <1>1, <2>1 DEF Excused
  <2>3. Indexed(q) => Indexed(q)'
    BY <1>1, <2>1 DEF Indexed, GetNode
  <2> QED
    BY <2>1, <2>2, <2>3 DEF VaultInv, UpToDate
<1> QED
  BY <1>2, <1>3

LEMMA UpToDateUnlink ==
    ASSUME VaultInv, NEW p \in Path, Unlink(p)
    PROVE  UpToDate'
<1>1. /\ disk' = [disk EXCEPT ![p] = None]
      /\ UNCHANGED <<daemon, snap, nodes, missed>>
      /\ disk \in [Path -> {None} \cup FileState]
  BY DEF Unlink, VaultInv, VaultTypes, index
<1> SUFFICES ASSUME daemon.phase # "down", NEW q \in Path \ daemon.todo, ~Excused(q)'
             PROVE  \/ daemon.read # None /\ daemon.read.path = q
                          /\ daemon.read.content = disk'[q].content
                    \/ (daemon.read # None => daemon.read.path # q) /\ Indexed(q)'
  BY <1>1 DEF UpToDate
<1>2. q # p /\ disk'[q] = disk[q]
  BY <1>1 DEF Excused
<1>3. ~Excused(q)
  BY <1>1, <1>2 DEF Excused
<1>4. Indexed(q) => Indexed(q)'
  BY <1>1, <1>2 DEF Indexed, GetNode
<1> QED
  BY <1>2, <1>3, <1>4 DEF VaultInv, UpToDate

LEMMA UpToDatePhases ==
    ASSUME VaultInv, Start \/ StartWatching \/ Poll \/ EndPoll \/ Stop
    PROVE  UpToDate'
<1>1. /\ daemon \in [phase : Phase, todo : SUBSET Path, read : {None} \cup FileRead,
                     fresh : {<<>>} \cup [Path -> Nat]]
      /\ snap \in [Path -> Nat]
      /\ \A p \in Path : disk[p] # None => disk[p].mtime \in Nat
      /\ Mtimes \in [Path -> Nat]
      /\ \A p \in Path : Mtimes[p] = IF disk[p] = None THEN 0 ELSE disk[p].mtime
      /\ UpToDate /\ DaemonHolds /\ Times
  BY MtimesType DEF VaultInv, VaultTypes, FileState
<1>2. UNCHANGED <<disk, nodes>>
  BY DEF Start, StartWatching, Poll, EndPoll, Stop, index
<1>3. ASSUME NEW p \in Path PROVE Indexed(p)' <=> Indexed(p)
  BY <1>2 DEF Indexed, GetNode
<1>4. CASE Start
  <2>1. daemon'.todo = {p \in Path : disk[p] # None}
    BY <1>4 DEF Start, AtRest
  <2> QED
    BY <1>2, <2>1 DEF UpToDate, Excused
<1>5. CASE StartWatching
  <2>1. /\ daemon.phase = "scan" /\ daemon.todo = {} /\ daemon.read = None
        /\ daemon'.phase = "idle" /\ daemon'.todo = {} /\ daemon'.read = None
        /\ UNCHANGED missed
    BY <1>1, <1>5 DEF StartWatching, DaemonFree
  <2> QED
    BY <1>1, <1>2, <1>3, <2>1 DEF UpToDate, Excused
<1>6. CASE Poll
  <2>1. /\ daemon.phase = "idle" /\ daemon.todo = {} /\ daemon.read = None
        /\ daemon'.phase = "dispatch" /\ daemon'.fresh = Mtimes /\ daemon'.read = None
        /\ daemon'.todo = {p \in Path : Mtimes[p] > snap[p]}
        /\ UNCHANGED <<missed, snap>>
    BY <1>1, <1>6 DEF Poll, DaemonHolds, DaemonFree
  <2>2. ASSUME NEW p \in Path \ daemon'.todo PROVE Excused(p)' \/ Indexed(p)'
    <3>1. CASE disk[p] = None
      BY <1>2, <3>1 DEF Excused
    <3>2. CASE disk[p] # None
      <4>1. disk[p].mtime = snap[p]
        BY <1>1, <2>1, <3>2 DEF Times
      <4> QED
        BY <1>1, <1>2, <1>3, <2>1, <3>2, <4>1 DEF UpToDate, Excused
    <3> QED
      BY <3>1, <3>2
  <2> QED
    BY <2>1, <2>2 DEF UpToDate
<1>7. CASE EndPoll
  <2>1. /\ daemon.phase = "dispatch" /\ daemon.todo = {} /\ daemon.read = None
        /\ daemon'.phase = "idle" /\ daemon'.todo = {} /\ daemon'.read = None
        /\ snap' = daemon.fresh /\ UNCHANGED missed
    BY <1>7 DEF EndPoll, DaemonFree, AtRest
  <2> QED
    BY <1>1, <1>2, <1>3, <2>1 DEF UpToDate, Excused
<1>8. CASE Stop
  BY <1>8 DEF Stop, AtRest, UpToDate
<1> QED
  BY <1>4, <1>5, <1>6, <1>7, <1>8

LEMMA UpToDateReads ==
    ASSUME VaultInv, NEW p \in Path, ScanFile(p) \/ Handle(p)
    PROVE  UpToDate'
<1>1. /\ daemon \in [phase : Phase, todo : SUBSET Path, read : {None} \cup FileRead,
                     fresh : {<<>>} \cup [Path -> Nat]]
      /\ timer.quiet[p] \in Nat
      /\ UpToDate /\ Forgotten
  BY DEF VaultInv, VaultTypes
<1>2. /\ UNCHANGED <<disk, nodes, snap>> /\ p \in daemon.todo
      /\ daemon.phase \in {"scan", "dispatch"} /\ daemon.read = None
  BY DEF ScanFile, Handle, ReadFile, index
<1>A. \E r \in BOOLEAN : ReadFile(p, r)
  <2>1. daemon.phase = "dispatch" => timer.quiet[p] = 0
    BY <1>1, <1>2 DEF Forgotten
  <2> QED
    BY <1>1, <2>1 DEF ScanFile, Handle
<1>3. PICK r \in BOOLEAN : ReadFile(p, r)
  BY <1>A
<1>B. missed \subseteq missed' /\ (~r => p \in missed')
  BY <1>3 DEF ReadFile
<1> DEFINE got == IF disk[p] = None \/ ~r THEN None
                  ELSE [path |-> p, content |-> disk[p].content]
<1>4. daemon' = [daemon EXCEPT !.todo = @ \ {p}, !.read = got]
  BY <1>3 DEF ReadFile
<1>5. /\ got = None => disk[p] = None \/ ~r
      /\ got # None => got.path = p /\ got.content = disk[p].content
  <2>1. disk[p] # None => [path |-> p, content |-> disk[p].content] \in FileRead
    BY DEF VaultInv, VaultTypes, FileState, FileRead
  <2> QED
    BY <2>1, Naming
<1> HIDE DEF got
<1>6. /\ daemon'.phase = daemon.phase /\ daemon'.fresh = daemon.fresh
      /\ daemon'.todo = daemon.todo \ {p} /\ daemon'.read = got
  BY <1>1, <1>4
<1> SUFFICES ASSUME NEW q \in Path \ daemon'.todo, ~Excused(q)'
             PROVE  \/ daemon'.read # None /\ daemon'.read.path = q
                          /\ daemon'.read.content = disk'[q].content
                    \/ (daemon'.read # None => daemon'.read.path # q) /\ Indexed(q)'
  BY DEF UpToDate
<1>7. ~Excused(q) /\ disk[q] # None /\ q \notin missed'
  BY <1>2, <1>6, <1>B DEF Excused
<1>8. CASE q = p
  BY <1>2, <1>5, <1>6, <1>7, <1>8, <1>B
<1>9. CASE q # p
  <2>1. Indexed(q)
    BY <1>1, <1>2, <1>6, <1>7, <1>9 DEF UpToDate
  <2>2. Indexed(q)'
    BY <1>2, <2>1 DEF Indexed, GetNode
  <2> QED
    BY <1>5, <1>6, <1>9, <2>2
<1> QED
  BY <1>8, <1>9

LEMMA UpToDateWrites ==
    ASSUME VaultInv, SyncText
    PROVE  UpToDate'
<1>1. /\ daemon \in [phase : Phase, todo : SUBSET Path, read : {None} \cup FileRead,
                     fresh : {<<>>} \cup [Path -> Nat]]
      /\ daemon.read # None /\ daemon' = [daemon EXCEPT !.read = None]
      /\ UNCHANGED <<disk, snap, missed>> /\ UpToDate /\ None \notin FileRead
  BY Naming DEF VaultInv, VaultTypes, SyncText
<1>2. /\ daemon'.phase = daemon.phase /\ daemon'.fresh = daemon.fresh
      /\ daemon'.todo = daemon.todo /\ daemon'.read = None
  BY <1>1
<1> SUFFICES ASSUME daemon.phase # "down", NEW q \in Path \ daemon.todo, ~Excused(q)'
             PROVE  Indexed(q)'
  BY <1>2 DEF UpToDate
<1>3. ~Excused(q) /\ disk[q] # None /\ disk[q].content \in Contents[q]
  BY <1>1, <1>2 DEF Excused, VaultInv, VaultTypes
<1>4. CASE daemon.read.path = q
  <2>1. daemon.read.content = disk[q].content
    BY <1>1, <1>3, <1>4 DEF UpToDate
  <2>2. \E k \in Id : /\ nodes'[k] # None
                      /\ nodes'[k].slug = disk[q].content.slug
                      /\ nodes'[k].links = disk[q].content.links
    BY <2>1, DaemonWrites
  <2> QED
    BY <1>1, <2>2 DEF Indexed, GetNode
<1>5. CASE daemon.read.path # q
  <2>1. Indexed(q)
    BY <1>1, <1>3, <1>5 DEF UpToDate
  <2>2. \A k \in Id : nodes[k] # None /\ nodes[k].slug = disk[q].content.slug
                         => nodes'[k] = nodes[k]
    BY <1>3, <1>5, DaemonWrites
  <2> QED
    BY <1>1, <2>1, <2>2, IndexedKept
<1> QED
  BY <1>4, <1>5

LEMMA UpToDateRaises ==
    ASSUME VaultInv, SyncTextRaises
    PROVE  UpToDate'
<1>1. /\ daemon \in [phase : Phase, todo : SUBSET Path, read : {None} \cup FileRead,
                     fresh : {<<>>} \cup [Path -> Nat]]
      /\ daemon.read # None /\ UNCHANGED <<disk, nodes, snap>> /\ UpToDate
      /\ missed \subseteq missed' /\ daemon.read.path \in missed'
  BY DEF VaultInv, VaultTypes, SyncTextRaises, index
<1>2. CASE daemon' = AtRest
  BY <1>2 DEF AtRest, UpToDate
<1>3. CASE daemon' = [daemon EXCEPT !.read = None]
  <2>1. /\ daemon'.phase = daemon.phase /\ daemon'.fresh = daemon.fresh
        /\ daemon'.todo = daemon.todo /\ daemon'.read = None
    BY <1>1, <1>3
  <2> SUFFICES ASSUME daemon.phase # "down", NEW q \in Path \ daemon.todo, ~Excused(q)'
               PROVE  Indexed(q)'
    BY <2>1 DEF UpToDate
  <2>2. ~Excused(q) /\ q # daemon.read.path
    BY <1>1, <2>1 DEF Excused
  <2>3. Indexed(q)
    BY <1>1, <2>2 DEF UpToDate
  <2> QED
    BY <1>1, <2>3 DEF Indexed, GetNode
<1> QED
  BY <1>2, <1>3 DEF SyncTextRaises

LEMMA UpToDateCrash ==
    ASSUME VaultInv, NEW w \in Writer, Crash(w) \/ PutLinksRaises(w)
    PROVE  UpToDate'
<1>1. UNCHANGED <<nodes, snap, disk, missed>>
  BY DEF Crash, PutLinksRaises, index
<1>2. CASE daemon' = daemon
  BY <1>1, <1>2, UpToDateOthers DEF VaultInv
<1>3. CASE daemon' # daemon
  BY <1>3 DEF Crash, PutLinksRaises, AtRest, UpToDate
<1> QED
  BY <1>2, <1>3

-----------------------------------------------------------------------------
(* Every step                                                               *)

LEMMA VaultStarts == ASSUME VaultInit PROVE VaultInv
<1> USE DEF VaultInit
<1>1. VaultTypes
  BY Naming DEF VaultTypes, VaultTypeOK, AtRest, Phase, Id, Writer
<1>2. RegistrySound /\ PutKnown /\ LinksOfBody /\ NodesOwned
  BY DEF RegistrySound, PutKnown, LinksOfBody, NodesOwned, Id, Writer
<1>3. DaemonHolds /\ Times /\ Forgotten /\ UpToDate
  BY Naming DEF DaemonHolds, DaemonFree, Times, Forgotten, UpToDate, AtRest, Writer
<1> QED
  BY <1>1, <1>2, <1>3 DEF VaultInv

LEMMA VaultAgents ==
    ASSUME VaultInv, NEW s \in Slug, NEW dsts \in SUBSET Slug,
           AgentPut(s, dsts, GetNode(s))
    PROVE  VaultInv'
<1>1. VaultTypes'
  BY TypesIndex
<1>2. RegistrySound' /\ PutKnown' /\ LinksOfBody' /\ NodesOwned'
  BY AgentWrites
<1>3. /\ UNCHANGED <<disk, now, daemon, snap, timer>>
      /\ missed' = missed \cup {p \in Path : disk[p] # None /\ disk[p].content.slug = s}
  BY DEF AgentPut
<1>4. DaemonHolds' /\ Times' /\ Forgotten'
  BY <1>3, AgentWrites, DaemonAlone DEF VaultInv
<1>5. UpToDate'
  <2>1. ASSUME NEW p \in Path, disk[p] # None, p \notin missed',
               NEW k \in Id, nodes[k] # None, nodes[k].slug = disk[p].content.slug
        PROVE  nodes'[k] = nodes[k]
    BY <1>3, <2>1, AgentWrites
  <2> QED
    BY <1>3, <2>1, UpToDateOthers DEF VaultInv
<1> QED
  BY <1>1, <1>2, <1>4, <1>5 DEF VaultInv

LEMMA VaultDeletes ==
    ASSUME VaultInv, NEW s \in Slug, DeleteNode(s)
    PROVE  VaultInv'
<1>1. PICK i \in GetNode(s) :
          /\ nodes' = [nodes EXCEPT ![i] = None]
          /\ missed' = missed \cup
                {p \in Path : disk[p] # None /\ disk[p].content.slug = s}
          /\ UNCHANGED <<disk, now, put, daemon, snap, timer>>
  BY DEF DeleteNode
<1>2. VaultTypes' /\ RegistrySound' /\ PutKnown' /\ LinksOfBody' /\ NodesOwned'
  BY TypesIndex, IndexDelete
<1>3. DaemonHolds' /\ Times' /\ Forgotten'
  BY <1>1, DaemonAlone DEF VaultInv
<1>4. nodes \in [Id -> {None} \cup Row]
  BY DEF VaultInv, VaultTypes, VaultTypeOK, Row
<1>5. UpToDate'
  <2>1. ASSUME NEW p \in Path, disk[p] # None, p \notin missed',
               NEW k \in Id, nodes[k] # None, nodes[k].slug = disk[p].content.slug
        PROVE  nodes'[k] = nodes[k]
    BY <1>1, <1>4, <2>1 DEF GetNode
  <2> QED
    BY <1>1, <2>1, UpToDateOthers DEF VaultInv
<1> QED
  BY <1>2, <1>3, <1>5 DEF VaultInv

\* The steps that write no node and leave the files and the daemon alone.
LEMMA VaultLinks ==
    ASSUME VaultInv,
           \/ \E w \in Writer : PutLinks(w)
           \/ \E src, dst \in Slug : PutLink(src, dst)
    PROVE  VaultInv'
<1>1. VaultTypes' /\ RegistrySound' /\ PutKnown' /\ LinksOfBody' /\ NodesOwned'
  BY TypesIndex, IndexPutLinks, IndexPutLink
<1>2. /\ UNCHANGED <<disk, now, daemon, snap, timer, missed, nodes>>
      /\ put["daemon"] = None => put'["daemon"] = None
  BY DEF PutLinks, PutLink, VaultInv, VaultTypes, Writer
<1>3. DaemonHolds' /\ Times' /\ Forgotten' /\ UpToDate'
  BY <1>2, DaemonAlone, UpToDateOthers DEF VaultInv
<1> QED
  BY <1>1, <1>3 DEF VaultInv

LEMMA VaultFiles ==
    ASSUME VaultInv,
           \/ \E p \in Path : \E c \in Contents[p] : Edit(p, c)
           \/ \E p \in Path : Unlink(p)
           \/ Tick
    PROVE  VaultInv'
<1>1. VaultTypes'
  BY TypesFiles DEF VaultInv
<1>2. RegistrySound' /\ PutKnown' /\ LinksOfBody' /\ NodesOwned'
  BY IndexKept DEF VaultInv, Edit, Unlink, Tick, index
<1>3. CASE \E p \in Path : \E c \in Contents[p] : Edit(p, c)
  BY <1>1, <1>2, <1>3, DaemonEdit, UpToDateEdit DEF VaultInv
<1>4. CASE \E p \in Path : Unlink(p)
  <2>1. PICK p \in Path : Unlink(p)
    BY <1>4
  <2>2. /\ disk' = [disk EXCEPT ![p] = None] /\ UNCHANGED <<put, daemon, now, snap, timer>>
        /\ disk \in [Path -> {None} \cup FileState]
    BY <2>1 DEF Unlink, VaultInv, VaultTypes
  <2>3. DaemonHolds' /\ Times' /\ Forgotten'
    BY <2>2, DaemonAlone DEF VaultInv
  <2> QED
    BY <1>1, <1>2, <2>1, <2>3, UpToDateUnlink DEF VaultInv
<1>5. CASE Tick
  <2>1. UpToDate'
    BY <1>5, UpToDateOthers DEF VaultInv, Tick, index
  <2> QED
    BY <1>1, <1>2, <1>5, <2>1, DaemonTick DEF VaultInv
<1> QED
  BY <1>3, <1>4, <1>5

LEMMA VaultDaemon ==
    ASSUME VaultInv,
           \/ Start \/ StartWatching \/ Poll \/ EndPoll \/ Stop \/ SyncTextRaises
           \/ \E p \in Path : ScanFile(p) \/ Handle(p)
    PROVE  VaultInv'
<1>1. VaultTypes'
  BY TypesDaemon DEF VaultInv
<1>2. UNCHANGED <<index, put, unused, linked, torn>>
  BY DEF Start, StartWatching, Poll, EndPoll, Stop, ScanFile, Handle, SyncTextRaises
<1>3. RegistrySound' /\ PutKnown' /\ LinksOfBody' /\ NodesOwned'
  BY <1>2, IndexKept DEF VaultInv, index
<1>4. DaemonHolds' /\ Times' /\ Forgotten'
  BY DaemonPhases, DaemonReads, DaemonRaises
<1>5. UpToDate'
  BY UpToDatePhases, UpToDateReads, UpToDateRaises
<1> QED
  BY <1>1, <1>3, <1>4, <1>5 DEF VaultInv

LEMMA VaultStep == ASSUME VaultInv, VaultNext PROVE VaultInv'
<1>1. CASE \/ Start \/ StartWatching \/ Poll \/ EndPoll \/ Stop \/ SyncTextRaises
           \/ \E p \in Path : ScanFile(p) \/ Handle(p)
  BY <1>1, VaultDaemon
<1>2. CASE SyncText
  BY <1>2, TypesIndex, DaemonWrites, DaemonWritesText, UpToDateWrites DEF VaultInv
<1>3. CASE \/ \E p \in Path : \E c \in Contents[p] : Edit(p, c)
           \/ \E p \in Path : Unlink(p)
           \/ Tick
  BY <1>3, VaultFiles
<1>4. CASE \/ \E w \in Writer : PutLinks(w)
           \/ \E src, dst \in Slug : PutLink(src, dst)
  BY <1>4, VaultLinks
<1>5. CASE \E w \in Writer : Crash(w) \/ PutLinksRaises(w)
  BY <1>5, TypesIndex, IndexCrash, DaemonCrash, UpToDateCrash DEF VaultInv
<1>6. CASE \E s \in Slug : DeleteNode(s)
  BY <1>6, VaultDeletes
<1>7. CASE \E s \in Slug : ResolveOrStub(s)
  <2>1. PICK s \in Slug : ResolveSlug(s) = None /\ AgentPut(s, {}, {})
    BY <1>7 DEF ResolveOrStub
  <2>2. GetNode(s) = {}
    BY <2>1, Naming DEF VaultInv, RegistrySound, GetNode, ResolveSlug
  <2> QED
    BY <2>1, <2>2, VaultAgents
<1>8. CASE \E c \in FileContent : WikiWrite(c.slug, c.links)
  <2>1. PICK c \in FileContent : AgentPut(c.slug, c.links, GetNode(c.slug))
    BY <1>8 DEF WikiWrite
  <2>2. c.slug \in Slug /\ c.links \in SUBSET Slug
    BY <2>1, Naming DEF FileContent
  <2> QED
    BY <2>1, <2>2, VaultAgents
<1> QED
  BY <1>1, <1>2, <1>3, <1>4, <1>5, <1>6, <1>7, <1>8 DEF VaultNext

LEMMA VaultInvSafe == ASSUME VaultInv PROVE VaultSafe
<1>1. VaultTypeOK /\ RegistrySound /\ LinksOfBody
  BY DEF VaultInv, VaultTypes
<1>2. GraphBothWays
  <2> SUFFICES ASSUME NEW i \in Id, NEW j \in Id, nodes[i] # None, nodes[j] # None,
                      nodes[j].slug \in links[i] \/ nodes[i].slug \in links[j]
               PROVE  i \in GraphHop(j)
    BY DEF GraphBothWays, GraphHop
  <2> QED
    BY DEF VaultInv, RegistrySound, GraphHop
<1>3. StaleOnlyIfMissed
  <2> SUFFICES ASSUME daemon.phase = "idle", NEW p \in Path, disk[p] # None,
                      disk[p].mtime = snap[p], p \notin missed
               PROVE  Indexed(p)
    BY DEF StaleOnlyIfMissed
  <2>1. daemon.todo = {} /\ daemon.read = None
    BY DEF VaultInv, DaemonHolds, DaemonFree
  <2> QED
    BY <2>1 DEF VaultInv, UpToDate, Excused
<1> QED
  BY <1>1, <1>2, <1>3 DEF VaultSafe

\* Whatever edits, polls, crashes and calls of agents interleave and whichever
\* of them raise, and for any files and ids: the registry and the nodes agree, a
\* node's links are the ones of its body and put_link's unless its put_node
\* broke off, the graph goes both ways, and between two polls an unchanged file
\* is in the index unless the daemon could not see its edit or came to it in
\* vain (sqlite_backend's put_node, wiki/sync.py's poll).
THEOREM VaultKept == VaultSpec => []VaultSafe
<1>1. VaultInit => VaultInv
  BY VaultStarts
<1>2. VaultInv /\ [VaultNext]_vaultVars => VaultInv'
  <2>1. ASSUME VaultInv, UNCHANGED vaultVars PROVE VaultInv'
    <3> USE <2>1 DEF vaultVars, VaultInv
    <3>1. VaultTypes' /\ RegistrySound' /\ PutKnown' /\ LinksOfBody' /\ NodesOwned'
      BY IndexKept DEF VaultTypes, VaultTypeOK
    <3>2. DaemonHolds' /\ Times' /\ Forgotten' /\ UpToDate'
      BY DaemonAlone, UpToDateOthers
    <3> QED
      BY <3>1, <3>2
  <2> QED
    BY <2>1, VaultStep
<1>3. VaultInv => VaultSafe
  BY VaultInvSafe
<1> QED
  BY <1>1, <1>2, <1>3, PTL DEF VaultSpec

=============================================================================
