----------------------- MODULE SessionPlaybackProofs -----------------------
(***************************************************************************)
(* The safety of SessionRecorder and SessionPlayback for messages, buffers *)
(* and limits of any size: what is stored is the output from its beginning *)
(* without a gap, what is played is what was stored, and the control       *)
(* messages come in time.                                                  *)
(*                                                                         *)
(* The steps of bufio are brought to one form first, a few relations       *)
(* between what a buffer holds before and after (Calls), or none           *)
(* (Elsewhere).  Every step of the recorder has it for every buffer        *)
(* (Shape), and the invariants of the recording are proved from it.        *)
(*                                                                         *)
(* FlattenSeq is defined by recursion.  What it does with sequences of any *)
(* length is proved from the least element of a set of numbers, without    *)
(* the induction theorems, whose parameter is an operator.                 *)
(***************************************************************************)
EXTENDS SessionPlayback, SequenceTheorems, WellFoundedInduction, TLAPS

Item == Byte \union Control

\* Where a goroutine is outside the calls of bufio, and where it may be at all.
Own(p) ==
  IF p = "reader"
    THEN {"read", "resize", "flushRecording", "flushControl", "leaving", "done"}
    ELSE {"select", "delay", "count", "flushControl", "flushRecording", "done"}

Labels == Own("reader") \union Own("writer") \union Inside

Job == [buffer : Buffers, data : Seq(Item), todo : Seq(Item), after : Labels]

\* Where a goroutine goes on when it has written to a buffer or flushed it.
FlushTo(p, b) ==
  CASE p = "reader" /\ b = "recording" -> {"flushControl"}
    [] p = "reader" /\ b = "control" -> {"read", "leaving"}
    [] p = "writer" /\ b = "recording" -> {"delay", "select", "done"}
    [] p = "writer" /\ b = "control" -> {"count", "flushRecording"}

\* A call has in hand items of its buffer.
JobFits(p) ==
  LET b == job[p].buffer IN
    /\ job[p].data \in Seq(Items(b)) /\ Len(job[p].data) <= BufferSize[b]
    /\ job[p].todo \in Seq(Items(b))
    /\ job[p].after \in FlushTo(p, b)

Contents == UNION {[1 .. BufferSize[b] -> Items(b)] : b \in Buffers}

BufferFits(b) ==
  /\ mem[b] \in [1 .. BufferSize[b] -> Items(b)]
  /\ fill[b] \in 0 .. BufferSize[b]
  /\ stored[b] \in Seq(Seq(Items(b)))

Counts ==
  /\ recordedBytes \in 0 .. MaxOutput
  /\ bytesRecorded \in 0 .. recordedBytes
  /\ body \in {0} \union Bodies
  /\ recordedBytes + body <= MaxOutput
  /\ resizeAt \in 0 .. recordedBytes
  /\ messages \in 0 .. MaxMessages
  /\ resizes \in 0 .. MaxResizes

Flags ==
  /\ err \in [Buffers -> BOOLEAN]
  /\ overlapped \in [Buffers -> BOOLEAN]
  /\ late \in BOOLEAN
  /\ faulted \in BOOLEAN

Places ==
  /\ pc \in [Proc -> Labels]
  /\ \A p \in Proc : pc[p] \in Own(p) \union Inside

Jobs ==
  /\ job \in [Proc -> Job]
  /\ \A p \in Proc : pc[p] \in Inside => JobFits(p)

Stores ==
  /\ mem \in [Buffers -> Contents]
  /\ fill \in [Buffers -> Nat]
  /\ stored \in [Buffers -> Seq(Seq(Item))]
  /\ BufferFits("recording") /\ BufferFits("control")

RecorderTypes == Counts /\ Flags /\ Places /\ Jobs /\ Stores

-----------------------------------------------------------------------------
(* Sequences of sequences                                                  *)

\* A set of numbers has a least one.
LEMMA NatMin ==
  ASSUME NEW T \in SUBSET Nat, T # {}
  PROVE  \E x \in T : \A y \in T : x <= y
  <1>1. PICK x \in T : \A y \in T : ~(<<y, x>> \in OpToRel(<, Nat))
    BY WFMin, NatLessThanWellFounded
  <1>2. ASSUME NEW y \in T, y < x PROVE FALSE
    <2>1. <<y, x>> \in Nat \X Nat
      OBVIOUS
    <2>2. <<y, x>> \in OpToRel(<, Nat)
      BY <1>2, <2>1 DEF OpToRel
    <2>3. QED
      BY <1>1, <2>2
  <1>3. QED
    BY <1>2

\* Induction, for a property given as a set of numbers.
LEMMA NatInductionSet ==
  ASSUME NEW P, 0 \in P, \A n \in Nat : n \in P => n + 1 \in P
  PROVE  \A n \in Nat : n \in P
  <1> DEFINE Wrong == {n \in Nat : n \notin P}
  <1>1. ASSUME Wrong # {} PROVE FALSE
    <2>1. PICK n \in Wrong : \A k \in Wrong : n <= k
      BY <1>1, NatMin
    <2>2. n - 1 \in Nat /\ n - 1 \notin Wrong
      BY <2>1
    <2>3. (n - 1) + 1 \in P
      BY <2>2
    <2>4. QED
      BY <2>1, <2>3
  <1>2. QED
    BY <1>1

Step(f, seqs, i) == IF i = 1 THEN seqs[i] ELSE f[i - 1] \o seqs[i]

Flattens(f, seqs) == f = [i \in 1 .. Len(seqs) |-> Step(f, seqs, i)]

\* FlattenSeq is the last value of a function that flattens the sequence.
LEMMA FlattenIsChosen ==
  ASSUME NEW seqs, Len(seqs) # 0
  PROVE  FlattenSeq(seqs) = (CHOOSE f : Flattens(f, seqs))[Len(seqs)]
  BY DEF FlattenSeq, Flattens, Step

\* There is such a function for every sequence of sequences.
LEMMA FlattenExists ==
  ASSUME NEW S, NEW seqs \in Seq(Seq(S))
  PROVE  \E f \in [1 .. Len(seqs) -> Seq(S)] : Flattens(f, seqs)
  <1> DEFINE Upto(n) == \E f \in [1 .. n -> Seq(S)] :
                          \A i \in 1 .. n : f[i] = Step(f, seqs, i)
             P == {n \in Nat : n <= Len(seqs) => Upto(n)}
  <1>1. Len(seqs) \in Nat /\ \A i \in 1 .. Len(seqs) : seqs[i] \in Seq(S)
    OBVIOUS
  <1>2. 0 \in P
    <2>1. [i \in 1 .. 0 |-> <<>>] \in [1 .. 0 -> Seq(S)]
      OBVIOUS
    <2>2. \A i \in 1 .. 0 : FALSE
      OBVIOUS
    <2>3. Upto(0)
      BY <2>1, <2>2
    <2>4. QED
      BY <2>3
  <1>3. ASSUME NEW n \in Nat, n \in P, n + 1 <= Len(seqs) PROVE Upto(n + 1)
    <2>1. PICK f \in [1 .. n -> Seq(S)] : \A i \in 1 .. n : f[i] = Step(f, seqs, i)
      BY <1>1, <1>3
    <2> DEFINE last == IF n = 0 THEN seqs[1] ELSE f[n] \o seqs[n + 1]
               g == [i \in 1 .. n + 1 |-> IF i = n + 1 THEN last ELSE f[i]]
    <2>2. seqs[n + 1] \in Seq(S)
      BY <1>1, <1>3
    <2>3. last \in Seq(S)
      <3>1. CASE n = 0
        BY <2>2, <3>1
      <3>2. CASE n # 0
        <4>1. f[n] \in Seq(S)
          BY <3>2
        <4>2. f[n] \o seqs[n + 1] \in Seq(S)
          BY <2>2, <4>1
        <4>3. QED
          BY <3>2, <4>2
      <3>3. QED
        BY <3>1, <3>2
    <2> HIDE DEF last
    <2>4. g \in [1 .. n + 1 -> Seq(S)]
      BY <2>3
    <2>5. /\ g[n + 1] = last
          /\ \A i \in 1 .. n : g[i] = f[i]
      OBVIOUS
    <2> HIDE DEF g
    <2>6. ASSUME NEW i \in 1 .. n + 1 PROVE g[i] = Step(g, seqs, i)
      <3>1. CASE i = n + 1 /\ n = 0
        BY <2>5, <3>1 DEF Step, last
      <3>2. CASE i = n + 1 /\ n # 0
        <4>1. (n + 1) - 1 = n /\ n + 1 # 1 /\ g[n] = f[n]
          BY <2>5, <3>2
        <4>2. QED
          BY <2>5, <3>2, <4>1 DEF Step, last
      <3>3. CASE i \in 1 .. n
        <4>1. i = 1 \/ i - 1 \in 1 .. n
          BY <3>3
        <4>2. QED
          BY <2>1, <2>5, <3>3, <4>1 DEF Step
      <3>4. QED
        BY <3>1, <3>2, <3>3
    <2>7. QED
      BY <2>4, <2>6
  <1>4. Upto(Len(seqs))
    <2> HIDE DEF Upto
    <2>1. \A n \in Nat : n \in P => n + 1 \in P
      BY <1>1, <1>3
    <2>2. \A n \in Nat : n \in P
      <3> HIDE DEF P
      <3>1. QED
        BY <1>2, <2>1, NatInductionSet
    <2>3. QED
      BY <1>1, <2>2
  <1>5. PICK f \in [1 .. Len(seqs) -> Seq(S)] :
          \A i \in 1 .. Len(seqs) : f[i] = Step(f, seqs, i)
    BY <1>4
  <1>6. f = [i \in 1 .. Len(seqs) |-> Step(f, seqs, i)]
    BY <1>5
  <1>7. QED
    BY <1>6 DEF Flattens

\* FlattenSeq, one sequence after the other.
LEMMA FlattenFcn ==
  ASSUME NEW S, NEW seqs \in Seq(Seq(S))
  PROVE  \E f \in [1 .. Len(seqs) -> Seq(S)] :
           /\ \A i \in 1 .. Len(seqs) : f[i] = Step(f, seqs, i)
           /\ FlattenSeq(seqs) = IF seqs = <<>> THEN <<>> ELSE f[Len(seqs)]
  <1>1. CASE seqs = <<>>
    <2>1. FlattenSeq(seqs) = <<>>
      BY <1>1 DEF FlattenSeq
    <2>2. PICK f \in [1 .. Len(seqs) -> Seq(S)] : Flattens(f, seqs)
      BY FlattenExists
    <2>3. \A i \in 1 .. Len(seqs) : FALSE
      BY <1>1
    <2>4. QED
      BY <1>1, <2>1, <2>2, <2>3
  <1>2. CASE seqs # <<>>
    <2> DEFINE f == CHOOSE f : Flattens(f, seqs)
    <2>1. Len(seqs) # 0 /\ Len(seqs) \in Nat
      BY <1>2
    <2>2. FlattenSeq(seqs) = f[Len(seqs)]
      BY <2>1, FlattenIsChosen
    <2>3. Flattens(f, seqs)
      BY FlattenExists
    <2> HIDE DEF f
    <2>4. PICK g \in [1 .. Len(seqs) -> Seq(S)] : Flattens(g, seqs)
      BY FlattenExists
    <2>5. \A i \in 1 .. Len(seqs) : f[i] = Step(f, seqs, i) /\ g[i] = Step(g, seqs, i)
      BY <2>3, <2>4 DEF Flattens
    <2> DEFINE P == {n \in Nat : n \in 1 .. Len(seqs) => f[n] = g[n]}
    <2>6. ASSUME NEW n \in Nat, n \in P, n + 1 \in 1 .. Len(seqs)
          PROVE  f[n + 1] = g[n + 1]
      <3>1. f[n + 1] = Step(f, seqs, n + 1) /\ g[n + 1] = Step(g, seqs, n + 1)
        BY <2>5, <2>6
      <3>2. CASE n = 0
        BY <3>1, <3>2 DEF Step
      <3>3. CASE n # 0
        <4>1. f[n] = g[n] /\ (n + 1) - 1 = n /\ n + 1 # 1
          BY <2>1, <2>6, <3>3
        <4>2. QED
          BY <3>1, <4>1 DEF Step
      <3>4. QED
        BY <3>2, <3>3
    <2>7. 0 \in P /\ \A n \in Nat : n \in P => n + 1 \in P
      <3>1. 0 \notin 1 .. Len(seqs)
        BY <2>1
      <3>2. ASSUME NEW n \in Nat, n \in P PROVE n + 1 \in P
        <4>1. n + 1 \in 1 .. Len(seqs) => f[n + 1] = g[n + 1]
          BY <2>6, <3>2
        <4>2. QED
          BY <4>1
      <3>3. QED
        BY <3>1, <3>2
    <2>8. \A n \in Nat : n \in P
      <3> HIDE DEF P
      <3>1. QED
        BY <2>7, NatInductionSet
    <2>9. f[Len(seqs)] = g[Len(seqs)]
      BY <2>1, <2>8, SMTT(20)
    <2>10. QED
      BY <1>2, <2>2, <2>5, <2>9
  <1>3. QED
    BY <1>1, <1>2

\* The concatenation has the elements of what it concatenates ...
LEMMA FlattenType ==
  ASSUME NEW S, NEW seqs \in Seq(Seq(S))
  PROVE  FlattenSeq(seqs) \in Seq(S)
  <1>1. PICK f \in [1 .. Len(seqs) -> Seq(S)] :
          FlattenSeq(seqs) = IF seqs = <<>> THEN <<>> ELSE f[Len(seqs)]
    BY FlattenFcn
  <1>2. seqs # <<>> => Len(seqs) \in 1 .. Len(seqs)
    OBVIOUS
  <1>3. <<>> \in Seq(S)
    OBVIOUS
  <1>4. QED
    BY <1>1, <1>2, <1>3

\* ... and ends with the last one.
LEMMA FlattenAppend ==
  ASSUME NEW S, NEW seqs \in Seq(Seq(S)), NEW last \in Seq(S)
  PROVE  FlattenSeq(Append(seqs, last)) = FlattenSeq(seqs) \o last
  <1> DEFINE longer == Append(seqs, last)
  <1>0. PICK n \in Nat : n = Len(seqs)
    OBVIOUS
  <1>1. /\ longer \in Seq(Seq(S)) /\ longer # <<>> /\ n \in Nat
        /\ Len(longer) = n + 1 /\ longer[n + 1] = last
        /\ \A i \in 1 .. n : longer[i] = seqs[i]
    BY <1>0
  <1> HIDE DEF longer
  <1>2. PICK g \in [1 .. Len(longer) -> Seq(S)] :
          /\ \A i \in 1 .. Len(longer) : g[i] = Step(g, longer, i)
          /\ FlattenSeq(longer) = IF longer = <<>> THEN <<>> ELSE g[Len(longer)]
    BY <1>1, FlattenFcn
  <1>3. PICK f \in [1 .. Len(seqs) -> Seq(S)] :
          /\ \A i \in 1 .. Len(seqs) : f[i] = Step(f, seqs, i)
          /\ FlattenSeq(seqs) = IF seqs = <<>> THEN <<>> ELSE f[Len(seqs)]
    BY FlattenFcn
  <1>4. CASE n = 0
    <2>1. seqs = <<>> /\ FlattenSeq(seqs) = <<>>
      <3>1. seqs = <<>>
        BY <1>0, <1>4, EmptySeq
      <3>2. QED
        BY <1>3, <3>1
    <2>2. FlattenSeq(longer) = last
      BY <1>1, <1>2, <1>4 DEF Step
    <2>3. <<>> \o last = last
      OBVIOUS
    <2>4. QED
      BY <2>1, <2>2, <2>3 DEF longer
  <1>5. CASE n # 0
    <2> DEFINE P == {k \in Nat : k \in 1 .. n => f[k] = g[k]}
    <2>1. ASSUME NEW k \in Nat, k \in P, k + 1 \in 1 .. n
          PROVE  f[k + 1] = g[k + 1]
      <3>1. k + 1 \in 1 .. Len(longer) /\ longer[k + 1] = seqs[k + 1]
        BY <1>1, <2>1
      <3>2. f[k + 1] = Step(f, seqs, k + 1) /\ g[k + 1] = Step(g, longer, k + 1)
        BY <1>0, <1>2, <1>3, <2>1, <3>1
      <3>3. CASE k = 0
        BY <3>1, <3>2, <3>3 DEF Step
      <3>4. CASE k # 0
        <4>1. f[k] = g[k] /\ (k + 1) - 1 = k /\ k + 1 # 1
          BY <1>1, <2>1, <3>4
        <4>2. QED
          BY <3>1, <3>2, <4>1 DEF Step
      <3>5. QED
        BY <3>3, <3>4
    <2>2. 0 \in P /\ \A k \in Nat : k \in P => k + 1 \in P
      <3>1. 0 \in P
        OBVIOUS
      <3>2. ASSUME NEW k \in Nat, k \in P PROVE k + 1 \in P
        <4>1. k + 1 \in 1 .. n => f[k + 1] = g[k + 1]
          BY <2>1, <3>2
        <4>2. QED
          BY <4>1
      <3>3. QED
        BY <3>1, <3>2
    <2>3. \A k \in Nat : k \in P
      <3> HIDE DEF P
      <3>1. QED
        BY <2>2, NatInductionSet
    <2>4. f[n] = g[n]
      <3>1. n \in 1 .. n
        BY <1>5
      <3>2. QED
        BY <2>3, <3>1
    <2>5. FlattenSeq(longer) = g[n] \o last
      <3>1. FlattenSeq(longer) = g[n + 1] /\ g[n + 1] = Step(g, longer, n + 1)
        BY <1>1, <1>2
      <3>2. (n + 1) - 1 = n /\ n + 1 # 1
        BY <1>5
      <3>3. QED
        BY <1>1, <3>1, <3>2 DEF Step
    <2>6. FlattenSeq(seqs) = f[n]
      BY <1>0, <1>3, <1>5
    <2>7. QED
      BY <2>4, <2>5, <2>6 DEF longer
  <1>6. QED
    BY <1>4, <1>5

\* A sequence is its first n elements and the rest.
LEMMA FirstThenRest ==
  ASSUME NEW S, NEW s \in Seq(S), NEW n \in Nat
  PROVE  First(s, n) \o Rest(s, n) = s
  <1>1. PICK k \in 0 .. Len(s) : k = Least(n, Len(s)) /\ k <= n
                                 /\ (k = n \/ k = Len(s))
    BY DEF Least
  <1>2. Len(s) \in Nat /\ Len(s) \in k .. Len(s)
        /\ k \in 1 - 1 .. Len(s) /\ 1 \in 1 .. Len(s) + 1
    BY <1>1
  <1>3. First(s, n) = SubSeq(s, 1, k)
    BY <1>1 DEF First
  <1>5. Rest(s, n) = SubSeq(s, k + 1, Len(s))
    <2>1. CASE n <= Len(s)
      BY <1>1, <1>2, <2>1 DEF Rest, Least
    <2>2. CASE ~(n <= Len(s))
      <3>1. k = Len(s) /\ Len(s) < n + 1 /\ Len(s) < k + 1
        BY <1>1, <1>2, <2>2
      <3>2. QED
        BY <1>2, <3>1, SubSeqEmpty DEF Rest
    <2>3. QED
      BY <2>1, <2>2
  <1>4. SubSeq(s, 1, k) \o SubSeq(s, k + 1, Len(s)) = SubSeq(s, 1, Len(s))
    BY <1>2, ConcatAdjacentSubSeq
  <1>6. SubSeq(s, 1, Len(s)) = s
    BY SubSeqFull
  <1>7. QED
    BY <1>3, <1>4, <1>5, <1>6

\* The first n elements and the rest are no longer than the sequence.
LEMMA FirstAndRest ==
  ASSUME NEW S, NEW s \in Seq(S), NEW n \in Nat
  PROVE  /\ First(s, n) \in Seq(S) /\ Rest(s, n) \in Seq(S)
         /\ Len(First(s, n)) \in Nat /\ Len(Rest(s, n)) \in Nat
         /\ Len(First(s, n)) <= n /\ Len(First(s, n)) <= Len(s)
         /\ Len(Rest(s, n)) <= Len(s)
         /\ Len(s) >= n => Len(First(s, n)) = n
         /\ Len(s) < n => First(s, n) = s /\ Rest(s, n) = <<>>
         /\ n > 0 /\ First(s, n) = <<>> => s = <<>>
  <1>1. PICK k \in 0 .. Len(s) : k = Least(n, Len(s)) /\ k <= n
                                 /\ (k = n \/ k = Len(s))
    BY DEF Least
  <1>2. /\ Len(s) \in Nat /\ \A i \in 1 .. Len(s) : s[i] \in S
    OBVIOUS
  <1>3. First(s, n) = SubSeq(s, 1, k)
    BY <1>1 DEF First
  <1>4. /\ SubSeq(s, 1, k) \in Seq(S) /\ Len(SubSeq(s, 1, k)) = k
    BY <1>1, <1>2, SubSeqProperties
  <1>5. Rest(s, n) = SubSeq(s, k + 1, Len(s))
    <2>1. CASE n <= Len(s)
      BY <1>1, <1>2, <2>1 DEF Rest, Least
    <2>2. CASE ~(n <= Len(s))
      <3>1. k = Len(s) /\ Len(s) < n + 1 /\ Len(s) < k + 1
        BY <1>1, <1>2, <2>2
      <3>2. QED
        BY <1>2, <3>1, SubSeqEmpty DEF Rest
    <2>3. QED
      BY <2>1, <2>2
  <1>6. SubSeq(s, k + 1, Len(s)) \in Seq(S)
        /\ Len(SubSeq(s, k + 1, Len(s))) <= Len(s)
    BY <1>1, <1>2, SubSeqProperties
  <1>8. n > 0 /\ k = 0 => s = <<>>
    BY <1>1, <1>2, EmptySeq
  <1>9. Len(s) < n => First(s, n) = s /\ Rest(s, n) = <<>>
    <2>1. ASSUME Len(s) < n PROVE k = Len(s)
      BY <1>1, <1>2, <2>1
    <2>2. QED
      BY <1>2, <1>3, <1>5, <2>1, SubSeqFull, SubSeqEmpty
  <1>10. n > 0 /\ First(s, n) = <<>> => s = <<>>
    BY <1>3, <1>4, <1>8
  <1>11. Len(s) >= n => k = n
    BY <1>1, <1>2 DEF Least
  <1>12. /\ First(s, n) \in Seq(S) /\ Len(First(s, n)) = k
         /\ Rest(s, n) \in Seq(S) /\ Len(Rest(s, n)) <= Len(s)
    BY <1>3, <1>4, <1>5, <1>6
  <1>13. Len(First(s, n)) \in Nat /\ Len(Rest(s, n)) \in Nat
    BY <1>12
  <1>14. QED
    BY <1>1, <1>2, <1>9, <1>10, <1>11, <1>12, <1>13

-----------------------------------------------------------------------------
(* Types of the recorder                                                   *)

\* The constants are numbers, and so is what is built from them.
LEMMA KnownSizes ==
  /\ \A b \in Buffers : BufferSize[b] \in Nat \ {0}
  /\ BufferSize["recording"] \in Nat \ {0} /\ BufferSize["control"] \in Nat \ {0}
  /\ Limit \in Nat /\ MaxOutput \in Nat /\ MaxResizes \in Nat /\ MaxMessages \in Nat
  /\ \A n \in Bodies : n \in Nat /\ n <= BufferSize["recording"]
  BY RecorderAssumption DEF Buffers, MaxOutput

\* What a buffer holds is one of the two kinds of items.
LEMMA ItemsAreItems ==
  ASSUME NEW b
  PROVE  /\ \A s \in Seq(Items(b)) : s \in Seq(Item)
         /\ \A s \in Seq(Seq(Items(b))) : s \in Seq(Seq(Item))
  <1>1. Items(b) \subseteq Item
    BY DEF Items, Item
  <1>2. \A s \in Seq(Items(b)) : s \in Seq(Item)
    BY <1>1, SeqMonotonic
  <1>3. \A s \in Seq(Seq(Items(b))) : s \in Seq(Seq(Item))
    <2>1. Seq(Items(b)) \subseteq Seq(Item)
      BY <1>2
    <2>2. QED
      BY <2>1, SeqMonotonic
  <1>4. QED
    BY <1>2, <1>3

\* The two goroutines and the two buffers.
LEMMA Names ==
  /\ "reader" \in Proc /\ "writer" \in Proc
  /\ "recording" \in Buffers /\ "control" \in Buffers
  /\ \A b \in Buffers : b = "recording" \/ b = "control"
  /\ \A p \in Proc : p = "reader" \/ p = "writer"
  /\ \A p \in Proc : Other(p) \in Proc /\ Other(p) # p
                     /\ \A q \in Proc : q # p => q = Other(p)
  BY DEF Proc, Buffers, Other

\* Where a goroutine goes on is a place of its own, outside the calls.
LEMMA FlushToType ==
  ASSUME NEW p \in Proc, NEW b \in Buffers
  PROVE  FlushTo(p, b) \subseteq Own(p)
  BY Names DEF FlushTo, Own

\* A goroutine's own places are not in the calls of bufio.
LEMMA OwnType ==
  ASSUME NEW p \in Proc
  PROVE  /\ Own(p) \subseteq Labels
         /\ \A label \in Own(p) : label \notin Inside
  BY Names DEF Own, Inside, Labels

\* A goroutine goes from one place of its own to another.
LEMMA GotoTypes ==
  ASSUME Places, Jobs, NEW p \in Proc, NEW label \in Own(p), Goto(p, label),
         job' = job
  PROVE  /\ Places' /\ Jobs'
         /\ pc'[p] = label /\ label \notin Inside
         /\ \A q \in Proc : q # p => pc'[q] = pc[q]
  <1>1. label \in Labels /\ label \notin Inside
    BY OwnType
  <1>2. /\ pc' \in [Proc -> Labels]
        /\ pc'[p] = label
        /\ \A q \in Proc : q # p => pc'[q] = pc[q]
    BY <1>1 DEF Places, Goto
  <1>3. Places'
    BY <1>2 DEF Places
  <1>4. Jobs'
    BY <1>1, <1>2 DEF Jobs, JobFits
  <1>5. QED
    BY <1>1, <1>2, <1>3, <1>4

\* A call goes on with what it has in hand, ...
LEMMA EnterTypes ==
  ASSUME Places, Jobs, NEW p \in Proc, NEW label \in Inside, NEW b \in Buffers,
         NEW data \in Seq(Items(b)), Len(data) <= BufferSize[b],
         NEW todo \in Seq(Items(b)),
         NEW after \in FlushTo(p, b), Enter(p, label, b, data, todo, after)
  PROVE  /\ Places' /\ Jobs'
         /\ pc'[p] = label
         /\ job'[p] = [buffer |-> b, data |-> data, todo |-> todo, after |-> after]
         /\ \A q \in Proc : q # p => pc'[q] = pc[q] /\ job'[q] = job[q]
  <1> DEFINE new == [buffer |-> b, data |-> data, todo |-> todo, after |-> after]
  <1>1. after \in Labels /\ label \in Labels
    BY FlushToType, OwnType DEF Labels
  <1>2. new \in Job
    BY <1>1, ItemsAreItems DEF Job
  <1>3. /\ pc' \in [Proc -> Labels] /\ pc'[p] = label
        /\ \A q \in Proc : q # p => pc'[q] = pc[q]
    BY <1>1 DEF Enter, Goto, Places
  <1>4. /\ job' \in [Proc -> Job] /\ job'[p] = new
        /\ \A q \in Proc : q # p => job'[q] = job[q]
    BY <1>2 DEF Enter, Jobs
  <1>5. Places'
    BY <1>3 DEF Places
  <1>6. JobFits(p)'
    BY <1>4 DEF JobFits
  <1>7. \A q \in Proc : q # p /\ pc'[q] \in Inside => JobFits(q)'
    BY <1>3, <1>4 DEF Jobs, JobFits
  <1>8. QED
    BY <1>3, <1>4, <1>5, <1>6, <1>7 DEF Jobs

\* ... or returns without.
LEMMA LeaveTypes ==
  ASSUME Places, Jobs, NEW p \in Proc, NEW b \in Buffers,
         NEW after \in FlushTo(p, b), Leave(p, after)
  PROVE  /\ Places' /\ Jobs'
         /\ pc'[p] = after /\ after \notin Inside
         /\ \A q \in Proc : q # p => pc'[q] = pc[q] /\ job'[q] = job[q]
  <1>1. after \in Own(p) /\ after \in Labels /\ after \notin Inside
    BY FlushToType, OwnType
  <1>2. NoJob \in Job
    <2>1. <<>> \in Seq(Item)
      OBVIOUS
    <2>2. QED
      BY <2>1 DEF NoJob, Job, Buffers, Labels, Own
  <1>3. /\ pc' \in [Proc -> Labels] /\ pc'[p] = after
        /\ \A q \in Proc : q # p => pc'[q] = pc[q]
    BY <1>1 DEF Leave, Goto, Places
  <1>4. /\ job' \in [Proc -> Job]
        /\ \A q \in Proc : q # p => job'[q] = job[q]
    BY <1>2 DEF Leave, Jobs
  <1>5. Places'
    BY <1>1, <1>3 DEF Places
  <1>6. \A q \in Proc : pc'[q] \in Inside => JobFits(q)'
    BY <1>1, <1>3, <1>4 DEF Jobs, JobFits
  <1>7. QED
    BY <1>1, <1>3, <1>4, <1>5, <1>6 DEF Jobs

\* A goroutine that goes on with what it has to write, or returns.
LEMMA GoOnTypes ==
  ASSUME Places, Jobs, NEW p \in Proc, NEW label \in Inside, NEW b \in Buffers,
         NEW todo \in Seq(Items(b)), NEW after \in FlushTo(p, b),
         GoOn(p, label, b, todo, after)
  PROVE  Places' /\ Jobs'
  <1>1. <<>> \in Seq(Items(b)) /\ Len(<<>>) <= BufferSize[b]
    BY KnownSizes
  <1>2. CASE Leave(p, after)
    BY <1>2, LeaveTypes
  <1>3. CASE Enter(p, label, b, <<>>, todo, after)
    BY <1>1, <1>3, EnterTypes
  <1>4. QED
    BY <1>2, <1>3 DEF GoOn

\* The memory, the content or the documents of one buffer change.
LEMMA StoresChange ==
  ASSUME Stores, NEW b \in Buffers,
         NEW m \in [1 .. BufferSize[b] -> Items(b)], NEW n \in 0 .. BufferSize[b],
         NEW s \in Seq(Seq(Items(b))),
         mem' = [mem EXCEPT ![b] = m] \/ (mem' = mem /\ m = mem[b]),
         fill' = [fill EXCEPT ![b] = n] \/ (fill' = fill /\ n = fill[b]),
         stored' = [stored EXCEPT ![b] = s] \/ (stored' = stored /\ s = stored[b])
  PROVE  /\ Stores'
         /\ mem'[b] = m /\ fill'[b] = n /\ stored'[b] = s
         /\ \A c \in Buffers : c # b => mem'[c] = mem[c] /\ fill'[c] = fill[c]
                                        /\ stored'[c] = stored[c]
  <1>1. mem' \in [Buffers -> Contents] /\ mem'[b] = m
        /\ \A c \in Buffers : c # b => mem'[c] = mem[c]
    <2>1. m \in Contents
      BY DEF Contents
    <2>2. QED
      BY <2>1 DEF Stores
  <1>2. fill' \in [Buffers -> Nat] /\ fill'[b] = n
        /\ \A c \in Buffers : c # b => fill'[c] = fill[c]
    <2>1. n \in Nat
      BY KnownSizes
    <2>2. QED
      BY <2>1 DEF Stores
  <1>3. stored' \in [Buffers -> Seq(Seq(Item))] /\ stored'[b] = s
        /\ \A c \in Buffers : c # b => stored'[c] = stored[c]
    BY ItemsAreItems DEF Stores
  <1>4. \A c \in Buffers : BufferFits(c) => BufferFits(c)'
    BY <1>1, <1>2, <1>3 DEF BufferFits
  <1>5. QED
    BY <1>1, <1>2, <1>3, <1>4, Names DEF Stores

\* A call that has something in hand, with its types.
LEMMA JobTypes ==
  ASSUME Jobs, NEW p \in Proc, pc[p] \in Inside
  PROVE  /\ job[p].buffer \in Buffers
         /\ job[p].data \in Seq(Items(job[p].buffer))
         /\ Len(job[p].data) \in 0 .. BufferSize[job[p].buffer]
         /\ job[p].todo \in Seq(Items(job[p].buffer))
         /\ job[p].after \in FlushTo(p, job[p].buffer)
  BY KnownSizes DEF Jobs, JobFits, Job

\* What a buffer holds and what is stored of it.
LEMMA StoreTypes ==
  ASSUME Stores, NEW b \in Buffers
  PROVE  /\ mem[b] \in [1 .. BufferSize[b] -> Items(b)]
         /\ fill[b] \in 0 .. BufferSize[b] /\ fill[b] \in Nat
         /\ stored[b] \in Seq(Seq(Items(b)))
         /\ BufferSize[b] \in Nat \ {0}
         /\ Room(b) \in Nat /\ Room(b) = BufferSize[b] - fill[b]
  <1>1. BufferFits(b) /\ BufferSize[b] \in Nat \ {0}
    BY KnownSizes, Names DEF Stores
  <1>2. fill[b] \in 0 .. BufferSize[b] /\ fill[b] \in Nat
    BY <1>1 DEF BufferFits
  <1>3. QED
    BY <1>1, <1>2 DEF BufferFits, Room

\* What is copied into a buffer fits.
LEMMA CopyInTypes ==
  ASSUME Flags, Places, Jobs, Stores, NEW p \in Proc, NEW b \in Buffers,
         NEW items \in Seq(Items(b)), NEW after \in FlushTo(p, b),
         CopyIn(p, b, items, after), UNCHANGED <<fill, stored>>
  PROVE  /\ overlapped' \in [Buffers -> BOOLEAN] /\ late' \in BOOLEAN
         /\ Places' /\ Jobs' /\ Stores'
  <1>1. CASE err[b]
    <2>1. Leave(p, after) /\ UNCHANGED <<mem, overlapped, late>>
      BY <1>1 DEF CopyIn
    <2>2. Stores'
      BY <2>1 DEF Stores, BufferFits
    <2>3. QED
      BY <2>1, <2>2, LeaveTypes DEF Flags
  <1>2. CASE ~err[b]
    <2>1. PICK now \in Seq(Items(b)), more \in Seq(Items(b)), k \in Nat :
            /\ now = First(items, Room(b)) /\ more = Rest(items, Room(b))
            /\ k = Len(now) /\ k <= Room(b)
      <3>1. Room(b) \in Nat
        BY StoreTypes
      <3>2. /\ First(items, Room(b)) \in Seq(Items(b))
            /\ Rest(items, Room(b)) \in Seq(Items(b))
            /\ Len(First(items, Room(b))) \in Nat
            /\ Len(First(items, Room(b))) <= Room(b)
        BY <3>1, FirstAndRest
      <3>3. QED
        BY <3>2
    <2> DEFINE m == [i \in 1 .. BufferSize[b] |->
                       IF i \in fill[b] + 1 .. fill[b] + k
                         THEN now[i - fill[b]] ELSE mem[b][i]]
    <2>2. /\ mem' = [mem EXCEPT ![b] = m]
          /\ Enter(p, "copied", b, now, more, after)
          /\ NoteOverlap(p, b) /\ NoteLate(p, b)
      BY <1>2, <2>1 DEF CopyIn
    <2>3. m \in [1 .. BufferSize[b] -> Items(b)]
      <3>1. ASSUME NEW i \in 1 .. BufferSize[b], i \in fill[b] + 1 .. fill[b] + k
            PROVE  now[i - fill[b]] \in Items(b)
        <4>1. i - fill[b] \in 1 .. k
          BY <3>1, StoreTypes
        <4>2. QED
          BY <2>1, <4>1
      <3>2. QED
        BY <3>1, StoreTypes
    <2> HIDE DEF m
    <2>4. Stores'
      BY <2>2, <2>3, StoreTypes, StoresChange
    <2>5. Places' /\ Jobs'
      <3>1. Len(now) <= BufferSize[b] /\ "copied" \in Inside
        BY <2>1, StoreTypes DEF Inside
      <3>2. QED
        BY <2>2, <3>1, EnterTypes
    <2>6. overlapped' \in [Buffers -> BOOLEAN] /\ late' \in BOOLEAN
      BY <2>2 DEF NoteOverlap, NoteLate, Flags, In
    <2>7. QED
      BY <2>4, <2>5, <2>6
  <1>3. QED
    BY <1>1, <1>2

\* A flush hands over what the buffer holds.
LEMMA FlushTypes ==
  ASSUME Flags, Places, Jobs, Stores, NEW p \in Proc, NEW b \in Buffers,
         NEW todo \in Seq(Items(b)), NEW after \in FlushTo(p, b),
         Flush(p, b, todo, after), UNCHANGED <<mem, fill, stored>>
  PROVE  /\ overlapped' \in [Buffers -> BOOLEAN]
         /\ Places' /\ Jobs' /\ Stores'
  <1>1. Stores'
    BY DEF Stores, BufferFits
  <1>2. CASE Leave(p, after) /\ UNCHANGED overlapped
    BY <1>1, <1>2, LeaveTypes DEF Flags
  <1>3. CASE GoOn(p, "again", b, todo, after) /\ UNCHANGED overlapped
    BY <1>1, <1>3, GoOnTypes DEF Flags, Inside
  <1>4. CASE Enter(p, "flush", b, SubSeq(mem[b], 1, fill[b]), todo, after)
             /\ ~(Leave(p, after) /\ UNCHANGED overlapped)
             /\ ~(GoOn(p, "again", b, todo, after) /\ UNCHANGED overlapped)
    <2>1. /\ SubSeq(mem[b], 1, fill[b]) \in Seq(Items(b))
          /\ Len(SubSeq(mem[b], 1, fill[b])) <= BufferSize[b]
      BY StoreTypes, SubSeqProperties
    <2>2. Places' /\ Jobs'
      BY <1>4, <2>1, EnterTypes DEF Inside
    <2>3. overlapped' \in [Buffers -> BOOLEAN]
      BY <1>4 DEF Flush, Flags, In
    <2>4. QED
      BY <1>1, <2>2, <2>3
  <1>5. QED
    BY <1>2, <1>3, <1>4 DEF Flush

\* The types of the count, ...
LEMMA CountTypes ==
  ASSUME Flags, Places, Jobs, Stores, NEW p \in Proc, Count(p)
  PROVE  Flags' /\ Places' /\ Jobs' /\ Stores'
  <1>1. PICK b \in Buffers : b = job[p].buffer
    BY JobTypes DEF Count, Inside
  <1>2. PICK more \in Nat : more = fill[b] + Len(job[p].data)
    BY <1>1, JobTypes, StoreTypes DEF Count, Inside
  <1>3. \/ more <= BufferSize[b] /\ fill' = [fill EXCEPT ![b] = more]
        \/ fill' = fill
    BY <1>1, <1>2 DEF Count
  <1>4. mem' = mem /\ stored' = stored
    BY DEF Count
  <1>5. Stores'
    <2>1. CASE more <= BufferSize[b] /\ fill' = [fill EXCEPT ![b] = more]
      <3>1. more \in 0 .. BufferSize[b]
        BY <1>2, <2>1, StoreTypes
      <3>2. QED
        BY <1>4, <2>1, <3>1, StoreTypes, StoresChange
    <2>2. CASE fill' = fill
      BY <1>4, <2>2 DEF Stores, BufferFits
    <2>3. QED
      BY <1>3, <2>1, <2>2
  <1>6. Places' /\ Jobs'
    BY <1>1, JobTypes, GoOnTypes DEF Count, Inside
  <1>7. Flags'
    BY <1>1 DEF Count, Flags, NoteOverlap, NoteLate, In
  <1>8. QED
    BY <1>5, <1>6, <1>7

\* ... of what a recorder stores, ...
LEMMA DocumentsType ==
  ASSUME Jobs, Stores, NEW p \in Proc, pc[p] = "flush", NEW doc \in Documents(p)
  PROVE  doc \in Seq(Items(job[p].buffer))
  <1>1. PICK b \in Buffers : b = job[p].buffer
    BY JobTypes DEF Inside
  <1>2. PICK n \in 0 .. BufferSize[b] : n = Len(job[p].data)
    BY <1>1, JobTypes DEF Inside
  <1>3. SubSeq(mem[b], 1, n) \in Seq(Items(b))
    <2>1. \A i \in 1 .. n : mem[b][i] \in Items(b)
      BY StoreTypes
    <2>2. QED
      BY <2>1, SubSeqProperties, StoreTypes
  <1>4. job[p].data \in Seq(Items(b)) /\ <<>> \in Seq(Items(b))
    BY <1>1, JobTypes DEF Inside
  <1>5. QED
    BY <1>1, <1>2, <1>3, <1>4 DEF Documents

\* ... of the end of a flush, ...
LEMMA FlushEndsTypes ==
  ASSUME Flags, Places, Jobs, Stores, NEW p \in Proc, FlushEnds(p)
  PROVE  Flags' /\ Places' /\ Jobs' /\ Stores'
  <1>1. PICK b \in Buffers : b = job[p].buffer
    BY JobTypes DEF FlushEnds, Inside
  <1>2. PICK n \in 0 .. BufferSize[b] : n = Taken(p)
    BY <1>1, JobTypes DEF FlushEnds, Inside, Taken
  <1>3. PICK s \in Seq(Seq(Items(b))) : stored' = [stored EXCEPT ![b] = s]
    <2>1. PICK doc \in Documents(p) : stored' = [stored EXCEPT ![b] = Append(@, doc)]
      BY <1>1 DEF FlushEnds
    <2>2. doc \in Seq(Items(b))
      BY <1>1, DocumentsType DEF FlushEnds
    <2>3. Append(stored[b], doc) \in Seq(Seq(Items(b)))
      BY <2>2, StoreTypes
    <2>4. stored' = [stored EXCEPT ![b] = Append(stored[b], doc)]
      BY <2>1 DEF Stores
    <2>5. QED
      BY <2>3, <2>4
  <1>4. CASE n < fill[b]
    <2> DEFINE m == [i \in 1 .. BufferSize[b] |->
                       IF i <= fill[b] - n THEN mem[b][i + n] ELSE mem[b][i]]
    <2>1. /\ err' = [err EXCEPT ![b] = TRUE]
          /\ mem' = [mem EXCEPT ![b] = m]
          /\ fill' = [fill EXCEPT ![b] = @ - n]
          /\ Leave(p, job[p].after) /\ overlapped' = overlapped
          /\ UNCHANGED <<late, faulted>>
      BY <1>1, <1>2, <1>4 DEF FlushEnds
    <2>2. m \in [1 .. BufferSize[b] -> Items(b)]
      <3>1. ASSUME NEW i \in 1 .. BufferSize[b], i <= fill[b] - n
            PROVE  i + n \in 1 .. BufferSize[b]
        BY <1>2, <3>1, StoreTypes
      <3>2. QED
        BY <3>1, StoreTypes
    <2> HIDE DEF m
    <2>3. fill[b] - n \in 0 .. BufferSize[b] /\ fill' = [fill EXCEPT ![b] = fill[b] - n]
      BY <1>4, <2>1, StoreTypes DEF Stores
    <2>4. Stores'
      BY <1>3, <2>1, <2>2, <2>3, StoresChange
    <2>5. Places' /\ Jobs'
      BY <1>1, <2>1, JobTypes, LeaveTypes DEF FlushEnds, Inside
    <2>6. Flags'
      BY <2>1 DEF Flags
    <2>7. QED
      BY <2>4, <2>5, <2>6
  <1>5. CASE ~(n < fill[b])
    <2>1. /\ UNCHANGED <<err, mem, fill, overlapped, late, faulted>>
          /\ Enter(p, "reset", b, <<>>, job[p].todo, job[p].after)
      BY <1>1, <1>2, <1>5 DEF FlushEnds
    <2>2. Stores'
      BY <1>3, <2>1, StoreTypes, StoresChange
    <2>3. <<>> \in Seq(Items(b)) /\ Len(<<>>) <= BufferSize[b]
      BY KnownSizes
    <2>4. /\ job[p].todo \in Seq(Items(b)) /\ job[p].after \in FlushTo(p, b)
          /\ "reset" \in Inside
      BY <1>1, JobTypes DEF FlushEnds, Inside
    <2>5. Places' /\ Jobs'
      BY <2>1, <2>3, <2>4, EnterTypes
    <2>6. Flags'
      BY <2>1 DEF Flags
    <2>7. QED
      BY <2>2, <2>5, <2>6
  <1>6. QED
    BY <1>4, <1>5

\* ... of its failure ...
LEMMA FlushFailsTypes ==
  ASSUME Flags, Places, Jobs, Stores, NEW p \in Proc, FlushFails(p)
  PROVE  Flags' /\ Places' /\ Jobs' /\ Stores'
  <1>1. PICK b \in Buffers : b = job[p].buffer
    BY JobTypes DEF FlushFails, Inside
  <1>2. Stores'
    <2>1. CASE stored' = stored
      BY <2>1 DEF FlushFails, Stores, BufferFits
    <2>2. CASE stored' # stored
      <3>1. PICK doc \in Documents(p) : stored' = [stored EXCEPT ![b] = Append(@, doc)]
        BY <1>1, <2>2 DEF FlushFails
      <3>2. doc \in Seq(Items(b))
        BY <1>1, DocumentsType DEF FlushFails
      <3>3. Append(stored[b], doc) \in Seq(Seq(Items(b)))
        BY <3>2, StoreTypes
      <3>4. stored' = [stored EXCEPT ![b] = Append(stored[b], doc)]
        BY <3>1 DEF Stores
      <3>5. mem' = mem /\ fill' = fill
        BY DEF FlushFails
      <3>6. QED
        BY <3>3, <3>4, <3>5, StoreTypes, StoresChange
    <2>3. QED
      BY <2>1, <2>2
  <1>3. Places' /\ Jobs'
    BY <1>1, JobTypes, LeaveTypes DEF FlushFails, Inside
  <1>4. Flags'
    BY <1>1 DEF FlushFails, Flags, KeepsError
  <1>5. QED
    BY <1>2, <1>3, <1>4

\* ... and of the buffer's reset.
LEMMA ResetTypes ==
  ASSUME Flags, Places, Jobs, Stores, NEW p \in Proc, Reset(p)
  PROVE  Flags' /\ Places' /\ Jobs' /\ Stores'
  <1>1. PICK b \in Buffers : b = job[p].buffer
    BY JobTypes DEF Reset, Inside
  <1>2. Stores'
    <2>1. CASE fill' = [fill EXCEPT ![b] = 0]
      <3>1. mem' = mem /\ stored' = stored /\ 0 \in 0 .. BufferSize[b]
        BY KnownSizes DEF Reset
      <3>2. QED
        BY <2>1, <3>1, StoreTypes, StoresChange
    <2>2. CASE fill' = fill
      BY <2>2 DEF Reset, Stores, BufferFits
    <2>3. QED
      BY <1>1, <2>1, <2>2 DEF Reset
  <1>3. Places' /\ Jobs'
    BY <1>1, JobTypes, GoOnTypes DEF Reset, Inside
  <1>4. Flags'
    BY <1>1 DEF Reset, Flags, NoteOverlap, In
  <1>5. QED
    BY <1>2, <1>3, <1>4

\* What a goroutine's own steps leave alone.
LEMMA OwnStepTypes ==
  ASSUME RecorderTypes, NEW p \in Proc, NEW label \in Own(p), Goto(p, label),
         UNCHANGED <<mem, fill, err, stored, job, overlapped, late, faulted>>
  PROVE  Flags' /\ Places' /\ Jobs' /\ Stores'
  <1>1. Places' /\ Jobs'
    BY GotoTypes DEF RecorderTypes
  <1>2. Flags' /\ Stores'
    BY DEF RecorderTypes, Flags, Stores, BufferFits
  <1>3. QED
    BY <1>1, <1>2

\* What the goroutines write to the buffers, and where they go on.
LEMMA WrittenTypes ==
  ASSUME Counts
  PROVE  /\ \A n \in Bodies : recordedBytes < Limit =>
              [i \in 1 .. n |-> recordedBytes + i - 1] \in Seq(Items("recording"))
         /\ <<[type |-> "delay", offset |-> recordedBytes]>> \in Seq(Items("control"))
         /\ <<[type |-> "resize", offset |-> resizeAt]>> \in Seq(Items("control"))
  <1>1. recordedBytes \in 0 .. MaxOutput /\ resizeAt \in 0 .. MaxOutput
    BY KnownSizes DEF Counts
  <1>2. /\ [type |-> "delay", offset |-> recordedBytes] \in Control
        /\ [type |-> "resize", offset |-> resizeAt] \in Control
    BY <1>1 DEF Control
  <1>3. ASSUME NEW n \in Bodies, recordedBytes < Limit
        PROVE  [i \in 1 .. n |-> recordedBytes + i - 1] \in Seq(Items("recording"))
    <2>1. n \in Nat /\ n <= BufferSize["recording"]
      BY KnownSizes
    <2>2. \A i \in 1 .. n : recordedBytes + i - 1 \in Byte
      BY <1>1, <1>3, <2>1, KnownSizes DEF Byte, MaxOutput
    <2>3. QED
      BY <2>1, <2>2 DEF Items
  <1>4. QED
    BY <1>2, <1>3 DEF Items

\* A step of the recorder keeps its types.
LEMMA RecorderTypesStep ==
  ASSUME RecorderTypes, RecorderNext
  PROVE  RecorderTypes'
  <1> USE DEF RecorderTypes
  <1>0. /\ "delay" \in FlushTo("writer", "recording")
        /\ "select" \in FlushTo("writer", "recording")
        /\ "done" \in FlushTo("writer", "recording")
        /\ "count" \in FlushTo("writer", "control")
        /\ "flushRecording" \in FlushTo("writer", "control")
        /\ "flushControl" \in FlushTo("reader", "recording")
        /\ "read" \in FlushTo("reader", "control")
        /\ "leaving" \in FlushTo("reader", "control")
    BY DEF FlushTo
  <1>1. ASSUME NEW p \in Proc, BufferNext(p) PROVE RecorderTypes'
    <2>1. CASE Count(p)
      <3>1. Counts'
        BY <2>1 DEF Count, Counts
      <3>2. QED
        BY <2>1, <3>1, CountTypes
    <2>2. CASE FlushFull(p)
      <3>1. Counts'
        BY <2>2 DEF FlushFull, Counts
      <3>2. PICK b \in Buffers : b = job[p].buffer
        BY <2>2, JobTypes DEF FlushFull, Inside
      <3>3. /\ Flush(p, b, job[p].todo, job[p].after)
            /\ job[p].todo \in Seq(Items(b)) /\ job[p].after \in FlushTo(p, b)
            /\ UNCHANGED <<mem, fill, err, stored, late, faulted>>
        BY <2>2, <3>2, JobTypes DEF FlushFull, Inside
      <3>4. overlapped' \in [Buffers -> BOOLEAN] /\ Places' /\ Jobs' /\ Stores'
        BY <3>3, FlushTypes
      <3>5. QED
        BY <3>1, <3>3, <3>4 DEF Flags
    <2>3. CASE CopyAgain(p)
      <3>1. Counts'
        BY <2>3 DEF CopyAgain, Counts
      <3>2. PICK b \in Buffers : b = job[p].buffer
        BY <2>3, JobTypes DEF CopyAgain, Inside
      <3>3. /\ CopyIn(p, b, job[p].todo, job[p].after)
            /\ job[p].todo \in Seq(Items(b)) /\ job[p].after \in FlushTo(p, b)
            /\ UNCHANGED <<fill, err, stored, faulted>>
        BY <2>3, <3>2, JobTypes DEF CopyAgain, Inside
      <3>4. /\ overlapped' \in [Buffers -> BOOLEAN] /\ late' \in BOOLEAN
            /\ Places' /\ Jobs' /\ Stores'
        BY <3>3, CopyInTypes
      <3>5. QED
        BY <3>1, <3>3, <3>4 DEF Flags
    <2>4. CASE FlushEnds(p)
      <3>1. Counts'
        BY <2>4 DEF FlushEnds, Counts
      <3>2. QED
        BY <2>4, <3>1, FlushEndsTypes
    <2>5. CASE FlushFails(p)
      <3>1. Counts'
        BY <2>5 DEF FlushFails, Counts
      <3>2. QED
        BY <2>5, <3>1, FlushFailsTypes
    <2>6. CASE Reset(p)
      <3>1. Counts'
        BY <2>6 DEF Reset, Counts
      <3>2. QED
        BY <2>6, <3>1, ResetTypes
    <2>7. QED
      BY <1>1, <2>1, <2>2, <2>3, <2>4, <2>5, <2>6 DEF BufferNext
  <1>2. ASSUME NEW p \in Proc, NEW b \in Buffers, NEW items \in Seq(Items(b)),
               NEW after \in FlushTo(p, b), CopyIn(p, b, items, after),
               UNCHANGED <<fill, stored, err, faulted>>, Counts'
        PROVE  RecorderTypes'
    <2>1. /\ overlapped' \in [Buffers -> BOOLEAN] /\ late' \in BOOLEAN
          /\ Places' /\ Jobs' /\ Stores'
      BY <1>2, CopyInTypes
    <2>2. QED
      BY <1>2, <2>1 DEF Flags
  <1>3. CASE RecordOutput
    <2>1. PICK n \in Bodies : body' = n /\
            CopyIn("writer", "recording", [i \in 1 .. n |-> recordedBytes + i - 1],
                   "delay")
      BY <1>3 DEF RecordOutput
    <2>2. /\ recordedBytes < Limit /\ messages' = messages + 1
          /\ messages < MaxMessages
          /\ UNCHANGED <<recordedBytes, bytesRecorded, fill, err, stored, resizeAt,
                         resizes, faulted>>
      BY <1>3 DEF RecordOutput, BelowLimit
    <2>3. Counts'
      <3>1. recordedBytes + n <= MaxOutput
        BY <2>2, KnownSizes DEF Counts, MaxOutput
      <3>2. messages' \in 0 .. MaxMessages
        BY <2>2, KnownSizes DEF Counts
      <3>3. QED
        BY <2>1, <2>2, <3>1, <3>2 DEF Counts
    <2>4. QED
      BY <1>0, <1>2, <2>1, <2>2, <2>3, WrittenTypes, Names
  <1>4. CASE RecordDelay
    <2>1. Counts'
      BY <1>4 DEF RecordDelay, Counts
    <2>2. CASE CopyIn("writer", "control",
                      <<[type |-> "delay", offset |-> recordedBytes]>>, "count")
      <3>1. UNCHANGED <<fill, stored, err, faulted>>
        BY <1>4 DEF RecordDelay
      <3>2. QED
        BY <1>0, <1>2, <2>1, <2>2, <3>1, WrittenTypes, Names
    <2>3. CASE Leave("writer", "count") /\ UNCHANGED <<mem, overlapped, late>>
      <3>1. Places' /\ Jobs'
        BY <1>0, <2>3, LeaveTypes, Names
      <3>2. Flags' /\ Stores'
        BY <1>4, <2>3 DEF RecordDelay, Flags, Stores, BufferFits
      <3>3. QED
        BY <2>1, <3>1, <3>2
    <2>4. QED
      BY <1>4, <2>2, <2>3 DEF RecordDelay
  <1>5. CASE RecordResize
    <2>1. Counts'
      BY <1>5, KnownSizes DEF RecordResize, Counts
    <2>2. /\ CopyIn("reader", "control",
                    <<[type |-> "resize", offset |-> resizeAt]>>, "read")
          /\ UNCHANGED <<fill, stored, err, faulted>>
      BY <1>5 DEF RecordResize
    <2>3. QED
      BY <1>0, <1>2, <2>1, <2>2, WrittenTypes, Names
  <1>6. CASE CountOutput
    <2>1. "select" \in Own("writer") /\ Goto("writer", "select")
      BY <1>6 DEF CountOutput, Own
    <2>2. Flags' /\ Places' /\ Jobs' /\ Stores'
      BY <1>6, <2>1, OwnStepTypes, Names DEF CountOutput
    <2>3. recordedBytes \in Nat /\ body \in Nat
      BY KnownSizes DEF Counts
    <2>4. Counts'
      BY <1>6, <2>3, KnownSizes DEF CountOutput, Counts
    <2>5. QED
      BY <2>2, <2>4
  <1>7. ASSUME NEW p \in Proc, NEW b \in Buffers, NEW after \in FlushTo(p, b),
               Flush(p, b, <<>>, after),
               UNCHANGED <<recordedBytes, bytesRecorded, mem, fill, err, stored, body,
                           resizeAt, messages, resizes, late, faulted>>
        PROVE  RecorderTypes'
    <2>1. <<>> \in Seq(Items(b))
      OBVIOUS
    <2>2. /\ overlapped' \in [Buffers -> BOOLEAN]
          /\ Places' /\ Jobs' /\ Stores'
      BY <1>7, <2>1, FlushTypes
    <2>3. Counts' /\ Flags'
      BY <1>7, <2>2 DEF Counts, Flags
    <2>4. QED
      BY <2>2, <2>3
  <1>8. CASE StopShell \/ WriterFlushes \/ ReaderFlushes
    <2>1. UNCHANGED <<recordedBytes, bytesRecorded, mem, fill, err, stored, body,
                      resizeAt, messages, resizes, late, faulted>>
      BY <1>8 DEF StopShell, WriterFlushes, ReaderFlushes
    <2>2. \/ Flush("writer", "recording", <<>>, "select")
          \/ Flush("writer", "recording", <<>>, "done")
          \/ Flush("writer", "control", <<>>, "flushRecording")
          \/ Flush("reader", "recording", <<>>, "flushControl")
          \/ Flush("reader", "control", <<>>, "leaving")
      BY <1>8 DEF StopShell, WriterFlushes, ReaderFlushes
    <2>3. QED
      BY <1>0, <1>7, <2>1, <2>2, Names
  <1>9. CASE WriterEnds \/ TakeResize \/ ReaderEnds \/ ReaderReturns
    <2>1. PICK p \in Proc : \E label \in Own(p) : Goto(p, label)
      <3>1. /\ "flushControl" \in Own("writer") /\ "resize" \in Own("reader")
            /\ "flushRecording" \in Own("reader") /\ "done" \in Own("reader")
        BY DEF Own
      <3>2. QED
        BY <1>9, <3>1, Names DEF WriterEnds, TakeResize, ReaderEnds, ReaderReturns
    <2>2. UNCHANGED <<mem, fill, err, stored, job, overlapped, late, faulted>>
      BY <1>9 DEF WriterEnds, TakeResize, ReaderEnds, ReaderReturns
    <2>3. Flags' /\ Places' /\ Jobs' /\ Stores'
      BY <2>1, <2>2, OwnStepTypes
    <2>4. Counts'
      BY <1>9, KnownSizes DEF WriterEnds, TakeResize, ReaderEnds, ReaderReturns,
                              Counts
    <2>5. QED
      BY <2>3, <2>4
  <1>10. QED
    BY <1>1, <1>3, <1>4, <1>5, <1>6, <1>8, <1>9 DEF RecorderNext

-----------------------------------------------------------------------------
(* Types of the playback                                                   *)

Reader ==
  /\ docs \in Seq(Seq(Byte))
  /\ unzip \in Seq(Byte)
  /\ output \in Seq(Byte) /\ Len(output) <= ReadSize

Merged ==
  /\ controls \in Seq(Control)
  /\ due \in Control
  /\ played \in Seq(Byte)
  /\ shown \in Seq([offset : 0 .. MaxOutput, at : Nat, left : BOOLEAN])

\* A control message that is being merged does not lie before what was sent.
PlayPlaces ==
  /\ play \in {"idle", "pop", "skip", "upto", "copy", "done", "inconsistent",
               "panic"}
  /\ play \in {"skip", "upto"} => Len(played) <= due.offset

Types == RecorderTypes /\ Reader /\ Merged /\ PlayPlaces

\* A call to the reader returns no more than it has room for.
LEMMA ReadTypes ==
  ASSUME Reader, NEW n \in Nat
  PROVE  /\ Read(n).data \in Seq(Byte) /\ Len(Read(n).data) <= n
         /\ Read(n).output \in Seq(Byte) /\ Len(Read(n).output) <= ReadSize
         /\ Read(n).unzip \in Seq(Byte)
         /\ Read(n).docs \in Seq(Seq(Byte))
         /\ Read(n).error \in BOOLEAN
  <1>0. ReadSize \in Nat /\ ReadSize > 0 /\ <<>> \in Seq(Byte)
        /\ <<>> \in Seq(Seq(Byte)) /\ Len(<<>>) = 0
    BY PlaybackAssumption
  <1>1. CASE output # <<>>
    <2>1. /\ First(output, n) \in Seq(Byte) /\ Len(First(output, n)) <= n
          /\ Rest(output, n) \in Seq(Byte)
          /\ Len(Rest(output, n)) <= Len(output) /\ Len(Rest(output, n)) \in Nat
      BY FirstAndRest DEF Reader
    <2>2. Len(Rest(output, n)) <= ReadSize
      BY <1>0, <2>1 DEF Reader
    <2>3. QED
      BY <1>1, <2>1, <2>2 DEF Reader, Read, KeepsRest
  <1>2. CASE output = <<>> /\ unzip # <<>>
    <2>1. /\ Fresh(unzip) \in Seq(Byte) /\ Len(Fresh(unzip)) <= ReadSize
          /\ Rest(unzip, ReadSize) \in Seq(Byte)
      BY <1>0, FirstAndRest DEF Fresh, Reader
    <2>2. Len(Fresh(unzip)) \in Nat
      BY <2>1
    <2>3. /\ First(Fresh(unzip), n) \in Seq(Byte) /\ Len(First(Fresh(unzip), n)) <= n
          /\ Rest(Fresh(unzip), n) \in Seq(Byte)
          /\ Len(Rest(Fresh(unzip), n)) <= ReadSize
      <3>1. /\ Len(Rest(Fresh(unzip), n)) \in Nat
            /\ Len(Rest(Fresh(unzip), n)) <= Len(Fresh(unzip))
        BY <2>1, FirstAndRest
      <3>2. QED
        BY <1>0, <2>1, <2>2, <3>1, FirstAndRest
    <2>4. QED
      BY <1>2, <2>1, <2>3 DEF Reader, Read, KeepsRest
  <1>3. CASE output = <<>> /\ unzip = <<>> /\ docs # <<>>
    <2>0. PICK doc \in Seq(Byte) : doc = Head(docs)
      BY <1>3 DEF Reader
    <2>1. /\ Fresh(doc) \in Seq(Byte) /\ Len(Fresh(doc)) <= ReadSize
          /\ Rest(doc, ReadSize) \in Seq(Byte)
      BY <1>0, FirstAndRest DEF Fresh
    <2>2. Len(Fresh(doc)) \in Nat
      BY <2>1
    <2>3. /\ First(Fresh(doc), n) \in Seq(Byte) /\ Len(First(Fresh(doc), n)) <= n
          /\ Rest(Fresh(doc), n) \in Seq(Byte)
          /\ Len(Rest(Fresh(doc), n)) <= ReadSize
      <3>1. /\ Len(Rest(Fresh(doc), n)) \in Nat
            /\ Len(Rest(Fresh(doc), n)) <= Len(Fresh(doc))
        BY <2>1, FirstAndRest
      <3>2. QED
        BY <1>0, <2>1, <2>2, <3>1, FirstAndRest
    <2>4. Tail(docs) \in Seq(Seq(Byte))
      BY <1>3 DEF Reader
    <2>5. QED
      BY <1>3, <2>0, <2>1, <2>3, <2>4 DEF Reader, Read, KeepsRest
  <1>4. CASE output = <<>> /\ unzip = <<>> /\ docs = <<>>
    <2>1. Read(n) = [data |-> <<>>, output |-> <<>>, unzip |-> <<>>,
                     docs |-> <<>>, error |-> TRUE]
      BY <1>4 DEF Read
    <2>2. QED
      BY <1>0, <2>1
  <1>5. QED
    BY <1>1, <1>2, <1>3, <1>4

\* The concatenation of two sequences of sequences.
LEMMA FlattenConcat ==
  ASSUME NEW S, NEW s \in Seq(Seq(S)), NEW t \in Seq(Seq(S))
  PROVE  FlattenSeq(s \o t) = FlattenSeq(s) \o FlattenSeq(t)
  <1> DEFINE Holds(n) == FlattenSeq(s \o SubSeq(t, 1, n))
                           = FlattenSeq(s) \o FlattenSeq(SubSeq(t, 1, n))
             P == {n \in Nat : n <= Len(t) => Holds(n)}
  <1>1. Len(t) \in Nat /\ FlattenSeq(s) \in Seq(S)
        /\ \A i \in 1 .. Len(t) : t[i] \in Seq(S)
    BY FlattenType
  <1>2. 0 \in P
    <2>1. SubSeq(t, 1, 0) = <<>>
      BY SubSeqEmpty
    <2>2. FlattenSeq(<<>>) = <<>> /\ s \o <<>> = s
      BY DEF FlattenSeq
    <2>3. FlattenSeq(s) \o <<>> = FlattenSeq(s)
      BY <1>1
    <2>4. Holds(0)
      BY <2>1, <2>2, <2>3
    <2>5. QED
      BY <2>4
  <1>3. ASSUME NEW n \in Nat, n + 1 <= Len(t), Holds(n) PROVE Holds(n + 1)
    <2> DEFINE u == SubSeq(t, 1, n)
    <2>1. t[n + 1] \in Seq(S)
      BY <1>1, <1>3
    <2>2. u \in Seq(Seq(S))
      BY <1>1, <1>3, SubSeqProperties
    <2>3. SubSeq(t, 1, n + 1) = Append(u, t[n + 1])
      <3>1. n + 1 \in 1 .. Len(t) /\ 1 \in 1 .. Len(t) /\ (n + 1) - 1 = n
            /\ n + 1 \in 1 .. Len(t)
        BY <1>1, <1>3
      <3>2. SubSeq(t, 1, n + 1) = SubSeq(t, 1, (n + 1) - 1) \o <<t[n + 1]>>
        BY <3>1, SubSeqRecursiveSecond
      <3>3. Append(u, t[n + 1]) = u \o <<t[n + 1]>>
        BY <2>1, <2>2, AppendIsConcat
      <3>4. QED
        BY <3>1, <3>2, <3>3
    <2>4. FlattenSeq(s \o u) = FlattenSeq(s) \o FlattenSeq(u)
      BY <1>3
    <2> HIDE DEF u
    <2>5. s \o Append(u, t[n + 1]) = Append(s \o u, t[n + 1])
          /\ s \o u \in Seq(Seq(S))
      BY <2>1, <2>2, SMTT(20)
    <2>6. FlattenSeq(Append(s \o u, t[n + 1])) = FlattenSeq(s \o u) \o t[n + 1]
      BY <2>1, <2>5, FlattenAppend
    <2>7. FlattenSeq(Append(u, t[n + 1])) = FlattenSeq(u) \o t[n + 1]
      BY <2>1, <2>2, FlattenAppend
    <2>8. (FlattenSeq(s) \o FlattenSeq(u)) \o t[n + 1]
            = FlattenSeq(s) \o (FlattenSeq(u) \o t[n + 1])
      <3>1. PICK a \in Seq(S), b \in Seq(S), c \in Seq(S) :
              a = FlattenSeq(s) /\ b = FlattenSeq(u) /\ c = t[n + 1]
        BY <1>1, <2>1, <2>2, FlattenType
      <3>2. (a \o b) \o c = a \o (b \o c)
        BY ConcatAssociative, SMTT(20)
      <3>3. QED
        BY <3>1, <3>2
    <2>9. QED
      BY <2>3, <2>4, <2>5, <2>6, <2>7, <2>8
  <1>4. \A n \in Nat : n \in P
    <2> HIDE DEF Holds
    <2>1. \A n \in Nat : n \in P => n + 1 \in P
      BY <1>1, <1>3
    <2> HIDE DEF P
    <2>2. QED
      BY <1>2, <2>1, NatInductionSet
  <1>5. Holds(Len(t))
    BY <1>1, <1>4
  <1>6. QED
    BY <1>5, SubSeqFull

\* The first n elements, the rest, and what comes behind.
LEMMA FirstThenMore ==
  ASSUME NEW S, NEW s \in Seq(S), NEW more \in Seq(S), NEW n \in Nat
  PROVE  First(s, n) \o (Rest(s, n) \o more) = s \o more
  <1>1. PICK g \in Seq(S), h \in Seq(S) : g = First(s, n) /\ h = Rest(s, n)
    BY FirstAndRest
  <1>2. (g \o h) \o more = g \o (h \o more)
    BY ConcatAssociative, SMTT(20)
  <1>3. QED
    BY <1>1, <1>2, FirstThenRest

\* The documents in the order of a playback.
LEMMA FlattenHead ==
  ASSUME NEW S, NEW seqs \in Seq(Seq(S)), seqs # <<>>
  PROVE  FlattenSeq(seqs) = Head(seqs) \o FlattenSeq(Tail(seqs))
  <1>1. Head(seqs) \in Seq(S) /\ Tail(seqs) \in Seq(Seq(S))
    OBVIOUS
  <1>2. <<Head(seqs)>> \in Seq(Seq(S)) /\ seqs = <<Head(seqs)>> \o Tail(seqs)
    BY <1>1
  <1>3. FlattenSeq(seqs) = FlattenSeq(<<Head(seqs)>>) \o FlattenSeq(Tail(seqs))
    BY <1>1, <1>2, FlattenConcat
  <1>4. FlattenSeq(<<Head(seqs)>>) = Head(seqs)
    <2>1. Append(<<>>, Head(seqs)) = <<Head(seqs)>> /\ <<>> \in Seq(Seq(S))
      OBVIOUS
    <2>2. FlattenSeq(<<>>) = <<>>
      BY DEF FlattenSeq
    <2>3. FlattenSeq(Append(<<>>, Head(seqs))) = FlattenSeq(<<>>) \o Head(seqs)
      BY <1>1, <2>1, FlattenAppend
    <2>4. <<>> \o Head(seqs) = Head(seqs)
      BY <1>1, ConcatEmptySeq
    <2>5. QED
      BY <2>1, <2>2, <2>3, <2>4
  <1>5. QED
    BY <1>3, <1>4

\* What the reader has left, in its order.
Left(o, u, d) == o \o (u \o FlattenSeq(d))

\* A call to the reader takes the next bytes of what is left and keeps the rest.
LEMMA ReadKeeps ==
  ASSUME Reader, NEW n \in Nat
  PROVE  Left(output, unzip, docs)
           = Read(n).data \o Left(Read(n).output, Read(n).unzip, Read(n).docs)
  <1>0. ReadSize \in Nat /\ <<>> \in Seq(Byte)
    BY PlaybackAssumption
  <1>1. PICK rest \in Seq(Byte) : rest = FlattenSeq(docs)
    BY FlattenType DEF Reader
  <1>2. CASE output # <<>>
    <2>1. PICK r \in Seq(Byte) : r = unzip \o rest
      BY <1>1, ConcatProperties DEF Reader
    <2>2. First(output, n) \o (Rest(output, n) \o r) = output \o r
      BY FirstThenMore DEF Reader
    <2>3. QED
      BY <1>1, <1>2, <2>1, <2>2 DEF Left, Read, KeepsRest
  <1>3. ASSUME NEW s \in Seq(Byte), NEW d \in Seq(Byte)
        PROVE  s \o d = First(Fresh(s), n) \o
                          (Rest(Fresh(s), n) \o (Rest(s, ReadSize) \o d))
    <2>1. PICK f \in Seq(Byte), m \in Seq(Byte) :
            f = First(s, ReadSize) /\ m = Rest(s, ReadSize) \o d
      <3>1. First(s, ReadSize) \in Seq(Byte) /\ Rest(s, ReadSize) \in Seq(Byte)
        BY <1>0, FirstAndRest
      <3>2. Rest(s, ReadSize) \o d \in Seq(Byte)
        BY <3>1, ConcatProperties
      <3>3. QED
        BY <3>1, <3>2
    <2>2. First(f, n) \o (Rest(f, n) \o m) = f \o m
      BY FirstThenMore
    <2>3. First(s, ReadSize) \o (Rest(s, ReadSize) \o d) = s \o d
      BY <1>0, FirstThenMore
    <2>4. QED
      BY <2>1, <2>2, <2>3 DEF Fresh
  <1>4. CASE output = <<>> /\ unzip # <<>>
    <2>1. unzip \o rest = First(Fresh(unzip), n) \o
            (Rest(Fresh(unzip), n) \o (Rest(unzip, ReadSize) \o rest))
      BY <1>3 DEF Reader
    <2>2. <<>> \o (unzip \o rest) = unzip \o rest
      BY <1>1 DEF Reader
    <2>3. QED
      BY <1>1, <1>4, <2>1, <2>2 DEF Left, Read, KeepsRest
  <1>5. CASE output = <<>> /\ unzip = <<>> /\ docs # <<>>
    <2>0. Head(docs) \in Seq(Byte) /\ Tail(docs) \in Seq(Seq(Byte))
      BY <1>5 DEF Reader
    <2>1. PICK doc \in Seq(Byte), more \in Seq(Byte) :
            doc = Head(docs) /\ more = FlattenSeq(Tail(docs))
      BY <2>0, FlattenType
    <2>2. rest = doc \o more
      BY <1>1, <1>5, <2>1, FlattenHead DEF Reader
    <2>3. doc \o more = First(Fresh(doc), n) \o
            (Rest(Fresh(doc), n) \o (Rest(doc, ReadSize) \o more))
      BY <1>3
    <2>4. <<>> \o (<<>> \o rest) = rest
      BY <1>1
    <2>5. QED
      BY <1>1, <1>5, <2>1, <2>2, <2>3, <2>4 DEF Left, Read, KeepsRest
  <1>6. CASE output = <<>> /\ unzip = <<>> /\ docs = <<>>
    <2>1. Read(n) = [data |-> <<>>, output |-> <<>>, unzip |-> <<>>,
                     docs |-> <<>>, error |-> TRUE]
      BY <1>6 DEF Read
    <2>2. FlattenSeq(<<>>) = <<>>
      BY DEF FlattenSeq
    <2>3. <<>> \o <<>> = <<>>
      BY <1>0
    <2>4. Left(output, unzip, docs) = <<>>
      BY <1>6, <2>2, <2>3 DEF Left
    <2>5. Left(<<>>, <<>>, <<>>) = <<>>
      BY <2>2, <2>3 DEF Left
    <2>6. QED
      BY <2>1, <2>3, <2>4, <2>5
  <1>7. QED
    BY <1>2, <1>4, <1>5, <1>6

\* The reader's state after a call, whose data is sent.
LEMMA SendTypes ==
  ASSUME Reader, Merged, NEW n \in Nat, Send(Read(n))
  PROVE  /\ Reader'
         /\ played' \in Seq(Byte)
         /\ Len(played') <= Len(played) + n
         /\ Len(played') = Len(played) + Len(Read(n).data)
         /\ Len(played) \in Nat /\ Len(played') \in Nat
         /\ Len(Read(n).data) \in Nat
  <1>1. PICK data \in Seq(Byte) : data = Read(n).data /\ Len(data) <= n
    BY ReadTypes
  <1>2. played' = played \o data /\ played \in Seq(Byte)
    BY <1>1 DEF Send, Merged
  <1>3. played' \in Seq(Byte) /\ Len(played') = Len(played) + Len(data)
    BY <1>2, ConcatProperties
  <1>4. Reader'
    BY ReadTypes DEF Send, Reader
  <1>5. Len(played) \in Nat /\ Len(played') \in Nat /\ Len(data) \in Nat
    BY <1>2, <1>3
  <1>6. Len(played') <= Len(played) + n
    BY <1>1, <1>3, <1>5
  <1>7. QED
    BY <1>1, <1>3, <1>4, <1>5, <1>6

\* The buffers of a session, and of none, are typed.
LEMMA NothingTypes ==
  ASSUME NEW m, m = [b \in Buffers |-> [i \in 1 .. BufferSize[b] |-> Zero(b)]],
         NEW f, f = [b \in Buffers |-> 0]
  PROVE  /\ m \in [Buffers -> Contents] /\ f \in [Buffers -> Nat]
         /\ \A b \in Buffers : /\ m[b] \in [1 .. BufferSize[b] -> Items(b)]
                               /\ f[b] = 0 /\ f[b] \in 0 .. BufferSize[b]
  <1>1. \A b \in Buffers : Zero(b) \in Items(b)
    <2>1. MaxOutput \in Byte
      BY KnownSizes DEF Byte
    <2>2. [type |-> "none", offset |-> 0] \in Control
      BY KnownSizes DEF Control
    <2>3. QED
      BY <2>1, <2>2 DEF Zero, Items
  <1>2. \A b \in Buffers : /\ m[b] \in [1 .. BufferSize[b] -> Items(b)]
                           /\ m[b] \in Contents
    BY <1>1 DEF Contents
  <1>3. m \in [Buffers -> Contents]
    BY <1>2
  <1>4. f \in [Buffers -> Nat] /\ \A b \in Buffers : f[b] = 0 /\ f[b] \in 0 .. BufferSize[b]
    BY KnownSizes
  <1>5. QED
    BY <1>2, <1>3, <1>4

\* The beginning of a playback keeps the types.
LEMMA StartTypes ==
  ASSUME Types, Start
  PROVE  Types'
  <1>1. docs' = stored["recording"] /\ stored["recording"] \in Seq(Seq(Byte))
        /\ stored["control"] \in Seq(Seq(Control))
    BY DEF Start, Types, RecorderTypes, Stores, BufferFits, Items
  <1>2. controls' \in Seq(Control)
    <2>1. CASE stored["control"] = <<>>
      BY <2>1 DEF Start, FirstControls
    <2>2. CASE stored["control"] # <<>>
      <3>1. PICK doc \in Seq(Control) : doc = Head(stored["control"])
        BY <1>1, <2>2
      <3>2. First(doc, ControlsRead) \in Seq(Control)
        BY FirstAndRest, PlaybackAssumption
      <3>3. controls' = doc \/ controls' = First(doc, ControlsRead)
        BY <2>2, <3>1 DEF Start, FirstControls
      <3>4. QED
        BY <3>2, <3>3
    <2>3. QED
      BY <2>1, <2>2
  <1>3. Counts' /\ Flags' /\ Places' /\ Jobs'
    <2>1. Counts'
      BY DEF Start, Types, RecorderTypes, Counts
    <2>2. Flags' /\ Places'
      BY DEF Start, Types, RecorderTypes, Flags, Places
    <2>3. Jobs'
      BY DEF Start, Types, RecorderTypes, Jobs, JobFits
    <2>4. QED
      BY <2>1, <2>2, <2>3
  <1>4. Stores'
    <2>1. /\ mem' = [b \in Buffers |-> [i \in 1 .. BufferSize[b] |-> Zero(b)]]
          /\ fill' = [b \in Buffers |-> 0] /\ stored' = stored
      BY DEF Start
    <2>2. QED
      BY <2>1, NothingTypes, Names DEF Types, RecorderTypes, Stores, BufferFits
  <1>5. Reader' /\ Merged' /\ PlayPlaces'
    BY <1>1, <1>2 DEF Start, Types, Reader, Merged, PlayPlaces
  <1>6. QED
    BY <1>3, <1>4, <1>5 DEF Types, RecorderTypes

\* The playback leaves the recorder's types as they are.
LEMMA UnchangedRecorder ==
  ASSUME RecorderTypes, UNCHANGED recorderVars
  PROVE  RecorderTypes'
  <1>1. Counts' /\ Flags' /\ Places'
    BY DEF RecorderTypes, recorderVars, Counts, Flags, Places
  <1>2. Jobs' /\ Stores'
    BY DEF RecorderTypes, recorderVars, Jobs, JobFits, Stores, BufferFits
  <1>3. QED
    BY <1>1, <1>2 DEF RecorderTypes

\* The types, with the sizes of the buffers, are inductive.
THEOREM TypesInductive ==
  /\ Init => Types
  /\ Types /\ [Next]_vars => Types'
  /\ Types => TypeOK
  <1>1. ASSUME Init PROVE Types
    <2> USE <1>1 DEF Init, RecorderInit
    <2>1. Counts
      BY KnownSizes DEF Counts
    <2>2. Flags /\ Places
      BY DEF Flags, Places, Proc, Labels, Own
    <2>3. <<>> \in Seq(Item) /\ <<>> \in Seq(Seq(Item)) /\ <<>> \in Seq(Byte)
          /\ <<>> \in Seq(Control)
      OBVIOUS
    <2>4. Jobs
      <3>1. NoJob \in Job
        BY <2>3 DEF NoJob, Job, Buffers, Labels, Own
      <3>2. \A p \in Proc : pc[p] \notin Inside
        BY DEF Inside
      <3>3. QED
        BY <3>1, <3>2 DEF Jobs
    <2>5. Stores
      <3>1. stored = [b \in Buffers |-> <<>>] /\ <<>> \in Seq(Seq(Item))
            /\ \A b \in Buffers : <<>> \in Seq(Seq(Items(b)))
        OBVIOUS
      <3>2. /\ stored \in [Buffers -> Seq(Seq(Item))]
            /\ stored["recording"] \in Seq(Seq(Items("recording")))
            /\ stored["control"] \in Seq(Seq(Items("control")))
        BY <3>1, Names
      <3>3. QED
        BY <3>2, NothingTypes, Names DEF Stores, BufferFits
    <2>6. Reader /\ Merged /\ PlayPlaces
      <3>1. NoControl \in Control
        BY KnownSizes DEF NoControl, Control
      <3>2. Len(<<>>) <= ReadSize
        BY PlaybackAssumption
      <3>3. QED
        BY <3>1, <3>2 DEF Reader, Merged, PlayPlaces
    <2>7. QED
      BY <2>1, <2>2, <2>4, <2>5, <2>6 DEF Types, RecorderTypes
  <1>2. ASSUME Types, [Next]_vars PROVE Types'
    <2>1. RecorderTypes /\ Reader /\ Merged /\ PlayPlaces
      BY <1>2 DEF Types
    <2>2. due.offset \in Nat /\ Len(played) \in Nat
      BY <2>1, KnownSizes DEF Merged, Control
    <2>3. CASE RecorderNext /\ UNCHANGED playbackVars
      BY <2>1, <2>3, RecorderTypesStep
         DEF Types, playbackVars, Reader, Merged, PlayPlaces
    <2>4. CASE Start
      BY <1>2, <2>4, StartTypes
    <2>5. CASE Pop
      <3>1. controls # <<>> /\ controls \in Seq(Control)
        BY <2>1, <2>5 DEF Pop, Merged
      <3>2. Head(controls) \in Control /\ Tail(controls) \in Seq(Control)
        BY <3>1
      <3>3. Head(controls).offset \in Nat
        BY <3>2, KnownSizes DEF Control
      <3>4. Merged' /\ Reader' /\ PlayPlaces'
        BY <2>1, <2>2, <2>5, <3>2, <3>3 DEF Pop, Merged, Reader, PlayPlaces
      <3>5. QED
        BY <2>1, <2>5, <3>4, UnchangedRecorder DEF Pop, Types
    <2>6. CASE PopNone \/ SliceOutOfRange
      <3>0. controls' \in Seq(Control)
        <4>1. controls' = <<>> \/ controls' = controls
          BY <2>6 DEF PopNone, SliceOutOfRange
        <4>2. <<>> \in Seq(Control) /\ controls \in Seq(Control)
          BY <2>1 DEF Merged
        <4>3. QED
          BY <4>1, <4>2
      <3>1. Merged' /\ Reader' /\ PlayPlaces'
        BY <2>1, <2>6, <3>0 DEF PopNone, SliceOutOfRange, Merged, Reader, PlayPlaces
      <3>2. QED
        BY <2>1, <2>6, <3>1, UnchangedRecorder DEF PopNone, SliceOutOfRange, Types
    <2>7. CASE Skip
      <3>1. CASE BytesUntilControl > ReadSize
        <4>1. /\ Send(Read(ReadSize)) /\ play' \in {"upto", "skip"}
              /\ UNCHANGED <<recorderVars, controls, due, shown>>
          BY <2>7, <3>1 DEF Skip
        <4>2. /\ Reader' /\ played' \in Seq(Byte)
              /\ Len(played') <= Len(played) + ReadSize
              /\ Len(played') \in Nat
          BY <2>1, <4>1, SendTypes, PlaybackAssumption
        <4>3. Len(played') <= due.offset
          BY <2>2, <3>1, <4>2, PlaybackAssumption DEF BytesUntilControl
        <4>4. Merged' /\ PlayPlaces'
          BY <2>1, <4>1, <4>2, <4>3 DEF Merged, PlayPlaces
        <4>5. QED
          BY <2>1, <4>1, <4>2, <4>4, UnchangedRecorder DEF Types
      <3>2. CASE ~(BytesUntilControl > ReadSize)
        <4>1. Merged' /\ Reader' /\ PlayPlaces'
          BY <2>1, <2>7, <3>2 DEF Skip, Merged, Reader, PlayPlaces
        <4>2. QED
          BY <2>1, <2>7, <4>1, UnchangedRecorder DEF Skip, Types
      <3>3. QED
        BY <3>1, <3>2
    <2>8. CASE SendUpTo
      <3>1. PICK n \in Nat : n = BytesUntilControl
        BY <2>1, <2>2, <2>8 DEF SendUpTo, PlayPlaces, BytesUntilControl
      <3>2. Send(Read(n)) /\ play' = "pop" /\ UNCHANGED <<recorderVars, controls, due>>
        BY <2>8, <3>1 DEF SendUpTo, UpTo
      <3>3. Reader' /\ played' \in Seq(Byte) /\ Len(played') \in Nat
        BY <2>1, <3>2, SendTypes
      <3>4. PICK left \in BOOLEAN :
              shown' = Append(shown, [offset |-> due.offset, at |-> Len(played'),
                                      left |-> left])
        BY <2>8 DEF SendUpTo
      <3>5. [offset |-> due.offset, at |-> Len(played'), left |-> left]
              \in [offset : 0 .. MaxOutput, at : Nat, left : BOOLEAN]
        BY <2>1, <3>3 DEF Merged, Control
      <3>6. Merged' /\ PlayPlaces'
        BY <2>1, <3>2, <3>3, <3>4, <3>5 DEF Merged, PlayPlaces
      <3>7. QED
        BY <2>1, <3>2, <3>3, <3>6, UnchangedRecorder DEF Types
    <2>9. CASE Copy
      <3>1. /\ Send(Read(MaxOutput)) /\ play' \in {"done", "copy"}
            /\ UNCHANGED <<recorderVars, controls, due, shown>>
        BY <2>9 DEF Copy
      <3>2. Reader' /\ played' \in Seq(Byte)
        BY <2>1, <3>1, SendTypes, KnownSizes
      <3>3. Merged' /\ PlayPlaces'
        BY <2>1, <3>1, <3>2 DEF Merged, PlayPlaces
      <3>4. QED
        BY <2>1, <3>1, <3>2, <3>3, UnchangedRecorder DEF Types
    <2>10. CASE UNCHANGED vars
      <3>1. Merged' /\ Reader' /\ PlayPlaces'
        BY <2>1, <2>10 DEF vars, playbackVars, Merged, Reader, PlayPlaces
      <3>2. QED
        BY <2>1, <2>10, <3>1, UnchangedRecorder DEF vars, Types
    <2>11. QED
      BY <1>2, <2>3, <2>4, <2>5, <2>6, <2>7, <2>8, <2>9, <2>10
         DEF Next, PlaybackNext
  <1>3. ASSUME Types PROVE TypeOK
    <2>1. RecorderTypes /\ Reader /\ Merged /\ PlayPlaces
      BY <1>3 DEF Types
    <2>2. RecorderTypeOK
      <3>1. \A b \in Buffers : BufferFits(b)
        BY <2>1, Names DEF RecorderTypes, Stores
      <3>2. /\ pc["reader"] \in {"read", "resize", "flushRecording", "flushControl",
                                 "leaving", "done"} \union Inside
            /\ pc["writer"] \in {"select", "delay", "count", "flushControl",
                                 "flushRecording", "done"} \union Inside
        BY <2>1, Names DEF RecorderTypes, Places, Own
      <3>3. resizeAt \in 0 .. MaxOutput
        BY <2>1, KnownSizes DEF RecorderTypes, Counts
      <3>4. QED
        BY <2>1, <3>1, <3>2, <3>3
           DEF RecorderTypes, Counts, Flags, RecorderTypeOK, BufferFits
    <2>3. QED
      BY <2>1, <2>2 DEF Reader, Merged, PlayPlaces, TypeOK
  <1>4. QED
    BY <1>1, <1>2, <1>3

\* The types of SessionPlayback hold for messages, buffers and reads of any size.
THEOREM TypeCorrect == Spec => []TypeOK
  BY TypesInductive, PTL DEF Spec

-----------------------------------------------------------------------------
(* What is played                                                          *)

\* Before the playback nothing is read; from then on nothing is recorded, and
\* what was sent and what the reader has left are what is stored.
Following ==
  /\ play = "idle" => /\ played = <<>> /\ shown = <<>>
                      /\ output = <<>> /\ unzip = <<>> /\ docs = <<>>
  /\ play # "idle" => /\ Recorded
                      /\ StoredOutput = played \o Left(output, unzip, docs)
                      /\ Readable => <<>> \notin Range(docs)
  /\ play = "done" /\ Readable => output = <<>> /\ unzip = <<>> /\ docs = <<>>

\* A pair is a sequence of one and one more.
LEMMA AppendPair ==
  ASSUME NEW S, NEW x \in S, NEW y \in S
  PROVE  Append(<<x>>, y) = <<x, y>>
  <1>1. <<x>> \in Seq(S) /\ <<x, y>> \in Seq(S) /\ Append(<<x>>, y) \in Seq(S)
    OBVIOUS
  <1>2. Len(Append(<<x>>, y)) = Len(<<x, y>>)
    OBVIOUS
  <1>3. \A i \in 1 .. Len(Append(<<x>>, y)) : Append(<<x>>, y)[i] = <<x, y>>[i]
    OBVIOUS
  <1>4. QED
    BY <1>1, <1>2, <1>3, SeqEqual

\* Nothing is left to play.
LEMMA NothingLeft ==
  /\ Left(<<>>, <<>>, <<>>) = <<>>
  /\ FlattenSeq(<<<<>>, <<>>>> \o <<>>) = <<>>
  <1>1. <<>> \in Seq(Byte) /\ FlattenSeq(<<>>) = <<>>
        /\ <<>> \in Seq(Seq(Byte)) /\ <<<<>>>> \in Seq(Seq(Byte))
    BY DEF FlattenSeq
  <1>2. <<>> \o <<>> = <<>>
    OBVIOUS
  <1>3. FlattenSeq(<<<<>>>>) = <<>>
    <2>1. FlattenSeq(Append(<<>>, <<>>)) = FlattenSeq(<<>>) \o <<>>
      BY <1>1, FlattenAppend
    <2>2. Append(<<>>, <<>>) = <<<<>>>>
      BY <1>1
    <2>3. QED
      BY <1>1, <1>2, <2>1, <2>2
  <1>4. FlattenSeq(<<<<>>, <<>>>>) = <<>>
    <2>1. FlattenSeq(Append(<<<<>>>>, <<>>)) = FlattenSeq(<<<<>>>>) \o <<>>
      BY <1>1, FlattenAppend
    <2>2. Append(<<<<>>>>, <<>>) = <<<<>>, <<>>>>
      BY <1>1, AppendPair
    <2>3. QED
      BY <1>1, <1>2, <1>3, <2>1, <2>2
  <1>5. <<<<>>, <<>>>> \o <<>> = <<<<>>, <<>>>>
    <2>1. <<<<>>, <<>>>> \in Seq(Seq(Byte))
      BY <1>1
    <2>2. QED
      BY <2>1, ConcatEmptySeq
  <1>6. QED
    BY <1>1, <1>2, <1>4, <1>5 DEF Left

\* A call to the reader moves what it returns from what is left to what is sent.
LEMMA SendFollows ==
  ASSUME Reader, Merged, Following, play # "idle", NEW n \in Nat, Send(Read(n)),
         UNCHANGED recorderVars, play' \in {"skip", "upto", "pop", "copy", "done"},
         play' = "done" => Read(n).error
  PROVE  Following'
  <1>1. Recorded' /\ StoredOutput' = StoredOutput /\ (Readable' <=> Readable)
    BY DEF Following, recorderVars, Recorded, StoredOutput, Readable
  <1>2. StoredOutput' = played' \o Left(output', unzip', docs')
    <2>1. PICK data \in Seq(Byte), more \in Seq(Byte) :
            /\ data = Read(n).data
            /\ more = Left(Read(n).output, Read(n).unzip, Read(n).docs)
      <3>1. PICK o \in Seq(Byte), u \in Seq(Byte), f \in Seq(Byte) :
              o = Read(n).output /\ u = Read(n).unzip /\ f = FlattenSeq(Read(n).docs)
        BY ReadTypes, FlattenType
      <3>2. u \o f \in Seq(Byte)
        BY ConcatProperties
      <3>3. o \o (u \o f) \in Seq(Byte)
        BY <3>2, ConcatProperties
      <3>4. QED
        BY <3>1, <3>3, ReadTypes DEF Left
    <2>2. Left(output, unzip, docs) = data \o more
      BY <2>1, ReadKeeps
    <2>3. played' = played \o data /\ Left(output', unzip', docs') = more
      BY <2>1 DEF Send
    <2>4. PICK sent \in Seq(Byte) : sent = played
      BY DEF Merged
    <2>5. (sent \o data) \o more = sent \o (data \o more)
      BY ConcatAssociative, SMTT(20)
    <2>6. QED
      BY <1>1, <2>2, <2>3, <2>4, <2>5 DEF Following
  <1>3. Readable => <<>> \notin Range(docs')
    <2>1. docs' = docs \/ docs' = Tail(docs) \/ docs' = <<>>
      BY DEF Send, Read
    <2>2. docs = <<>> => docs' = docs \/ docs' = <<>>
      BY DEF Send, Read
    <2>3. CASE docs # <<>> /\ docs' = Tail(docs)
      <3>1. docs \in Seq(Seq(Byte)) /\ docs' \in Seq(Seq(Byte))
            /\ Len(docs) \in Nat /\ Len(docs') \in Nat
        BY <2>3 DEF Reader
      <3>2. \A i \in 1 .. Len(docs') : docs'[i] = docs[i + 1] /\ i + 1 \in 1 .. Len(docs)
        BY <2>3, <3>1
      <3>3. DOMAIN docs = 1 .. Len(docs) /\ DOMAIN docs' = 1 .. Len(docs')
        BY <3>1
      <3>4. QED
        BY <3>2, <3>3 DEF Following, Range
    <2>4. CASE docs' = <<>>
      BY <2>4 DEF Range
    <2>5. QED
      BY <2>1, <2>2, <2>3, <2>4 DEF Following
  <1>4. play' = "done" /\ Readable => output' = <<>> /\ unzip' = <<>> /\ docs' = <<>>
    <2>1. SUFFICES ASSUME Read(n).error, Readable
                   PROVE  output' = <<>> /\ unzip' = <<>> /\ docs' = <<>>
      OBVIOUS
    <2>2. docs # <<>> => Head(docs) # <<>>
      <3>1. ASSUME docs # <<>> PROVE Head(docs) \in Range(docs)
        BY <3>1 DEF Reader, Range
      <3>2. QED
        BY <2>1, <3>1 DEF Following
    <2>3. output = <<>> /\ unzip = <<>> /\ docs = <<>>
      BY <2>1, <2>2 DEF Read
    <2>4. QED
      BY <2>3 DEF Send, Read
  <1>5. QED
    BY <1>1, <1>2, <1>3, <1>4 DEF Following

\* When both goroutines have ended, nothing more is recorded.
LEMMA OverForGood == Recorded => ~RecorderNext
  <1>1. Recorded => \A p \in Proc : ~BufferNext(p)
    BY DEF Recorded, BufferNext, Count, FlushFull, CopyAgain, FlushEnds, FlushFails,
           Reset, Proc
  <1>2. QED
    BY <1>1 DEF Recorded, RecorderNext, RecordOutput, RecordDelay, CountOutput,
       StopShell, WriterEnds, WriterFlushes, TakeResize, RecordResize, ReaderEnds,
       ReaderFlushes, ReaderReturns

\* What was sent and what is left are what is stored, at every step.
THEOREM FollowingInductive ==
  /\ Init => Following
  /\ Types /\ Following /\ [Next]_vars => Following'
  <1>1. ASSUME Init PROVE Following
    BY <1>1 DEF Init, Following
  <1>2. ASSUME Types, Following, [Next]_vars PROVE Following'
    <2>1. Reader /\ Merged /\ RecorderTypes
      BY <1>2 DEF Types
    <2>2. ASSUME RecorderNext, UNCHANGED playbackVars PROVE Following'
      <3>1. play = "idle" \/ ~RecorderNext
        BY <1>2, OverForGood DEF Following
      <3>2. QED
        BY <1>2, <2>2, <3>1 DEF Following, playbackVars
    <2>3. CASE Start
      <3>1. /\ Recorded' /\ StoredOutput' = StoredOutput
            /\ (Readable' <=> Readable) /\ docs' = stored["recording"]
            /\ play' = "pop" /\ play = "idle"
            /\ UNCHANGED <<played, output, unzip>>
        BY <2>3 DEF Start, Recorded, StoredOutput, Readable
      <3>2. Following' <=> StoredOutput = <<>> \o (<<>> \o (<<>> \o StoredOutput))
        BY <1>2, <3>1 DEF Following, Left, Readable, StoredOutput
      <3>3. StoredOutput \in Seq(Byte)
        BY <2>1, FlattenType DEF RecorderTypes, Stores, BufferFits, Items, StoredOutput
      <3>4. QED
        BY <3>2, <3>3
    <2>4. ASSUME UNCHANGED recorderVars, UNCHANGED <<played, output, unzip, docs>>,
                 play # "idle", play' \notin {"idle", "done"}
          PROVE  Following'
      BY <1>2, <2>4 DEF Following, recorderVars, Recorded, StoredOutput, Readable
    <2>5. CASE Pop \/ PopNone \/ SliceOutOfRange
      BY <2>4, <2>5 DEF Pop, PopNone, SliceOutOfRange
    <2>6. CASE Skip
      <3>1. CASE BytesUntilControl > ReadSize
        <4>1. /\ Send(Read(ReadSize)) /\ play' \in {"upto", "skip"} /\ play # "idle"
              /\ UNCHANGED recorderVars /\ ReadSize \in Nat
          BY <2>6, <3>1, PlaybackAssumption DEF Skip
        <4>2. QED
          BY <1>2, <2>1, <4>1, SendFollows
      <3>2. CASE ~(BytesUntilControl > ReadSize)
        BY <2>4, <2>6, <3>2 DEF Skip
      <3>3. QED
        BY <3>1, <3>2
    <2>7. CASE SendUpTo
      <3>1. PICK n \in Nat : n = BytesUntilControl
        BY <1>2, <2>1, <2>7, KnownSizes
           DEF SendUpTo, Types, PlayPlaces, BytesUntilControl, Merged, Control
      <3>2. Send(Read(n)) /\ play' = "pop" /\ play = "upto" /\ UNCHANGED recorderVars
        BY <2>7, <3>1 DEF SendUpTo, UpTo
      <3>3. QED
        BY <1>2, <2>1, <3>2, SendFollows
    <2>8. CASE Copy
      <3>1. /\ Send(Read(MaxOutput)) /\ play' \in {"done", "copy"}
            /\ play' = "done" => Read(MaxOutput).error
            /\ play = "copy" /\ UNCHANGED recorderVars
        BY <2>8 DEF Copy
      <3>2. QED
        BY <1>2, <2>1, <3>1, SendFollows, KnownSizes
    <2>9. CASE UNCHANGED vars
      BY <1>2, <2>9 DEF vars, playbackVars, recorderVars, Following, Recorded,
                        StoredOutput, Readable
    <2>10. QED
      BY <1>2, <2>2, <2>3, <2>5, <2>6, <2>7, <2>8, <2>9 DEF Next, PlaybackNext
  <1>3. QED
    BY <1>1, <1>2

\* A sequence begins what it is concatenated to.
LEMMA PrefixOfConcat ==
  ASSUME NEW S, NEW s \in Seq(S), NEW t \in Seq(S)
  PROVE  IsPrefix(s, s \o t)
  <1>1. Len(s) \in Nat /\ Len(s \o t) = Len(s) + Len(t) /\ Len(t) \in Nat
    OBVIOUS
  <1>2. SubSeq(s \o t, 1, Len(s)) = SubSeq(s, 1, Len(s))
    <2>1. CASE s = <<>>
      <3>1. Len(s) < 1
        BY <2>1
      <3>2. SubSeq(s \o t, 1, Len(s)) = <<>> /\ SubSeq(s, 1, Len(s)) = <<>>
        BY <3>1, <1>1, SubSeqEmpty
      <3>3. QED
        BY <3>2
    <2>2. CASE s # <<>>
      <3>1. 1 \in 1 .. Len(s) /\ Len(s) \in 1 .. Len(s)
        BY <2>2
      <3>2. QED
        BY <3>1, SubSeqOfConcat1
    <2>3. QED
      BY <2>1, <2>2
  <1>3. QED
    BY <1>1, <1>2 DEF IsPrefix

\* The playback sends what is stored, in its order, without a gap or a
\* repetition, and all of it if it ends by itself and every document is readable.
THEOREM PlayedIsStoredHolds == Spec => []PlayedIsStored
  <1>1. ASSUME Types, Following PROVE PlayedIsStored
    <2>1. PICK done \in Seq(Byte) : done = played
      BY <1>1 DEF Types, Merged
    <2>2. PICK all \in Seq(Byte) : all = StoredOutput
      BY <1>1, FlattenType
         DEF Types, RecorderTypes, Stores, BufferFits, Items, StoredOutput
    <2>3. CASE play = "idle"
      <3>1. played = <<>> /\ <<>> \o all = all
        BY <1>1, <2>3 DEF Following
      <3>2. IsPrefix(done, <<>> \o all)
        BY <2>1, <3>1, PrefixOfConcat
      <3>3. QED
        BY <2>1, <2>2, <2>3, <3>1, <3>2 DEF PlayedIsStored
    <2>4. CASE play # "idle"
      <3>1. PICK o \in Seq(Byte), u \in Seq(Byte), f \in Seq(Byte) :
              o = output /\ u = unzip /\ f = FlattenSeq(docs)
        BY <1>1, FlattenType DEF Types, Reader
      <3>2. u \o f \in Seq(Byte)
        BY ConcatProperties
      <3>3. PICK more \in Seq(Byte) : more = o \o (u \o f)
        BY <3>2, ConcatProperties
      <3>4. all = done \o more
        BY <1>1, <2>1, <2>2, <2>4, <3>1, <3>3 DEF Following, Left
      <3>5. IsPrefix(done, all)
        BY <3>4, PrefixOfConcat
      <3>6. ASSUME play = "done", Readable PROVE done = all
        <4>1. Left(output, unzip, docs) = <<>>
          BY <1>1, <3>6, NothingLeft DEF Following
        <4>2. more = <<>>
          BY <3>1, <3>3, <4>1 DEF Left
        <4>3. done \o <<>> = done
          OBVIOUS
        <4>4. QED
          BY <3>4, <4>2, <4>3
      <3>7. QED
        BY <2>1, <2>2, <3>5, <3>6 DEF PlayedIsStored
    <2>5. QED
      BY <2>3, <2>4
  <1>2. QED
    BY <1>1, TypesInductive, FollowingInductive, PTL DEF Spec

\* A call to the reader returns something, unless nothing is left.
LEMMA ReadReturns ==
  ASSUME Reader, NEW n \in Nat, n > 0, docs # <<>> => Head(docs) # <<>>
  PROVE  \/ Len(Read(n).data) > 0
         \/ Read(n).output = <<>> /\ Read(n).unzip = <<>> /\ Read(n).docs = <<>>
  <1>0. ReadSize \in Nat /\ ReadSize > 0
    BY PlaybackAssumption
  <1>1. ASSUME NEW s \in Seq(Byte), s # <<>> PROVE Len(First(s, n)) > 0
    <2>1. First(s, n) # <<>> /\ First(s, n) \in Seq(Byte)
      BY <1>1, FirstAndRest
    <2>2. QED
      BY <2>1, EmptySeq
  <1>2. ASSUME NEW s \in Seq(Byte), s # <<>> PROVE Len(First(Fresh(s), n)) > 0
    <2>1. Fresh(s) # <<>> /\ Fresh(s) \in Seq(Byte)
      BY <1>0, <1>2, FirstAndRest DEF Fresh
    <2>2. QED
      BY <1>1, <2>1
  <1>3. CASE output # <<>>
    BY <1>1, <1>3 DEF Reader, Read
  <1>4. CASE output = <<>> /\ unzip # <<>>
    BY <1>2, <1>4 DEF Reader, Read
  <1>5. CASE output = <<>> /\ unzip = <<>> /\ docs # <<>>
    <2>1. Head(docs) \in Seq(Byte)
      BY <1>5 DEF Reader
    <2>2. QED
      BY <1>2, <1>5, <2>1 DEF Read
  <1>6. CASE output = <<>> /\ unzip = <<>> /\ docs = <<>>
    BY <1>6 DEF Read
  <1>7. QED
    BY <1>3, <1>4, <1>5, <1>6

\* The message is sent when less than a read is left before its offset.
LEMMA SendUpToInTime ==
  ASSUME Types, Following, ControlsInTime, SendUpTo
  PROVE  ControlsInTime'
  <1>1. Reader /\ Merged
    BY DEF Types
  <1>2. due.offset \in Nat /\ Len(played) \in Nat /\ ReadSize \in Nat /\ ReadSize > 0
    BY <1>1, KnownSizes, PlaybackAssumption DEF Merged, Control
  <1>3. PICK n \in Nat : n = due.offset - Len(played) /\ n <= ReadSize
                         /\ n = BytesUntilControl
    BY <1>2 DEF SendUpTo, Types, PlayPlaces, BytesUntilControl
  <1>4. Send(Read(n)) /\ UNCHANGED recorderVars
    BY <1>3 DEF SendUpTo, UpTo
  <1>5. PICK left :
          /\ left = (FlattenSeq(<<output', unzip'>> \o docs') # <<>>)
          /\ shown' = Append(shown, [offset |-> due.offset, at |-> Len(played'),
                                     left |-> left])
    BY DEF SendUpTo
  <1>6. PICK k \in Nat : k = Len(Read(n).data) /\ Len(played') = Len(played) + k
                         /\ k <= n
    BY <1>1, <1>4, SendTypes, ReadTypes
  <1>7. Readable' <=> Readable
    BY <1>4 DEF Readable, recorderVars
  <1>8. ASSUME left, Readable PROVE n - k < ReadSize
    <2>1. docs # <<>> => Head(docs) # <<>>
      <3>1. ASSUME docs # <<>> PROVE Head(docs) \in Range(docs)
        <4>1. 1 \in DOMAIN docs /\ Head(docs) = docs[1]
          BY <1>1, <3>1 DEF Reader
        <4>2. QED
          BY <4>1 DEF Range
      <3>2. QED
        BY <1>8, <3>1 DEF Following, SendUpTo
    <2>2. ~(output' = <<>> /\ unzip' = <<>> /\ docs' = <<>>)
      BY <1>5, <1>8, NothingLeft
    <2>3. n > 0 => k > 0
      BY <1>1, <1>4, <1>6, <2>1, <2>2, ReadReturns DEF Send
    <2>4. QED
      BY <1>2, <1>3, <2>3
  <1>9. PICK m \in Nat : m = Len(shown) /\ DOMAIN shown = 1 .. m
    BY <1>1 DEF Merged
  <1>10. /\ DOMAIN shown' = 1 .. m + 1
         /\ \A i \in 1 .. m : shown'[i] = shown[i]
         /\ shown'[m + 1] = [offset |-> due.offset, at |-> Len(played'),
                             left |-> left]
    BY <1>1, <1>5, <1>9 DEF Merged
  <1>11. ASSUME NEW i \in 1 .. m + 1
         PROVE  /\ shown'[i].at <= shown'[i].offset
                /\ shown'[i].left /\ Readable => shown'[i].offset - shown'[i].at < ReadSize
    <2>1. CASE i \in 1 .. m
      BY <1>9, <1>10, <2>1 DEF ControlsInTime
    <2>2. CASE i = m + 1
      <3>1. shown'[i].at = Len(played) + k /\ shown'[i].offset = due.offset
            /\ shown'[i].left = left
        BY <1>6, <1>10, <2>2
      <3>2. due.offset - (Len(played) + k) = n - k
        BY <1>2, <1>3
      <3>3. Len(played) + k <= due.offset
        BY <1>2, <1>3, <1>6
      <3>4. QED
        BY <1>8, <3>1, <3>2, <3>3
    <2>3. QED
      BY <2>1, <2>2
  <1>12. QED
    BY <1>7, <1>10, <1>11 DEF ControlsInTime

\* A control message is sent before the output it belongs to, and less than a
\* read buffer early: recordingReader.Read may return less than asked for.
THEOREM ControlsInTimeHolds == Spec => []ControlsInTime
  <1>1. ASSUME Init PROVE ControlsInTime
    BY <1>1 DEF Init, ControlsInTime
  <1>2. ASSUME Types, Following, ControlsInTime, [Next]_vars PROVE ControlsInTime'
    <2>1. CASE SendUpTo
      BY <1>2, <2>1, SendUpToInTime
    <2>2. CASE play = "idle" /\ shown' = shown
      BY <1>2, <2>2 DEF Following, ControlsInTime
    <2>3. CASE shown' = shown /\ UNCHANGED recorderVars
      BY <1>2, <2>3 DEF ControlsInTime, Readable, recorderVars
    <2>4. RecorderNext => play = "idle"
      BY <1>2, OverForGood DEF Following
    <2>5. QED
      BY <1>2, <2>1, <2>2, <2>3, <2>4
         DEF Next, PlaybackNext, playbackVars, vars, Start, Pop, PopNone, Skip,
             SliceOutOfRange, Copy
  <1>3. QED
    BY <1>1, <1>2, TypesInductive, FollowingInductive, PTL DEF Spec

-----------------------------------------------------------------------------
(* The calls of bufio, buffer by buffer                                    *)

\* What a goroutine is doing to a buffer, and has in hand.
Idle == [at |-> "idle", data |-> <<>>, todo |-> <<>>]

Call(p, b) ==
  IF In(p, Inside, b)
    THEN [at |-> pc[p], data |-> job[p].data, todo |-> job[p].todo]
    ELSE Idle

Stays(q) == pc'[q] = pc[q] /\ job'[q] = job[q]

\* The writer is on its way to counting the message it has recorded.
Handling == Toward("writer", {"delay", "count"})

Message == ~Handling => body = 0

\* All of the output that was handed to the recording.
Bound == recordedBytes + body

\* A goroutine starts to write, or goes on writing, these items.
Given(p, b, items) ==
  /\ recordedBytes' = recordedBytes
  /\ \/ /\ Call(p, b).at = "again"
        /\ items = Call(p, b).todo
        /\ body' = body
     \/ /\ Call(p, b).at = "idle" /\ p = "writer" /\ b = "recording"
        /\ body = 0 /\ body' \in Nat
        /\ items = [i \in 1 .. body' |-> recordedBytes + i - 1]
     \/ /\ Call(p, b).at = "idle" /\ p = "writer" /\ b = "control"
        /\ items = <<[type |-> "delay", offset |-> recordedBytes]>>
        /\ body' = body
     \/ /\ Call(p, b).at = "idle" /\ p = "reader" /\ b = "control"
        /\ items = <<[type |-> "resize", offset |-> resizeAt]>>
        /\ body' = body

Overlaps(p, b, labels) ==
  overlapped'[b] = (overlapped[b] \/ Call(Other(p), b).at \in labels)

Lates(p, b) == late' = (late \/ (p = "writer" /\ b = "recording" /\ ReaderEnding))

Piece(b, items) == First(items, Room(b))

Copies(p, b, items) ==
  /\ Given(p, b, items) /\ ~err[b]
  /\ Call(p, b)' = [at |-> "copied", data |-> Piece(b, items),
                    todo |-> Rest(items, Room(b))]
  /\ mem'[b] = [i \in 1 .. BufferSize[b] |->
                  IF i \in fill[b] + 1 .. fill[b] + Len(Piece(b, items))
                    THEN Piece(b, items)[i - fill[b]] ELSE mem[b][i]]
  /\ fill'[b] = fill[b] /\ err'[b] = err[b] /\ stored'[b] = stored[b]
  /\ Overlaps(p, b, {"copied", "reset"}) /\ Lates(p, b) /\ faulted' = faulted

Same(b) ==
  /\ mem'[b] = mem[b] /\ fill'[b] = fill[b] /\ err'[b] = err[b]
  /\ stored'[b] = stored[b]

\* It goes on with what it has to write, or returns.
Returns(p, b, label) ==
  /\ Call(p, b)' = IF Call(p, b).todo # <<>>
                     THEN [at |-> label, data |-> <<>>, todo |-> Call(p, b).todo]
                     ELSE Idle
  /\ UNCHANGED <<recordedBytes, body>>

Adds(p, b) ==
  /\ Call(p, b).at = "copied"
  /\ \/ /\ fill[b] + Len(Call(p, b).data) <= BufferSize[b]
        /\ fill'[b] = fill[b] + Len(Call(p, b).data) /\ err'[b] = err[b]
     \/ /\ fill[b] + Len(Call(p, b).data) > BufferSize[b]
        /\ fill'[b] = fill[b] /\ err'[b] = TRUE
     \/ /\ Call(Other(p), b).at = "copied"
        /\ fill'[b] = fill[b] /\ err'[b] = err[b]
  /\ mem'[b] = mem[b] /\ stored'[b] = stored[b]
  /\ Returns(p, b, "full")
  /\ Overlaps(p, b, {"copied", "reset"}) /\ Lates(p, b) /\ faulted' = faulted

\* It gives up because of an error, or goes on because there is nothing to flush.
Passes(p, b) ==
  /\ Call(p, b).at \in {"full", "again"}
  /\ \/ err[b] /\ Call(p, b)' = Idle /\ UNCHANGED <<recordedBytes, body>>
     \/ ~err[b] /\ fill[b] = 0 /\ Returns(p, b, "again")
  /\ Same(b) /\ overlapped'[b] = overlapped[b]
  /\ UNCHANGED <<late, faulted>>

Hands(p, b) ==
  /\ Call(p, b).at \in {"idle", "full"} /\ ~err[b] /\ fill[b] > 0
  /\ Call(p, b)' = [at |-> "flush", data |-> SubSeq(mem[b], 1, fill[b]),
                    todo |-> Call(p, b).todo]
  /\ Same(b) /\ Overlaps(p, b, {"flush", "reset"})
  /\ UNCHANGED <<recordedBytes, body, late, faulted>>

\* What a recorder stores.
Doc(p, b, doc) ==
  \/ doc = Call(p, b).data
  \/ doc = SubSeq(mem[b], 1, Len(Call(p, b).data))
  \/ doc = <<>> /\ Call(Other(p), b).at = "flush"

Puts(p, b) ==
  /\ Call(p, b).at = "flush"
  /\ \E doc \in Seq(Items(b)) :
       Doc(p, b, doc) /\ stored'[b] = Append(stored[b], doc)
  /\ \/ /\ Len(Call(p, b).data) < fill[b]
        /\ err'[b] = TRUE /\ Call(p, b)' = Idle
     \/ /\ ~(Len(Call(p, b).data) < fill[b])
        /\ mem'[b] = mem[b] /\ fill'[b] = fill[b] /\ err'[b] = err[b]
        /\ Call(p, b)' = [at |-> "reset", data |-> <<>>, todo |-> Call(p, b).todo]
  /\ overlapped'[b] = overlapped[b]
  /\ UNCHANGED <<recordedBytes, body, late, faulted>>

Fails(p, b) ==
  /\ Call(p, b).at = "flush"
  /\ \/ stored'[b] = stored[b]
     \/ \E doc \in Seq(Items(b)) :
          Doc(p, b, doc) /\ stored'[b] = Append(stored[b], doc)
  /\ mem'[b] = mem[b] /\ fill'[b] = fill[b] /\ err'[b] = TRUE
  /\ Call(p, b)' = Idle /\ overlapped'[b] = overlapped[b]
  /\ faulted' \/ (pc["reader"] = "done" /\ p = "writer" /\ faulted' = faulted)
  /\ UNCHANGED <<recordedBytes, body, late>>

Empties(p, b) ==
  /\ Call(p, b).at = "reset"
  /\ fill'[b] = 0 \/ (Call(Other(p), b).at = "copied" /\ fill'[b] = fill[b])
  /\ mem'[b] = mem[b] /\ err'[b] = err[b] /\ stored'[b] = stored[b]
  /\ Returns(p, b, "again")
  /\ Overlaps(p, b, {"copied", "reset"}) /\ UNCHANGED <<late, faulted>>

\* The reader has flushed the recording for the last time.
Past ==
  /\ Toward("reader", {"flushControl", "leaving", "done"})
  /\ Call("reader", "recording") = Idle

\* Nothing happens to a buffer.
Elsewhere(b) ==
  /\ Same(b) /\ overlapped'[b] = overlapped[b]
  /\ \A p \in Proc : Call(p, b)' = Call(p, b)
  /\ b = "recording" => Bound' = Bound \/ err[b]
  /\ recordedBytes' >= recordedBytes
  /\ recordedBytes' = recordedBytes \/ Call("writer", b) = Idle
  /\ late => late'
  /\ faulted => faulted'
  /\ b = "recording" /\ Past' => Past \/ err[b] \/ fill[b] = 0

\* What a call does to its buffer.
Calls(p, b) ==
  /\ \/ \E items \in Seq(Items(b)) : Copies(p, b, items)
     \/ Adds(p, b) \/ Passes(p, b) \/ Hands(p, b) \/ Puts(p, b) \/ Fails(p, b)
     \/ Empties(p, b)
  /\ Call(Other(p), b)' = Call(Other(p), b)
  /\ Stays(Other(p))

\* A call as its buffer sees it.
LEMMA CallIs ==
  ASSUME NEW p \in Proc, NEW b \in Buffers
  PROVE  /\ In(p, Inside, b) =>
              /\ Call(p, b).at = pc[p] /\ Call(p, b).data = job[p].data
              /\ Call(p, b).todo = job[p].todo
              /\ \A c \in Buffers : c # b => Call(p, c) = Idle
         /\ pc[p] \notin Inside => Call(p, b) = Idle
         /\ ~In(p, Inside, b) => Call(p, b) = Idle
         /\ Idle.at = "idle" /\ Idle.data = <<>> /\ Idle.todo = <<>>
  BY DEF Call, In, Idle

\* Where a goroutine is in a call on a buffer.
LEMMA InCall ==
  ASSUME NEW p \in Proc, NEW b \in Buffers, NEW labels \in SUBSET Inside
  PROVE  In(p, labels, b) <=> Call(p, b).at \in labels
  BY DEF Call, In, Idle, Inside

\* A goroutine that does not move is in the same call.
LEMMA OtherStays ==
  ASSUME NEW q \in Proc, Stays(q)
  PROVE  \A b \in Buffers : Call(q, b)' = Call(q, b)
  BY DEF Call, In, Stays

\* A goroutine enters, goes on in or leaves a call.
LEMMA EnterCall ==
  ASSUME Places, Jobs, NEW p \in Proc, NEW label \in Inside, NEW b \in Buffers,
         NEW data, NEW todo, NEW after, Enter(p, label, b, data, todo, after)
  PROVE  /\ Call(p, b)' = [at |-> label, data |-> data, todo |-> todo]
         /\ \A c \in Buffers : c # b => Call(p, c)' = Idle
         /\ Stays(Other(p))
         /\ pc'[p] = label /\ job'[p].buffer = b /\ job'[p].after = after
  <1>1. /\ pc'[p] = label
        /\ job'[p] = [buffer |-> b, data |-> data, todo |-> todo, after |-> after]
        /\ Stays(Other(p))
    BY Names DEF Enter, Goto, Places, Jobs, Stays
  <1>2. QED
    BY <1>1 DEF Call, In, Idle

\* ... leaves it, ...
LEMMA LeaveCall ==
  ASSUME Places, Jobs, NEW p \in Proc, NEW after, after \notin Inside, Leave(p, after)
  PROVE  /\ \A c \in Buffers : Call(p, c)' = Idle
         /\ Stays(Other(p))
         /\ pc'[p] = after
  <1>1. pc'[p] = after /\ Stays(Other(p))
    BY Names DEF Leave, Goto, Places, Jobs, Stays
  <1>2. QED
    BY <1>1 DEF Call, In, Idle

\* ... or goes on with what it has to write.
LEMMA GoOnCall ==
  ASSUME Places, Jobs, NEW p \in Proc, NEW label \in Inside, NEW b \in Buffers,
         NEW todo, NEW after, after \notin Inside, GoOn(p, label, b, todo, after)
  PROVE  /\ Call(p, b)' = IF todo # <<>>
                            THEN [at |-> label, data |-> <<>>, todo |-> todo]
                            ELSE Idle
         /\ \A c \in Buffers : c # b => Call(p, c)' = Idle
         /\ Stays(Other(p))
  BY EnterCall, LeaveCall DEF GoOn

\* What a step of a goroutine leaves alone that is about another buffer.
Apart(p, c) ==
  /\ \A d \in Buffers : d # c =>
       Same(d) /\ overlapped'[d] = overlapped[d] /\ Call(p, d)' = Call(p, d)
  /\ Stays(Other(p))
  /\ \A d \in Buffers : Call(Other(p), d)' = Call(Other(p), d)

\* Where a call returns to stays what it is.
Heads(p, after) ==
  \/ pc'[p] = after /\ after \notin Inside
  \/ pc'[p] \in Inside /\ job'[p].after = after

\* A step of a call on one buffer does nothing to the other.
LEMMA ApartElsewhere ==
  ASSUME NEW p \in Proc, NEW c \in Buffers, Apart(p, c),
         NEW d \in Buffers, d # c,
         recordedBytes' = recordedBytes, body' = body \/ d = "control",
         recordedBytes \in Nat,
         late => late', faulted => faulted', d = "recording" /\ Past' => Past
  PROVE  Elsewhere(d)
  <1>1. \A q \in Proc : Call(q, d)' = Call(q, d)
    BY Names DEF Apart
  <1>2. /\ Same(d) /\ overlapped'[d] = overlapped[d]
    BY DEF Apart
  <1>3. d = "recording" => Bound' = Bound
    BY DEF Bound
  <1>4. recordedBytes' >= recordedBytes
    OBVIOUS
  <1>5. QED
    BY <1>1, <1>2, <1>3, <1>4 DEF Elsewhere

\* A goroutine in a call stays on its way.
LEMMA TowardKept ==
  ASSUME NEW p \in Proc, pc[p] \in Inside, NEW after, after = job[p].after,
         after \notin Inside,
         Heads(p, after), Stays(Other(p)), NEW labels, labels \cap Inside = {},
         NEW q \in Proc
  PROVE  Toward(q, labels)' <=> Toward(q, labels)
  <1>1. CASE q = p
    BY <1>1 DEF Toward, Heads
  <1>2. CASE q = Other(p)
    BY <1>2 DEF Toward, Stays
  <1>3. QED
    BY <1>1, <1>2, Names

\* A call on another buffer does not bring the reader past its flush.
LEMMA PastKept ==
  ASSUME NEW p \in Proc, pc[p] \in Inside, NEW after, after = job[p].after,
         after \notin Inside, Heads(p, after), NEW c \in Buffers, Apart(p, c),
         c # "recording"
  PROVE  Past' => Past
  <1>1. {"flushControl", "leaving", "done"} \cap Inside = {}
    BY DEF Inside
  <1>2. /\ Toward("reader", {"flushControl", "leaving", "done"})'
             <=> Toward("reader", {"flushControl", "leaving", "done"})
    BY <1>1, TowardKept, Names DEF Apart
  <1>3. Call("reader", "recording")' = Call("reader", "recording")
    BY Names DEF Apart
  <1>4. QED
    BY <1>2, <1>3 DEF Past

\* What a copy does, ...
LEMMA CopyInShape ==
  ASSUME RecorderTypes, NEW p \in Proc, NEW c \in Buffers,
         NEW items \in Seq(Items(c)),
         NEW after \in FlushTo(p, c), CopyIn(p, c, items, after),
         Given(p, c, items),
         UNCHANGED <<fill, err, stored, faulted>>,
         \A d \in Buffers : d # c => Call(p, d) = Idle
  PROVE  /\ \/ err[c] /\ Call(p, c)' = Idle /\ Same(c) /\ late' = late
               /\ overlapped'[c] = overlapped[c]
            \/ Copies(p, c, items)
         /\ Apart(p, c) /\ (late => late')
         /\ Heads(p, after)
  <1>0. after \notin Inside
    BY FlushToType, OwnType
  <1>1. Places /\ Jobs /\ Stores /\ Flags
    BY DEF RecorderTypes
  <1>2. CASE err[c]
    <2>1. Leave(p, after) /\ UNCHANGED <<mem, overlapped, late>>
      BY <1>2 DEF CopyIn
    <2>2. /\ \A d \in Buffers : Call(p, d)' = Idle
          /\ Stays(Other(p)) /\ pc'[p] = after
      BY <1>0, <1>1, <2>1, LeaveCall
    <2>3. Apart(p, c)
      BY <2>1, <2>2, OtherStays, Names DEF Apart, Same
    <2>4. QED
      BY <1>0, <1>2, <2>1, <2>2, <2>3 DEF Same, Heads
  <1>3. CASE ~err[c]
    <2> DEFINE now == First(items, Room(c))
               m == [i \in 1 .. BufferSize[c] |->
                       IF i \in fill[c] + 1 .. fill[c] + Len(now)
                         THEN now[i - fill[c]] ELSE mem[c][i]]
    <2>1. /\ mem' = [mem EXCEPT ![c] = m]
          /\ Enter(p, "copied", c, now, Rest(items, Room(c)), after)
          /\ NoteOverlap(p, c) /\ NoteLate(p, c)
      BY <1>3 DEF CopyIn
    <2> HIDE DEF m
    <2>2. /\ Call(p, c)' = [at |-> "copied", data |-> now,
                            todo |-> Rest(items, Room(c))]
          /\ \A d \in Buffers : d # c => Call(p, d)' = Idle
          /\ Stays(Other(p))
          /\ pc'[p] = "copied" /\ job'[p].after = after
      BY <1>1, <2>1, EnterCall DEF Inside
    <2>3. /\ mem'[c] = m /\ \A d \in Buffers : d # c => mem'[d] = mem[d]
      BY <1>1, <2>1 DEF Stores
    <2>4. /\ Overlaps(p, c, {"copied", "reset"})
          /\ \A d \in Buffers : d # c => overlapped'[d] = overlapped[d]
      <3>1. In(Other(p), {"copied", "reset"}, c)
              <=> Call(Other(p), c).at \in {"copied", "reset"}
        BY InCall, Names DEF Inside
      <3>2. QED
        BY <1>1, <2>1, <3>1 DEF NoteOverlap, Overlaps, Flags
    <2>5. Apart(p, c)
      BY <2>2, <2>3, <2>4, OtherStays, Names DEF Apart, Same
    <2>6. Lates(p, c) /\ (late => late')
      BY <2>1 DEF NoteLate, Lates
    <2>7. Copies(p, c, items)
      BY <1>3, <2>2, <2>3, <2>4, <2>6 DEF Copies, Piece, m
    <2>8. Heads(p, after)
      BY <2>2 DEF Heads, Inside
    <2>9. QED
      BY <2>5, <2>6, <2>7, <2>8
  <1>4. QED
    BY <1>2, <1>3

\* ... and a flush.
LEMMA FlushShape ==
  ASSUME RecorderTypes, NEW p \in Proc, NEW c \in Buffers,
         NEW todo, todo = Call(p, c).todo,
         NEW after \in FlushTo(p, c), Flush(p, c, todo, after),
         UNCHANGED <<recordedBytes, body, mem, fill, err, stored, late, faulted>>,
         Call(p, c).at \in {"idle", "full"},
         \A d \in Buffers : d # c => Call(p, d) = Idle
  PROVE  /\ \/ /\ err[c] /\ Call(p, c)' = Idle /\ Same(c)
               /\ overlapped'[c] = overlapped[c]
            \/ /\ ~err[c] /\ fill[c] = 0 /\ Returns(p, c, "again") /\ Same(c)
               /\ overlapped'[c] = overlapped[c]
            \/ Hands(p, c)
         /\ Apart(p, c)
         /\ Heads(p, after)
  <1>0. after \notin Inside
    BY FlushToType, OwnType
  <1>1. Places /\ Jobs /\ Stores /\ Flags
    BY DEF RecorderTypes
  <1>2. \A d \in Buffers : Same(d)
    BY DEF Same
  <1>3. CASE err[c]
    <2>1. Leave(p, after) /\ UNCHANGED overlapped
      BY <1>3 DEF Flush
    <2>2. /\ \A d \in Buffers : Call(p, d)' = Idle
          /\ Stays(Other(p)) /\ pc'[p] = after
      BY <1>0, <1>1, <2>1, LeaveCall
    <2>3. Apart(p, c)
      BY <1>2, <2>1, <2>2, OtherStays, Names DEF Apart
    <2>4. QED
      BY <1>0, <1>2, <1>3, <2>1, <2>2, <2>3 DEF Heads
  <1>4. CASE ~err[c] /\ fill[c] = 0
    <2>1. GoOn(p, "again", c, todo, after) /\ UNCHANGED overlapped
      BY <1>4 DEF Flush
    <2>2. /\ Call(p, c)' = IF todo # <<>>
                             THEN [at |-> "again", data |-> <<>>, todo |-> todo]
                             ELSE Idle
          /\ \A d \in Buffers : d # c => Call(p, d)' = Idle
          /\ Stays(Other(p))
      BY <1>0, <1>1, <2>1, GoOnCall DEF Inside
    <2>3. Apart(p, c)
      BY <1>2, <2>1, <2>2, OtherStays, Names DEF Apart
    <2>4. Heads(p, after)
      BY <1>0, <1>1, <2>1, EnterCall, LeaveCall DEF GoOn, Heads, Inside
    <2>5. QED
      BY <1>2, <1>4, <2>1, <2>2, <2>3, <2>4 DEF Returns
  <1>5. CASE ~err[c] /\ fill[c] # 0
    <2>1. /\ Enter(p, "flush", c, SubSeq(mem[c], 1, fill[c]), todo, after)
          /\ overlapped' = [overlapped EXCEPT ![c] =
                              @ \/ In(Other(p), {"flush", "reset"}, c)]
      BY <1>5 DEF Flush
    <2>2. /\ Call(p, c)' = [at |-> "flush", data |-> SubSeq(mem[c], 1, fill[c]),
                            todo |-> todo]
          /\ \A d \in Buffers : d # c => Call(p, d)' = Idle
          /\ Stays(Other(p))
          /\ pc'[p] = "flush" /\ job'[p].after = after
      <3>1. PICK data : data = SubSeq(mem[c], 1, fill[c])
        OBVIOUS
      <3>2. "flush" \in Inside /\ Enter(p, "flush", c, data, todo, after)
        BY <2>1, <3>1 DEF Inside
      <3>3. /\ Call(p, c)' = [at |-> "flush", data |-> data, todo |-> todo]
            /\ \A d \in Buffers : d # c => Call(p, d)' = Idle
            /\ Stays(Other(p))
            /\ pc'[p] = "flush" /\ job'[p].buffer = c /\ job'[p].after = after
        BY <1>1, <3>2, EnterCall
      <3>4. QED
        BY <3>1, <3>3
    <2>3. /\ Overlaps(p, c, {"flush", "reset"})
          /\ \A d \in Buffers : d # c => overlapped'[d] = overlapped[d]
      <3>1. In(Other(p), {"flush", "reset"}, c)
              <=> Call(Other(p), c).at \in {"flush", "reset"}
        BY InCall, Names DEF Inside
      <3>2. QED
        BY <1>1, <2>1, <3>1 DEF Overlaps, Flags
    <2>4. Apart(p, c)
      BY <1>2, <2>2, <2>3, OtherStays, Names DEF Apart
    <2>5. fill[c] > 0
      BY <1>1, <1>5, StoreTypes
    <2>6. Hands(p, c)
      BY <1>2, <1>5, <2>2, <2>3, <2>5 DEF Hands
    <2>7. QED
      BY <2>2, <2>4, <2>6 DEF Heads, Inside
  <1>6. QED
    BY <1>3, <1>4, <1>5

\* A goroutine in a call: its buffer, and what it has in hand.
LEMMA InACall ==
  ASSUME RecorderTypes, NEW p \in Proc, pc[p] \in Inside
  PROVE  \E c, after :
           /\ c \in Buffers /\ c = job[p].buffer /\ after = job[p].after
           /\ after \in FlushTo(p, c) /\ after \notin Inside
           /\ Call(p, c).at = pc[p] /\ Call(p, c).data = job[p].data
           /\ Call(p, c).todo = job[p].todo
           /\ job[p].todo \in Seq(Items(c)) /\ job[p].data \in Seq(Items(c))
           /\ \A d \in Buffers : d # c => Call(p, d) = Idle
  <1>1. Jobs
    BY DEF RecorderTypes
  <1>2. PICK c \in Buffers : c = job[p].buffer
    BY <1>1, JobTypes
  <1>3. In(p, Inside, c)
    BY <1>2 DEF In
  <1>4. /\ job[p].after \in FlushTo(p, c) /\ job[p].after \notin Inside
        /\ job[p].todo \in Seq(Items(c)) /\ job[p].data \in Seq(Items(c))
    BY <1>1, <1>2, JobTypes, FlushToType, OwnType
  <1>5. QED
    BY <1>2, <1>3, <1>4, CallIs

\* A goroutine that goes on, or returns, is on its way to the same place.
LEMMA GoOnHeads ==
  ASSUME Places, Jobs, NEW p \in Proc, NEW label \in Inside, NEW b \in Buffers,
         NEW todo, NEW after, after \notin Inside, GoOn(p, label, b, todo, after)
  PROVE  Heads(p, after)
  BY EnterCall, LeaveCall DEF GoOn, Heads

\* A step within a call does nothing to the other buffer.
LEMMA CallElsewhere ==
  ASSUME RecorderTypes, NEW p \in Proc, pc[p] \in Inside,
         NEW c \in Buffers, Apart(p, c), NEW after, after = job[p].after,
         after \notin Inside, Heads(p, after),
         UNCHANGED <<recordedBytes, body>>, late => late', faulted => faulted',
         NEW d \in Buffers, d # c
  PROVE  Elsewhere(d)
  <1>1. recordedBytes \in Nat
    BY KnownSizes DEF RecorderTypes, Counts
  <1>2. d = "recording" /\ Past' => Past
    BY PastKept
  <1>3. QED
    BY <1>1, <1>2, ApartElsewhere

\* What is copied is counted.
LEMMA CountShape ==
  ASSUME RecorderTypes, NEW p \in Proc, Count(p), NEW b \in Buffers
  PROVE  Elsewhere(b) \/ Calls(p, b)
  <1>1. PICK c, after :
          /\ c \in Buffers /\ c = job[p].buffer /\ after = job[p].after
          /\ after \in FlushTo(p, c) /\ after \notin Inside
          /\ Call(p, c).at = "copied" /\ Call(p, c).data = job[p].data
          /\ Call(p, c).todo = job[p].todo
          /\ \A d \in Buffers : d # c => Call(p, d) = Idle
    BY InACall DEF Count, Inside
  <1>2. Places /\ Jobs /\ Stores /\ Flags
    BY DEF RecorderTypes
  <1>3. GoOn(p, "full", c, job[p].todo, after)
    BY <1>1 DEF Count
  <1>4. /\ Call(p, c)' = IF job[p].todo # <<>>
                           THEN [at |-> "full", data |-> <<>>, todo |-> job[p].todo]
                           ELSE Idle
        /\ \A d \in Buffers : d # c => Call(p, d)' = Idle
        /\ Stays(Other(p)) /\ Heads(p, after)
    BY <1>1, <1>2, <1>3, GoOnCall, GoOnHeads DEF Inside
  <1>5. /\ MayBeLost(p, c) <=> Call(Other(p), c).at = "copied"
        /\ In(Other(p), {"copied", "reset"}, c)
             <=> Call(Other(p), c).at \in {"copied", "reset"}
    BY <1>1, InCall, Names DEF Inside, MayBeLost
  <1>6. /\ Overlaps(p, c, {"copied", "reset"}) /\ Lates(p, c) /\ (late => late')
        /\ \A d \in Buffers : d # c => overlapped'[d] = overlapped[d]
    BY <1>1, <1>2, <1>5 DEF Count, NoteOverlap, NoteLate, Overlaps, Lates, Flags
  <1>7. /\ \/ /\ fill[c] + Len(job[p].data) <= BufferSize[c]
              /\ fill' = [fill EXCEPT ![c] = fill[c] + Len(job[p].data)] /\ err' = err
           \/ /\ fill[c] + Len(job[p].data) > BufferSize[c]
              /\ fill' = fill /\ err' = [err EXCEPT ![c] = TRUE]
           \/ /\ Call(Other(p), c).at = "copied"
              /\ fill' = fill /\ err' = err
        /\ UNCHANGED <<recordedBytes, body, mem, stored, faulted>>
    BY <1>1, <1>5 DEF Count
  <1>8. Apart(p, c)
    <2>1. \A d \in Buffers : d # c => Same(d)
      BY <1>2, <1>7 DEF Same, Stores, Flags
    <2>2. QED
      BY <1>1, <1>4, <1>6, <2>1, OtherStays, Names DEF Apart
  <1>9. CASE b = c
    <2>1. Adds(p, c)
      BY <1>1, <1>2, <1>4, <1>6, <1>7 DEF Adds, Returns, Stores, Flags
    <2>2. QED
      BY <1>8, <1>9, <2>1, Names DEF Calls, Apart
  <1>10. CASE b # c
    BY <1>1, <1>4, <1>6, <1>7, <1>8, <1>10, CallElsewhere DEF Count, Inside
  <1>11. QED
    BY <1>9, <1>10

\* A write that finds the buffer full flushes it.
LEMMA FlushFullShape ==
  ASSUME RecorderTypes, NEW p \in Proc, FlushFull(p), NEW b \in Buffers
  PROVE  Elsewhere(b) \/ Calls(p, b)
  <1>1. PICK c, after :
          /\ c \in Buffers /\ c = job[p].buffer /\ after = job[p].after
          /\ after \in FlushTo(p, c) /\ after \notin Inside
          /\ Call(p, c).at = "full"
          /\ Call(p, c).todo = job[p].todo
          /\ \A d \in Buffers : d # c => Call(p, d) = Idle
    BY InACall DEF FlushFull, Inside
  <1>2. /\ Flush(p, c, job[p].todo, after)
        /\ UNCHANGED <<recordedBytes, body, mem, fill, err, stored, late, faulted>>
    BY <1>1 DEF FlushFull
  <1>3. /\ \/ /\ err[c] /\ Call(p, c)' = Idle /\ Same(c)
              /\ overlapped'[c] = overlapped[c]
           \/ /\ ~err[c] /\ fill[c] = 0 /\ Returns(p, c, "again") /\ Same(c)
              /\ overlapped'[c] = overlapped[c]
           \/ Hands(p, c)
        /\ Apart(p, c)
        /\ Heads(p, after)
    BY <1>1, <1>2, FlushShape
  <1>4. CASE b = c
    <2>1. Passes(p, c) \/ Hands(p, c)
      BY <1>1, <1>2, <1>3 DEF Passes
    <2>2. QED
      BY <1>3, <1>4, <2>1, Names DEF Calls, Apart
  <1>5. CASE b # c
    BY <1>1, <1>2, <1>3, <1>5, CallElsewhere DEF FlushFull, Inside
  <1>6. QED
    BY <1>4, <1>5

\* A write goes on with the rest.
LEMMA CopyAgainShape ==
  ASSUME RecorderTypes, NEW p \in Proc, CopyAgain(p), NEW b \in Buffers
  PROVE  Elsewhere(b) \/ Calls(p, b)
  <1>1. PICK c, after :
          /\ c \in Buffers /\ c = job[p].buffer /\ after = job[p].after
          /\ after \in FlushTo(p, c) /\ after \notin Inside
          /\ Call(p, c).at = "again"
          /\ Call(p, c).todo = job[p].todo /\ job[p].todo \in Seq(Items(c))
          /\ \A d \in Buffers : d # c => Call(p, d) = Idle
    BY InACall DEF CopyAgain, Inside
  <1>2. /\ CopyIn(p, c, job[p].todo, after)
        /\ UNCHANGED <<recordedBytes, body, fill, err, stored, faulted>>
    BY <1>1 DEF CopyAgain
  <1>3. Given(p, c, job[p].todo)
    BY <1>1, <1>2 DEF Given
  <1>4. /\ \/ err[c] /\ Call(p, c)' = Idle /\ Same(c) /\ late' = late
              /\ overlapped'[c] = overlapped[c]
           \/ Copies(p, c, job[p].todo)
        /\ Apart(p, c) /\ (late => late')
        /\ Heads(p, after)
    BY <1>1, <1>2, <1>3, CopyInShape
  <1>5. CASE b = c
    <2>1. Passes(p, c) \/ Copies(p, c, job[p].todo)
      BY <1>1, <1>2, <1>4 DEF Passes
    <2>2. QED
      BY <1>1, <1>4, <1>5, <2>1, Names DEF Calls, Apart
  <1>6. CASE b # c
    BY <1>1, <1>2, <1>4, <1>6, CallElsewhere DEF CopyAgain, Inside
  <1>7. QED
    BY <1>5, <1>6

\* What is stored by a call that flushes the buffer c.
LEMMA DocumentsShape ==
  ASSUME RecorderTypes, NEW p \in Proc, pc[p] = "flush",
         NEW c \in Buffers, c = job[p].buffer, NEW doc \in Documents(p)
  PROVE  doc \in Seq(Items(c)) /\ Doc(p, c, doc)
  <1>1. doc \in Seq(Items(c))
    BY DocumentsType DEF RecorderTypes
  <1>2. Call(p, c).data = job[p].data
    BY CallIs DEF In, Inside
  <1>3. In(Other(p), {"flush"}, c) => Call(Other(p), c).at = "flush"
    BY InCall, Names DEF Inside
  <1>4. QED
    BY <1>1, <1>2, <1>3 DEF Documents, Doc

\* The recorder takes the content.
LEMMA FlushEndsShape ==
  ASSUME RecorderTypes, NEW p \in Proc, FlushEnds(p), NEW b \in Buffers
  PROVE  Elsewhere(b) \/ Calls(p, b)
  <1>1. PICK c, after :
          /\ c \in Buffers /\ c = job[p].buffer /\ after = job[p].after
          /\ after \in FlushTo(p, c) /\ after \notin Inside
          /\ Call(p, c).at = "flush" /\ Call(p, c).data = job[p].data
          /\ Call(p, c).todo = job[p].todo
          /\ \A d \in Buffers : d # c => Call(p, d) = Idle
    BY InACall DEF FlushEnds, Inside
  <1>2. Places /\ Jobs /\ Stores /\ Flags
    BY DEF RecorderTypes
  <1>3. PICK doc \in Seq(Items(c)) :
          Doc(p, c, doc) /\ stored' = [stored EXCEPT ![c] = Append(@, doc)]
    BY <1>1, DocumentsShape DEF FlushEnds
  <1>4. /\ stored'[c] = Append(stored[c], doc)
        /\ \A d \in Buffers : d # c => stored'[d] = stored[d]
    BY <1>1, <1>2, <1>3 DEF Stores
  <1>5. UNCHANGED <<recordedBytes, body, overlapped, late, faulted>>
    BY DEF FlushEnds
  <1>6. CASE Len(job[p].data) < fill[c]
    <2>1. /\ err' = [err EXCEPT ![c] = TRUE] /\ Leave(p, after)
          /\ \E m : mem' = [mem EXCEPT ![c] = m]
          /\ \E n : fill' = [fill EXCEPT ![c] = n]
      BY <1>1, <1>2, <1>6 DEF FlushEnds, Taken, Stores
    <2>2. /\ \A d \in Buffers : Call(p, d)' = Idle
          /\ Stays(Other(p)) /\ pc'[p] = after
      BY <1>1, <1>2, <2>1, LeaveCall
    <2>3. \A d \in Buffers : d # c => Same(d)
      BY <1>2, <1>4, <2>1 DEF Same, Stores, Flags
    <2>4. Apart(p, c) /\ Heads(p, after)
      BY <1>1, <1>5, <2>2, <2>3, OtherStays, Names DEF Apart, Heads
    <2>5. CASE b = c
      <3>1. Puts(p, c)
        BY <1>1, <1>2, <1>3, <1>4, <1>5, <1>6, <2>1, <2>2 DEF Puts, Flags
      <3>2. QED
        BY <2>4, <2>5, <3>1, Names DEF Calls, Apart
    <2>6. CASE b # c
      BY <1>1, <1>5, <2>4, <2>6, CallElsewhere DEF FlushEnds, Inside
    <2>7. QED
      BY <2>5, <2>6
  <1>7. CASE ~(Len(job[p].data) < fill[c])
    <2>1. /\ UNCHANGED <<err, mem, fill>>
          /\ Enter(p, "reset", c, <<>>, job[p].todo, after)
      BY <1>1, <1>7 DEF FlushEnds, Taken
    <2>2. /\ Call(p, c)' = [at |-> "reset", data |-> <<>>, todo |-> job[p].todo]
          /\ \A d \in Buffers : d # c => Call(p, d)' = Idle
          /\ Stays(Other(p))
          /\ pc'[p] = "reset" /\ job'[p].after = after
      BY <1>1, <1>2, <2>1, EnterCall DEF Inside
    <2>3. \A d \in Buffers : d # c => Same(d)
      BY <1>4, <2>1 DEF Same
    <2>4. Apart(p, c) /\ Heads(p, after)
      BY <1>1, <1>5, <2>2, <2>3, OtherStays, Names DEF Apart, Heads, Inside
    <2>5. CASE b = c
      <3>1. Puts(p, c)
        BY <1>1, <1>3, <1>4, <1>5, <1>7, <2>1, <2>2 DEF Puts
      <3>2. QED
        BY <2>4, <2>5, <3>1, Names DEF Calls, Apart
    <2>6. CASE b # c
      BY <1>1, <1>5, <2>4, <2>6, CallElsewhere DEF FlushEnds, Inside
    <2>7. QED
      BY <2>5, <2>6
  <1>8. QED
    BY <1>6, <1>7

\* The insertion fails.
LEMMA FlushFailsShape ==
  ASSUME RecorderTypes, NEW p \in Proc, FlushFails(p), NEW b \in Buffers
  PROVE  Elsewhere(b) \/ Calls(p, b)
  <1>1. PICK c, after :
          /\ c \in Buffers /\ c = job[p].buffer /\ after = job[p].after
          /\ after \in FlushTo(p, c) /\ after \notin Inside
          /\ Call(p, c).at = "flush"
          /\ \A d \in Buffers : d # c => Call(p, d) = Idle
    BY InACall DEF FlushFails, Inside
  <1>2. Places /\ Jobs /\ Stores /\ Flags
    BY DEF RecorderTypes
  <1>3. /\ \/ stored'[c] = stored[c]
           \/ \E doc \in Seq(Items(c)) :
                Doc(p, c, doc) /\ stored'[c] = Append(stored[c], doc)
        /\ \A d \in Buffers : d # c => stored'[d] = stored[d]
    <2>1. CASE stored' = stored
      BY <2>1
    <2>2. CASE stored' # stored
      <3>1. PICK doc \in Documents(p) : stored' = [stored EXCEPT ![c] = Append(@, doc)]
        BY <1>1, <2>2 DEF FlushFails
      <3>2. doc \in Seq(Items(c)) /\ Doc(p, c, doc)
        BY <1>1, <3>1, DocumentsShape DEF FlushFails
      <3>3. QED
        BY <1>2, <3>1, <3>2 DEF Stores
    <2>3. QED
      BY <2>1, <2>2
  <1>4. /\ UNCHANGED <<recordedBytes, body, mem, fill, overlapped, late>>
        /\ err' = [err EXCEPT ![c] = TRUE] /\ Leave(p, after)
        /\ faulted' \/ (pc["reader"] = "done" /\ p = "writer" /\ faulted' = faulted)
    BY <1>1 DEF FlushFails, KeepsError, CtxDone
  <1>5. /\ \A d \in Buffers : Call(p, d)' = Idle
        /\ Stays(Other(p)) /\ pc'[p] = after
    BY <1>1, <1>2, <1>4, LeaveCall
  <1>6. Apart(p, c) /\ Heads(p, after)
    <2>1. \A d \in Buffers : d # c => Same(d)
      BY <1>2, <1>3, <1>4 DEF Same, Flags
    <2>2. QED
      BY <1>1, <1>4, <1>5, <2>1, OtherStays, Names DEF Apart, Heads
  <1>7. CASE b = c
    <2>1. Fails(p, c)
      BY <1>1, <1>2, <1>3, <1>4, <1>5 DEF Fails, Flags
    <2>2. QED
      BY <1>6, <1>7, <2>1, Names DEF Calls, Apart
  <1>8. CASE b # c
    BY <1>1, <1>4, <1>6, <1>8, CallElsewhere DEF FlushFails, Inside
  <1>9. QED
    BY <1>7, <1>8

\* The buffer is emptied.
LEMMA ResetShape ==
  ASSUME RecorderTypes, NEW p \in Proc, Reset(p), NEW b \in Buffers
  PROVE  Elsewhere(b) \/ Calls(p, b)
  <1>1. PICK c, after :
          /\ c \in Buffers /\ c = job[p].buffer /\ after = job[p].after
          /\ after \in FlushTo(p, c) /\ after \notin Inside
          /\ Call(p, c).at = "reset"
          /\ Call(p, c).todo = job[p].todo
          /\ \A d \in Buffers : d # c => Call(p, d) = Idle
    BY InACall DEF Reset, Inside
  <1>2. Places /\ Jobs /\ Stores /\ Flags
    BY DEF RecorderTypes
  <1>3. GoOn(p, "again", c, job[p].todo, after)
    BY <1>1 DEF Reset
  <1>4. /\ Call(p, c)' = IF job[p].todo # <<>>
                           THEN [at |-> "again", data |-> <<>>, todo |-> job[p].todo]
                           ELSE Idle
        /\ \A d \in Buffers : d # c => Call(p, d)' = Idle
        /\ Stays(Other(p)) /\ Heads(p, after)
    BY <1>1, <1>2, <1>3, GoOnCall, GoOnHeads DEF Inside
  <1>5. /\ MayBeLost(p, c) <=> Call(Other(p), c).at = "copied"
        /\ In(Other(p), {"copied", "reset"}, c)
             <=> Call(Other(p), c).at \in {"copied", "reset"}
    BY <1>1, InCall, Names DEF Inside, MayBeLost
  <1>6. /\ Overlaps(p, c, {"copied", "reset"})
        /\ \A d \in Buffers : d # c => overlapped'[d] = overlapped[d]
    BY <1>1, <1>2, <1>5 DEF Reset, NoteOverlap, Overlaps, Flags
  <1>7. /\ \/ fill' = [fill EXCEPT ![c] = 0]
           \/ Call(Other(p), c).at = "copied" /\ fill' = fill
        /\ UNCHANGED <<recordedBytes, body, mem, err, stored, late, faulted>>
    BY <1>1, <1>5 DEF Reset
  <1>8. Apart(p, c)
    <2>1. \A d \in Buffers : d # c => Same(d)
      BY <1>2, <1>7 DEF Same, Stores
    <2>2. QED
      BY <1>1, <1>4, <1>6, <2>1, OtherStays, Names DEF Apart
  <1>9. CASE b = c
    <2>1. Empties(p, c)
      BY <1>1, <1>2, <1>4, <1>6, <1>7 DEF Empties, Returns, Stores
    <2>2. QED
      BY <1>8, <1>9, <2>1, Names DEF Calls, Apart
  <1>10. CASE b # c
    BY <1>1, <1>4, <1>7, <1>8, <1>10, CallElsewhere DEF Reset, Inside
  <1>11. QED
    BY <1>9, <1>10

\* Only the reader's own steps change whether it is past its flush.
LEMMA PastStays ==
  ASSUME Stays("reader")
  PROVE  Past' <=> Past
  <1>1. Call("reader", "recording")' = Call("reader", "recording")
    BY OtherStays, Names
  <1>2. Toward("reader", {"flushControl", "leaving", "done"})'
          <=> Toward("reader", {"flushControl", "leaving", "done"})
    BY DEF Stays, Toward
  <1>3. QED
    BY <1>1, <1>2 DEF Past

\* A goroutine begins to write, ...
LEMMA OwnCopyShape ==
  ASSUME RecorderTypes, NEW p \in Proc, pc[p] \notin Inside, NEW c \in Buffers,
         NEW items \in Seq(Items(c)), NEW after \in FlushTo(p, c),
         CopyIn(p, c, items, after), Given(p, c, items),
         UNCHANGED <<fill, err, stored, faulted>>,
         p = "reader" => after = "read" /\ c = "control",
         c = "control" => body' = body,
         NEW b \in Buffers
  PROVE  Elsewhere(b) \/ Calls(p, b)
  <1>1. \A d \in Buffers : Call(p, d) = Idle
    BY CallIs
  <1>2. /\ \/ err[c] /\ Call(p, c)' = Idle /\ Same(c) /\ late' = late
              /\ overlapped'[c] = overlapped[c]
           \/ Copies(p, c, items)
        /\ Apart(p, c) /\ (late => late')
        /\ Heads(p, after)
    BY <1>1, CopyInShape
  <1>3. recordedBytes' = recordedBytes /\ recordedBytes \in Nat
    BY KnownSizes DEF Given, RecorderTypes, Counts
  <1>4. Past' => Past
    <2>1. CASE p = "reader"
      <3>1. ~Toward("reader", {"flushControl", "leaving", "done"})'
        BY <1>2, <2>1 DEF Toward, Heads, Inside
      <3>2. QED
        BY <3>1 DEF Past
    <2>2. CASE p = "writer"
      BY <1>2, <2>2, PastStays, Names DEF Apart, Other
    <2>3. QED
      BY <2>1, <2>2, Names
  <1>5. CASE b # c
    <2>1. body' = body \/ b = "control"
      BY <1>5, Names
    <2>2. QED
      BY <1>2, <1>3, <1>4, <1>5, <2>1, ApartElsewhere
  <1>6. CASE b = c /\ Copies(p, c, items)
    BY <1>2, <1>6, Names DEF Calls, Apart
  <1>7. CASE b = c /\ ~Copies(p, c, items)
    <2>1. /\ err[c] /\ Call(p, c)' = Call(p, c) /\ Same(c)
          /\ overlapped'[c] = overlapped[c]
      BY <1>1, <1>2, <1>7
    <2>2. \A q \in Proc : Call(q, c)' = Call(q, c)
      BY <1>2, <2>1, Names DEF Apart
    <2>3. c = "recording" => Bound' = Bound \/ err[c]
      BY <2>1
    <2>4. QED
      BY <1>2, <1>3, <1>4, <1>7, <2>1, <2>2, <2>3 DEF Elsewhere
  <1>8. QED
    BY <1>5, <1>6, <1>7

\* ... or to flush.
LEMMA OwnFlushShape ==
  ASSUME RecorderTypes, NEW p \in Proc, pc[p] \notin Inside, NEW c \in Buffers,
         NEW after \in FlushTo(p, c), Flush(p, c, <<>>, after),
         UNCHANGED <<recordedBytes, body, mem, fill, err, stored, late, faulted>>,
         p = "reader" /\ c = "control" => pc[p] = "flushControl",
         NEW b \in Buffers
  PROVE  Elsewhere(b) \/ Calls(p, b)
  <1>1. /\ \A d \in Buffers : Call(p, d) = Idle
        /\ Idle.at = "idle" /\ Idle.todo = <<>>
    BY CallIs
  <1>2. /\ \/ /\ err[c] /\ Call(p, c)' = Idle /\ Same(c)
              /\ overlapped'[c] = overlapped[c]
           \/ /\ ~err[c] /\ fill[c] = 0 /\ Returns(p, c, "again") /\ Same(c)
              /\ overlapped'[c] = overlapped[c]
           \/ Hands(p, c)
        /\ Apart(p, c)
        /\ Heads(p, after)
    <2>1. <<>> = Call(p, c).todo /\ Call(p, c).at \in {"idle", "full"}
      BY <1>1
    <2>2. QED
      BY <1>1, <2>1, FlushShape
  <1>3. recordedBytes \in Nat
    BY KnownSizes DEF RecorderTypes, Counts
  <1>4. ~(p = "reader" /\ c = "recording") => (Past' => Past)
    <2>1. CASE p = "reader" /\ c = "control"
      BY <1>1, <2>1, Names DEF Past, Toward
    <2>2. CASE p = "writer"
      BY <1>2, <2>2, PastStays, Names DEF Apart, Other
    <2>3. QED
      BY <2>1, <2>2, Names
  <1>5. CASE b # c
    <2>1. b = "recording" /\ Past' => Past
      BY <1>4, <1>5
    <2>2. QED
      BY <1>2, <1>3, <1>5, <2>1, ApartElsewhere
  <1>6. CASE b = c /\ Hands(p, c)
    BY <1>2, <1>6, Names DEF Calls, Apart
  <1>7. CASE b = c /\ ~Hands(p, c)
    <2>1. /\ err[c] \/ fill[c] = 0
          /\ Call(p, c)' = Call(p, c) /\ Same(c)
          /\ overlapped'[c] = overlapped[c]
      BY <1>1, <1>2, <1>7 DEF Returns
    <2>2. \A q \in Proc : Call(q, c)' = Call(q, c)
      BY <1>2, <2>1, Names DEF Apart
    <2>3. Bound' = Bound /\ recordedBytes' >= recordedBytes
      BY <1>3 DEF Bound
    <2>4. c = "recording" /\ Past' => Past \/ err[c] \/ fill[c] = 0
      BY <1>4, <2>1
    <2>5. QED
      BY <1>7, <2>1, <2>2, <2>3, <2>4 DEF Elsewhere
  <1>8. QED
    BY <1>5, <1>6, <1>7

\* A goroutine's own step does nothing to the buffers.
LEMMA SilentShape ==
  ASSUME RecorderTypes, CountOutput \/ WriterEnds \/ TakeResize \/ ReaderEnds
                        \/ ReaderReturns,
         NEW b \in Buffers
  PROVE  Elsewhere(b)
  <1>1. Same(b) /\ overlapped'[b] = overlapped[b] /\ UNCHANGED <<late, faulted, job>>
    BY DEF CountOutput, WriterEnds, TakeResize, ReaderEnds, ReaderReturns, Same
  <1>2. PICK p \in Proc : /\ pc[p] \notin Inside /\ pc'[p] \notin Inside
                          /\ pc'[Other(p)] = pc[Other(p)]
                          /\ CountOutput \/ WriterEnds => p = "writer"
    <2>1. pc \in [Proc -> Labels]
      BY DEF RecorderTypes, Places
    <2>2. CASE CountOutput \/ WriterEnds
      BY <2>1, <2>2, Names DEF CountOutput, WriterEnds, Goto, Inside
    <2>3. CASE TakeResize \/ ReaderEnds \/ ReaderReturns
      <3>1. ~(CountOutput \/ WriterEnds) \/ TRUE
        OBVIOUS
      <3>2. pc'["writer"] = pc["writer"] /\ pc'["reader"] # pc["reader"]
        BY <2>1, <2>3, Names DEF TakeResize, ReaderEnds, ReaderReturns, Goto
      <3>3. ~(CountOutput \/ WriterEnds)
        BY <2>1, <3>2, Names DEF CountOutput, WriterEnds, Goto
      <3>4. QED
        BY <2>1, <2>3, <3>3, Names
           DEF TakeResize, ReaderEnds, ReaderReturns, Goto, Inside, Other
    <2>4. QED
      BY <2>2, <2>3
  <1>3. /\ \A d \in Buffers : Call(p, d) = Idle /\ Call(p, d)' = Idle
        /\ Stays(Other(p)) /\ \A d \in Buffers : Call(Other(p), d)' = Call(Other(p), d)
    <2>1. Stays(Other(p))
      BY <1>1, <1>2 DEF Stays
    <2>2. QED
      BY <1>2, <2>1, OtherStays, Names DEF Call, In
  <1>4. \A q \in Proc : Call(q, b)' = Call(q, b)
    BY <1>3, Names
  <1>5. /\ recordedBytes \in Nat /\ body \in Nat
    BY KnownSizes DEF RecorderTypes, Counts
  <1>6. /\ Bound' = Bound /\ recordedBytes' >= recordedBytes
        /\ recordedBytes' = recordedBytes \/ Call("writer", b) = Idle
    <2>1. CASE CountOutput
      BY <1>2, <1>3, <1>5, <2>1 DEF CountOutput, Bound
    <2>2. CASE ~CountOutput
      BY <1>5, <2>2 DEF WriterEnds, TakeResize, ReaderEnds, ReaderReturns, Bound
    <2>3. QED
      BY <2>1, <2>2
  <1>7. Past' => Past
    <2>1. CASE CountOutput \/ WriterEnds
      BY <1>2, <1>3, <2>1, PastStays DEF Other
    <2>2. CASE TakeResize \/ ReaderEnds \/ ReaderReturns
      <3>1. pc \in [Proc -> Labels]
        BY DEF RecorderTypes, Places
      <3>2. Toward("reader", {"flushControl", "leaving", "done"})'
              => Toward("reader", {"flushControl", "leaving", "done"})
        BY <2>2, <3>1, Names DEF TakeResize, ReaderEnds, ReaderReturns, Goto, Toward, Inside
      <3>3. Call("reader", "recording")' = Call("reader", "recording")
        BY <1>3, Names
      <3>4. QED
        BY <3>2, <3>3 DEF Past
    <2>3. QED
      BY <2>1, <2>2
  <1>8. QED
    BY <1>1, <1>4, <1>6, <1>7 DEF Elsewhere

\* Each step of the recorder does one thing to each buffer, or nothing.
LEMMA Shape ==
  ASSUME RecorderTypes, Message, RecorderNext, NEW b \in Buffers
  PROVE  Elsewhere(b) \/ \E p \in Proc : Calls(p, b)
  <1>0. /\ "delay" \in FlushTo("writer", "recording")
        /\ "select" \in FlushTo("writer", "recording")
        /\ "done" \in FlushTo("writer", "recording")
        /\ "count" \in FlushTo("writer", "control")
        /\ "flushRecording" \in FlushTo("writer", "control")
        /\ "flushControl" \in FlushTo("reader", "recording")
        /\ "read" \in FlushTo("reader", "control")
        /\ "leaving" \in FlushTo("reader", "control")
    BY DEF FlushTo
  <1>1. Counts
    BY DEF RecorderTypes
  <1>2. ASSUME NEW p \in Proc, BufferNext(p) PROVE Elsewhere(b) \/ Calls(p, b)
    BY <1>2, CountShape, FlushFullShape, CopyAgainShape, FlushEndsShape,
       FlushFailsShape, ResetShape DEF BufferNext
  <1>3. CASE RecordOutput
    <2>1. PICK n \in Bodies : body' = n /\
            CopyIn("writer", "recording", [i \in 1 .. n |-> recordedBytes + i - 1],
                   "delay")
      BY <1>3 DEF RecordOutput
    <2>2. /\ recordedBytes < Limit /\ recordedBytes' = recordedBytes
          /\ UNCHANGED <<fill, err, stored, faulted>> /\ pc["writer"] = "select"
      BY <1>3 DEF RecordOutput, BelowLimit
    <2>3. body = 0 /\ n \in Nat
      BY <2>2, KnownSizes DEF Message, Handling, Toward, Inside
    <2> DEFINE items == [i \in 1 .. n |-> recordedBytes + i - 1]
    <2>4. items \in Seq(Items("recording"))
      BY <1>1, <2>2, WrittenTypes
    <2>5. items = [i \in 1 .. body' |-> recordedBytes + i - 1]
      BY <2>1
    <2> HIDE DEF items
    <2>6. pc["writer"] \notin Inside
      BY <2>2 DEF Inside
    <2>7. Call("writer", "recording").at = "idle"
      BY <2>6, CallIs, Names
    <2>8. Given("writer", "recording", items)
      BY <2>1, <2>2, <2>3, <2>5, <2>7 DEF Given
    <2>9. CopyIn("writer", "recording", items, "delay")
      BY <2>1 DEF items
    <2>10. QED
      BY <1>0, <2>2, <2>4, <2>6, <2>8, <2>9, Names, OwnCopyShape
  <1>4. CASE RecordDelay
    <2> DEFINE items == <<[type |-> "delay", offset |-> recordedBytes]>>
    <2>1. /\ recordedBytes' = recordedBytes /\ body' = body
          /\ UNCHANGED <<fill, err, stored, faulted>> /\ pc["writer"] \notin Inside
      BY <1>4 DEF RecordDelay, Inside
    <2>2. CASE CopyIn("writer", "control", items, "count")
      <3>1. Call("writer", "control").at = "idle" /\ items \in Seq(Items("control"))
        BY <1>1, <2>1, CallIs, Names, WrittenTypes
      <3>2. Given("writer", "control", items)
        BY <2>1, <3>1 DEF Given
      <3> HIDE DEF items
      <3>3. QED
        BY <1>0, <2>1, <2>2, <3>1, <3>2, Names, OwnCopyShape
    <2>3. CASE Leave("writer", "count") /\ UNCHANGED <<mem, overlapped, late>>
      <3>1. /\ \A d \in Buffers : Call("writer", d)' = Idle /\ Call("writer", d) = Idle
            /\ Stays("reader")
        BY <2>1, <2>3, LeaveCall, CallIs, Names DEF RecorderTypes, Inside, Other
      <3>2. \A q \in Proc : Call(q, b)' = Call(q, b)
        BY <3>1, OtherStays, Names
      <3>3. Bound' = Bound /\ recordedBytes' >= recordedBytes
        BY <1>1, <2>1, KnownSizes DEF Bound, Counts
      <3>4. Past' => Past
        BY <3>1, PastStays
      <3>5. Same(b) /\ overlapped'[b] = overlapped[b] /\ UNCHANGED <<late, faulted>>
        BY <2>1, <2>3 DEF Same
      <3>6. QED
        BY <2>1, <3>2, <3>3, <3>4, <3>5 DEF Elsewhere
    <2>4. QED
      BY <1>4, <2>2, <2>3 DEF RecordDelay
  <1>5. CASE RecordResize
    <2> DEFINE items == <<[type |-> "resize", offset |-> resizeAt]>>
    <2>1. /\ recordedBytes' = recordedBytes /\ body' = body
          /\ UNCHANGED <<fill, err, stored, faulted>> /\ pc["reader"] \notin Inside
          /\ CopyIn("reader", "control", items, "read")
      BY <1>5 DEF RecordResize, Inside
    <2>2. Call("reader", "control").at = "idle" /\ items \in Seq(Items("control"))
      BY <1>1, <2>1, CallIs, Names, WrittenTypes
    <2>3. Given("reader", "control", items)
      BY <2>1, <2>2 DEF Given
    <2> HIDE DEF items
    <2>4. QED
      BY <1>0, <2>1, <2>2, <2>3, Names, OwnCopyShape
  <1>6. CASE StopShell \/ WriterFlushes \/ ReaderFlushes
    <2>1. UNCHANGED <<recordedBytes, body, mem, fill, err, stored, late, faulted>>
      BY <1>6 DEF StopShell, WriterFlushes, ReaderFlushes
    <2>2. \/ /\ pc["writer"] \notin Inside
             /\ \/ Flush("writer", "recording", <<>>, "select")
                \/ Flush("writer", "recording", <<>>, "done")
                \/ Flush("writer", "control", <<>>, "flushRecording")
          \/ /\ pc["reader"] \notin Inside
             /\ \/ Flush("reader", "recording", <<>>, "flushControl")
                \/ /\ Flush("reader", "control", <<>>, "leaving")
                   /\ pc["reader"] = "flushControl"
      BY <1>6 DEF StopShell, WriterFlushes, ReaderFlushes, Inside
    <2>3. QED
      BY <1>0, <2>1, <2>2, Names, OwnFlushShape
  <1>7. CASE CountOutput \/ WriterEnds \/ TakeResize \/ ReaderEnds \/ ReaderReturns
    BY <1>7, SilentShape
  <1>8. QED
    BY <1>2, <1>3, <1>4, <1>5, <1>6, <1>7 DEF RecorderNext

\* A call on its way returns where it was to return to.
LEMMA BufferHeads ==
  ASSUME RecorderTypes, NEW p \in Proc, BufferNext(p)
  PROVE  /\ pc[p] \in Inside /\ job[p].after \notin Inside
         /\ Heads(p, job[p].after) /\ Stays(Other(p)) /\ UNCHANGED <<recordedBytes, body>>
  <1>1. pc[p] \in Inside /\ UNCHANGED <<recordedBytes, body>>
    BY DEF BufferNext, Count, FlushFull, CopyAgain, FlushEnds, FlushFails, Reset,
           Inside
  <1>2. PICK c, after :
          c \in Buffers /\ c = job[p].buffer /\ after = job[p].after /\ after \notin Inside
    BY <1>1, InACall
  <1>3. \/ Leave(p, after)
        \/ \E label \in Inside : \E data, todo : Enter(p, label, c, data, todo, after)
    BY <1>2, ZenonT(60) DEF BufferNext, Count, FlushFull, CopyAgain, FlushEnds, FlushFails,
                  Reset, GoOn, Flush, CopyIn, Inside
  <1>4. Places /\ Jobs
    BY DEF RecorderTypes
  <1>5. CASE Leave(p, after)
    BY <1>1, <1>2, <1>4, <1>5, LeaveCall DEF Heads
  <1>6. CASE \E label \in Inside : \E data, todo : Enter(p, label, c, data, todo, after)
    BY <1>1, <1>2, <1>4, <1>6, EnterCall DEF Heads
  <1>7. QED
    BY <1>3, <1>5, <1>6

\* A goroutine that begins a call is on its way to where it returns.
LEMMA BeginHeads ==
  ASSUME RecorderTypes, NEW p \in Proc, NEW c \in Buffers, NEW items,
         NEW after \in FlushTo(p, c),
         CopyIn(p, c, items, after) \/ Flush(p, c, items, after)
  PROVE  Heads(p, after) /\ Stays(Other(p))
  <1>1. after \notin Inside
    BY FlushToType, OwnType
  <1>2. \/ Leave(p, after)
        \/ \E label \in Inside : \E data, todo : Enter(p, label, c, data, todo, after)
    BY ZenonT(60) DEF GoOn, Flush, CopyIn, Inside
  <1>3. Places /\ Jobs
    BY DEF RecorderTypes
  <1>4. CASE Leave(p, after)
    BY <1>1, <1>3, <1>4, LeaveCall DEF Heads
  <1>5. CASE \E label \in Inside : \E data, todo : Enter(p, label, c, data, todo, after)
    BY <1>3, <1>5, EnterCall DEF Heads
  <1>6. QED
    BY <1>2, <1>4, <1>5

\* The writer has a message in hand only on its way to counting it.
LEMMA MessageStep ==
  ASSUME RecorderTypes, Message, RecorderNext
  PROVE  Message'
  <1>0. /\ "delay" \in FlushTo("writer", "recording")
        /\ "count" \in FlushTo("writer", "control")
        /\ "flushControl" \in FlushTo("reader", "recording")
        /\ "read" \in FlushTo("reader", "control")
        /\ "leaving" \in FlushTo("reader", "control")
        /\ Other("reader") = "writer"
    BY DEF FlushTo, Other
  <1>1. ASSUME NEW p \in Proc, BufferNext(p) PROVE Message'
    <2>1. {"delay", "count"} \cap Inside = {}
      BY DEF Inside
    <2>2. Handling' <=> Handling
      BY <1>1, <2>1, BufferHeads, TowardKept, Names DEF Handling
    <2>3. body' = body
      BY <1>1, BufferHeads
    <2>4. QED
      BY <2>2, <2>3 DEF Message
  <1>2. ASSUME Heads("writer", "delay") \/ Heads("writer", "count") PROVE Message'
    BY <1>2 DEF Message, Handling, Toward, Heads
  <1>3. CASE RecordOutput
    <2>1. PICK n : CopyIn("writer", "recording",
                          [i \in 1 .. n |-> recordedBytes + i - 1], "delay")
      BY <1>3 DEF RecordOutput
    <2>2. QED
      BY <1>0, <1>2, <2>1, BeginHeads, Names
  <1>4. CASE RecordDelay
    <2>1. CASE CopyIn("writer", "control",
                      <<[type |-> "delay", offset |-> recordedBytes]>>, "count")
      BY <1>0, <1>2, <2>1, BeginHeads, Names
    <2>2. CASE Leave("writer", "count")
      <3>1. "count" \notin Inside
        BY DEF Inside
      <3>2. Heads("writer", "count")
        BY <2>2, <3>1, LeaveCall, Names DEF RecorderTypes, Heads
      <3>3. QED
        BY <1>2, <3>2
    <2>3. QED
      BY <1>4, <2>1, <2>2 DEF RecordDelay
  <1>5. CASE CountOutput
    BY <1>5 DEF CountOutput, Message
  <1>6. CASE StopShell \/ WriterFlushes \/ WriterEnds
    <2>1. ~Handling /\ body' = body
      BY <1>6 DEF StopShell, WriterFlushes, WriterEnds, Handling, Toward, Inside
    <2>2. QED
      BY <2>1 DEF Message
  <1>7. ASSUME Stays("writer"), body' = body PROVE Message'
    BY <1>7 DEF Message, Handling, Toward, Stays
  <1>8. CASE RecordResize
    BY <1>0, <1>7, <1>8, BeginHeads, Names DEF RecordResize
  <1>9. CASE ReaderFlushes
    BY <1>0, <1>7, <1>9, BeginHeads, Names DEF ReaderFlushes
  <1>10. CASE TakeResize \/ ReaderEnds \/ ReaderReturns
    <2>1. pc \in [Proc -> Labels]
      BY DEF RecorderTypes, Places
    <2>2. Stays("writer") /\ body' = body
      BY <1>10, <2>1, Names DEF TakeResize, ReaderEnds, ReaderReturns, Goto, Stays
    <2>3. QED
      BY <1>7, <2>2
  <1>11. QED
    BY <1>1, <1>3, <1>4, <1>5, <1>6, <1>8, <1>9, <1>10 DEF RecorderNext

-----------------------------------------------------------------------------
(* Calls that do not overlap                                               *)

\* What p may be doing to a buffer on which no calls have overlapped, while the
\* other goroutine is doing q's.
Alone(b, mine, theirs) ==
  /\ mine.at \in {"flush", "reset"} =>
       ~err[b] /\ fill[b] > 0 /\ theirs.at \notin {"flush", "reset"}
  /\ mine.at = "flush" =>
       /\ Len(mine.data) <= fill[b]
       /\ \A i \in 1 .. Len(mine.data) : mine.data[i] = mem[b][i]
  /\ mine.at = "copied" =>
       /\ theirs.at # "copied"
       /\ ~err[b] => fill[b] + Len(mine.data) <= BufferSize[b]

One(b) ==
  ~overlapped[b] => \A p \in Proc : Alone(b, Call(p, b), Call(Other(p), b))

\* What a call has in hand are items of its buffer.
LEMMA CallTypes ==
  ASSUME RecorderTypes, NEW p \in Proc, NEW b \in Buffers
  PROVE  /\ Call(p, b).data \in Seq(Items(b)) /\ Call(p, b).todo \in Seq(Items(b))
         /\ Len(Call(p, b).data) \in Nat /\ Len(Call(p, b).todo) \in Nat
         /\ Call(p, b).at \in {"idle"} \union Inside
  <1>1. CASE In(p, Inside, b)
    <2>1. Call(p, b) = [at |-> pc[p], data |-> job[p].data, todo |-> job[p].todo]
      BY <1>1 DEF Call
    <2>2. /\ job[p].data \in Seq(Items(b)) /\ job[p].todo \in Seq(Items(b))
      BY <1>1, JobTypes DEF In, RecorderTypes
    <2>3. QED
      BY <1>1, <2>1, <2>2 DEF In
  <1>2. CASE ~In(p, Inside, b)
    <2>1. <<>> \in Seq(Items(b))
      OBVIOUS
    <2>2. QED
      BY <1>2, <2>1 DEF Call, Idle
  <1>3. QED
    BY <1>1, <1>2

\* What the history says of a step that no other call is in the way of.
LEMMA NoOverlap ==
  ASSUME NEW p, NEW b, NEW labels, Overlaps(p, b, labels), ~overlapped'[b]
  PROVE  Call(Other(p), b).at \notin labels
  BY ZenonT(20) DEF Overlaps

\* As long as calls do not overlap, no flush meets another, a flush hands over
\* what is in the memory, and what is copied will fit.
LEMMA OneStep ==
  ASSUME RecorderTypes, NEW b \in Buffers, One(b),
         Elsewhere(b) \/ \E p \in Proc : Calls(p, b)
  PROVE  One(b)'
  <1>1. CASE Elsewhere(b)
    <2>1. /\ \A p \in Proc : Call(p, b)' = Call(p, b)
          /\ mem'[b] = mem[b] /\ fill'[b] = fill[b] /\ err'[b] = err[b]
          /\ overlapped'[b] = overlapped[b]
      BY <1>1 DEF Elsewhere, Same
    <2>2. \A p \in Proc : Call(p, b)' = Call(p, b) /\ Call(Other(p), b)' = Call(Other(p), b)
      BY <2>1, Names
    <2>3. QED
      BY <2>1, <2>2 DEF One, Alone
  <1>2. ASSUME NEW p \in Proc, Calls(p, b), ~overlapped'[b]
        PROVE  \A r \in Proc : Alone(b, Call(r, b), Call(Other(r), b))'
    <2>1. PICK q \in Proc : q = Other(p) /\ p = Other(q) /\ \A r \in Proc : r = p \/ r = q
      BY Names
    <2>2. PICK mine, theirs : mine = Call(p, b) /\ theirs = Call(q, b)
      OBVIOUS
    <2>3. PICK next : next = Call(p, b)'
      OBVIOUS
    <2>4. Call(q, b)' = theirs
      BY <1>2, <2>1, <2>2 DEF Calls
    <2>5. SUFFICES Alone(b, next, theirs)' /\ Alone(b, theirs, next)'
      <3>1. /\ Call(p, b)' = next /\ Call(Other(p), b)' = theirs
            /\ Call(q, b)' = theirs /\ Call(Other(q), b)' = next
        BY <2>1, <2>3, <2>4
      <3>2. QED
        BY <2>1, <3>1
    <2>6. ~overlapped[b]
      BY <1>2 DEF Calls, Copies, Adds, Passes, Hands, Puts, Fails, Empties, Overlaps
    <2>7. Alone(b, mine, theirs) /\ Alone(b, theirs, mine)
      BY <2>1, <2>2, <2>6 DEF One
    <2>8. /\ fill[b] \in Nat /\ BufferSize[b] \in Nat /\ fill[b] <= BufferSize[b]
          /\ Room(b) \in Nat /\ Room(b) = BufferSize[b] - fill[b]
      BY StoreTypes DEF RecorderTypes
    <2>9. Len(mine.data) \in Nat /\ Len(theirs.data) \in Nat
          /\ theirs.data \in Seq(Items(b))
      BY <2>1, <2>2, CallTypes
    <2>10. ASSUME NEW items \in Seq(Items(b)), Copies(p, b, items)
           PROVE  Alone(b, next, theirs)' /\ Alone(b, theirs, next)'
      <3>1. PICK piece : piece = Piece(b, items) /\ Len(piece) \in Nat
                         /\ Len(piece) <= Room(b)
        BY <2>8, FirstAndRest DEF Piece
      <3>2. /\ next.at = "copied" /\ next.data = piece
            /\ \A i \in 1 .. BufferSize[b] : i <= fill[b] => mem'[b][i] = mem[b][i]
            /\ fill'[b] = fill[b] /\ (err'[b] <=> err[b]) /\ ~err[b]
            /\ theirs.at \notin {"copied", "reset"}
        <4>1. theirs.at \notin {"copied", "reset"}
          BY <1>2, <2>1, <2>2, <2>10, NoOverlap DEF Copies
        <4>2. mem'[b] = [i \in 1 .. BufferSize[b] |->
                           IF i \in fill[b] + 1 .. fill[b] + Len(piece)
                             THEN piece[i - fill[b]] ELSE mem[b][i]]
          BY <2>10, <3>1 DEF Copies
        <4>3. \A i \in 1 .. BufferSize[b] : i <= fill[b] => mem'[b][i] = mem[b][i]
          BY <2>8, <4>2
        <4>4. next = [at |-> "copied", data |-> piece, todo |-> Rest(items, Room(b))]
          BY <2>3, <2>10, <3>1 DEF Copies
        <4>5. next.at = "copied" /\ next.data = piece
          BY <4>4
        <4>6. fill'[b] = fill[b]
          BY <2>10 DEF Copies
        <4>7. (err'[b] <=> err[b]) /\ ~err[b]
          BY <2>10, ZenonT(20) DEF Copies
        <4>8. QED
          BY <4>1, <4>3, <4>5, <4>6, <4>7
      <3>3. Alone(b, next, theirs)'
        BY <2>8, <3>1, <3>2 DEF Alone
      <3>4. Alone(b, theirs, next)'
        BY <2>7, <2>8, <2>9, <3>2, SMTT(30) DEF Alone
      <3>5. QED
        BY <3>3, <3>4
    <2>11. CASE Adds(p, b)
      <3>1. /\ mine.at = "copied" /\ next.at \in {"full", "idle"}
            /\ mem'[b] = mem[b] /\ theirs.at \notin {"copied", "reset"}
            /\ \/ /\ fill[b] + Len(mine.data) <= BufferSize[b]
                  /\ fill'[b] = fill[b] + Len(mine.data) /\ (err'[b] <=> err[b])
               \/ /\ fill[b] + Len(mine.data) > BufferSize[b]
                  /\ fill'[b] = fill[b] /\ err'[b]
        <4>1. theirs.at \notin {"copied", "reset"}
          BY <1>2, <2>1, <2>2, <2>11, NoOverlap DEF Adds
        <4>2. mine.at = "copied" /\ mem'[b] = mem[b]
          BY <2>2, <2>11 DEF Adds
        <4>3. \/ /\ fill[b] + Len(mine.data) <= BufferSize[b]
                 /\ fill'[b] = fill[b] + Len(mine.data) /\ (err'[b] <=> err[b])
              \/ /\ fill[b] + Len(mine.data) > BufferSize[b]
                 /\ fill'[b] = fill[b] /\ err'[b]
          <5>1. theirs.at # "copied"
            BY <4>1
          <5>2. QED
            BY <2>1, <2>2, <2>11, <5>1, ZenonT(30) DEF Adds
        <4>4. Returns(p, b, "full")
          BY <2>11 DEF Adds
        <4>5. next.at \in {"full", "idle"}
          BY <2>3, <4>4 DEF Returns, Idle
        <4>6. QED
          BY <4>1, <4>2, <4>3, <4>5
      <3>2. Alone(b, next, theirs)'
        BY <3>1 DEF Alone
      <3>3. Alone(b, theirs, next)'
        BY <2>7, <2>8, <2>9, <3>1 DEF Alone
      <3>4. QED
        BY <3>2, <3>3
    <2>12. CASE Passes(p, b)
      <3>1. /\ next.at \in {"again", "idle"}
            /\ mem'[b] = mem[b] /\ fill'[b] = fill[b] /\ err'[b] = err[b]
        BY <2>2, <2>3, <2>12 DEF Passes, Same, Returns, Idle
      <3>2. QED
        BY <2>7, <3>1 DEF Alone
    <2>13. CASE Hands(p, b)
      <3>1. /\ next.at = "flush" /\ next.data = SubSeq(mem[b], 1, fill[b])
            /\ mem'[b] = mem[b] /\ fill'[b] = fill[b] /\ (err'[b] <=> err[b])
            /\ ~err[b] /\ fill[b] > 0 /\ theirs.at \notin {"flush", "reset"}
        <4>1. theirs.at \notin {"flush", "reset"}
          BY <1>2, <2>1, <2>2, <2>13, NoOverlap DEF Hands
        <4>2. next = [at |-> "flush", data |-> SubSeq(mem[b], 1, fill[b]),
                      todo |-> Call(p, b).todo]
          BY <2>3, <2>13 DEF Hands
        <4>3. next.at = "flush" /\ next.data = SubSeq(mem[b], 1, fill[b])
          BY <4>2
        <4>4. mem'[b] = mem[b] /\ fill'[b] = fill[b] /\ fill[b] > 0
          BY <2>13 DEF Hands, Same
        <4>5. (err'[b] <=> err[b]) /\ ~err[b]
          BY <2>13, ZenonT(20) DEF Hands, Same
        <4>6. QED
          BY <4>1, <4>3, <4>4, <4>5
      <3>2. /\ Len(next.data) = fill[b]
            /\ \A i \in 1 .. fill[b] : next.data[i] = mem[b][i]
        BY <2>8, <3>1, StoreTypes, SubSeqProperties DEF RecorderTypes
      <3>3. Alone(b, next, theirs)'
        BY <2>8, <3>1, <3>2 DEF Alone
      <3>4. Alone(b, theirs, next)'
        BY <2>7, <3>1 DEF Alone
      <3>5. QED
        BY <3>3, <3>4
    <2>14. CASE Puts(p, b)
      <3>1. mine.at = "flush" /\ theirs.at \notin {"flush", "reset"} /\ ~err[b]
            /\ fill[b] > 0
        BY <2>2, <2>7, <2>14 DEF Puts, Alone
      <3>2. \/ err'[b] = TRUE /\ next.at = "idle"
            \/ /\ next.at = "reset"
               /\ mem'[b] = mem[b] /\ fill'[b] = fill[b] /\ err'[b] = err[b]
        BY <2>2, <2>3, <2>14 DEF Puts, Idle
      <3>3. QED
        BY <2>7, <3>1, <3>2 DEF Alone
    <2>15. CASE Fails(p, b)
      <3>1. /\ mine.at = "flush" /\ theirs.at \notin {"flush", "reset"}
            /\ err'[b] = TRUE /\ next.at = "idle"
        BY <2>2, <2>3, <2>7, <2>15 DEF Fails, Alone, Idle
      <3>2. QED
        BY <2>7, <3>1 DEF Alone
    <2>16. CASE Empties(p, b)
      <3>1. /\ next.at \in {"again", "idle"}
            /\ theirs.at \notin {"flush", "reset", "copied"}
        <4>1. theirs.at \notin {"copied", "reset"}
          BY <1>2, <2>1, <2>2, <2>16, NoOverlap DEF Empties
        <4>2. mine.at = "reset"
          BY <2>2, <2>16 DEF Empties
        <4>3. theirs.at \notin {"flush", "reset"}
          BY <2>7, <4>2 DEF Alone
        <4>4. next.at \in {"again", "idle"}
          BY <2>3, <2>16 DEF Empties, Returns, Idle
        <4>5. QED
          BY <4>1, <4>3, <4>4
      <3>2. QED
        BY <3>1 DEF Alone
    <2>17. QED
      BY <1>2, <2>10, <2>11, <2>12, <2>13, <2>14, <2>15, <2>16 DEF Calls
  <1>3. QED
    BY <1>1, <1>2 DEF One

-----------------------------------------------------------------------------
(* The output, from the shell to the documents                             *)

Out(b) == FlattenSeq(stored[b])

\* The reader does not write to the recording, it only flushes it.
OnlyFlushes ==
  /\ Call("reader", "recording").at \in {"idle", "flush", "reset"}
  /\ Call("reader", "recording").todo = <<>>

\* No step makes the reader write to the recording.
LEMMA OnlyFlushesStep ==
  ASSUME RecorderTypes, OnlyFlushes,
         Elsewhere("recording") \/ \E p \in Proc : Calls(p, "recording")
  PROVE  OnlyFlushes'
  <1>1. CASE Elsewhere("recording")
    BY <1>1, Names DEF Elsewhere, OnlyFlushes
  <1>2. CASE Calls("writer", "recording")
    BY <1>2, Names DEF Calls, OnlyFlushes, Other
  <1>3. CASE Calls("reader", "recording")
    <2>1. \/ Hands("reader", "recording") \/ Puts("reader", "recording")
          \/ Fails("reader", "recording") \/ Empties("reader", "recording")
      BY <1>3 DEF Calls, OnlyFlushes, Copies, Given, Adds, Passes
    <2>2. QED
      BY <2>1 DEF OnlyFlushes, Hands, Puts, Fails, Empties, Returns, Idle
  <1>4. QED
    BY <1>1, <1>2, <1>3, Names

\* What is stored, one document behind another.
LEMMA OutTypes ==
  ASSUME Stores, NEW b \in Buffers
  PROVE  Out(b) \in Seq(Items(b)) /\ Len(Out(b)) \in Nat
  <1>1. Out(b) \in Seq(Items(b))
    BY StoreTypes, FlattenType DEF Out
  <1>2. QED
    BY <1>1

\* A document that is stored where calls do not overlap is what the buffer holds
\* at its front.
LEMMA FrontIsStored ==
  ASSUME RecorderTypes, NEW p \in Proc, NEW b \in Buffers,
         Call(p, b).at = "flush", Alone(b, Call(p, b), Call(Other(p), b)),
         NEW doc \in Seq(Items(b)), Doc(p, b, doc),
         stored'[b] = Append(stored[b], doc)
  PROVE  /\ Out(b)' = Out(b) \o doc
         /\ Len(doc) \in Nat /\ Len(doc) = Len(Call(p, b).data) /\ Len(doc) <= fill[b]
         /\ \A i \in 1 .. Len(doc) : doc[i] = mem[b][i]
  <1>1. PICK data : data = Call(p, b).data
    OBVIOUS
  <1>2. data \in Seq(Items(b)) /\ Len(data) \in Nat
    BY <1>1, CallTypes
  <1>3. /\ Len(data) <= fill[b] /\ \A i \in 1 .. Len(data) : data[i] = mem[b][i]
        /\ Call(Other(p), b).at # "flush"
    BY <1>1 DEF Alone
  <1>4. /\ fill[b] \in 0 .. BufferSize[b] /\ BufferSize[b] \in Nat
        /\ mem[b] \in [1 .. BufferSize[b] -> Items(b)]
        /\ stored[b] \in Seq(Seq(Items(b)))
    BY StoreTypes DEF RecorderTypes
  <1>5. doc = data \/ doc = SubSeq(mem[b], 1, Len(data))
    BY <1>1, <1>3 DEF Doc
  <1>6. /\ Len(doc) = Len(data) /\ \A i \in 1 .. Len(data) : doc[i] = mem[b][i]
    <2>1. CASE doc = data
      BY <1>3, <2>1
    <2>2. CASE doc = SubSeq(mem[b], 1, Len(data))
      <3>1. \A i \in 1 .. Len(data) : i \in 1 .. BufferSize[b]
        BY <1>2, <1>3, <1>4
      <3>2. \A i \in 1 .. Len(data) : mem[b][i] \in Items(b)
        BY <1>4, <3>1
      <3>3. Len(data) \in Int /\ Len(data) - 1 + 1 = Len(data)
        BY <1>2
      <3>4. /\ Len(doc) = IF 1 <= Len(data) THEN Len(data) - 1 + 1 ELSE 0
            /\ \A i \in 1 .. Len(data) - 1 + 1 : doc[i] = mem[b][1 + i - 1]
        BY <2>2, <3>2, <3>3, SubSeqProperties
      <3>5. \A i \in 1 .. Len(data) : 1 + i - 1 = i
        OBVIOUS
      <3>6. Len(doc) = Len(data)
        BY <1>2, <3>4
      <3>7. \A i \in 1 .. Len(data) : doc[i] = mem[b][i]
        BY <3>3, <3>4, <3>5
      <3>8. QED
        BY <3>6, <3>7
    <2>3. QED
      BY <1>5, <2>1, <2>2
  <1>7. Out(b)' = Out(b) \o doc
    BY <1>4, FlattenAppend DEF Out
  <1>8. QED
    BY <1>1, <1>2, <1>3, <1>6, <1>7

\* What the buffer and the call that writes to it hold of the output behind what
\* is stored.
Held(w, r, filled) ==
  IF w.at = "reset" \/ r.at = "reset" THEN 0
    ELSE filled + (IF w.at = "copied" THEN Len(w.data) ELSE 0)

\* Behind the n bytes that are stored the memory holds the next ones, and what
\* the writer has in hand is what is left of the total.
Flow(n, held, todo, memory, total) ==
  /\ \A i \in 1 .. held : memory[i] = n + i - 1
  /\ \A i \in 1 .. Len(todo) : todo[i] = n + held + i - 1
  /\ n + held + Len(todo) = total

\* A flush of the reader's that waits to empty the buffer under the writer's
\* copy is not known of yet, but cannot end well.
Colliding(w, r) == w.at = "copied" /\ r.at = "reset"

Counted(out) == \A i \in 1 .. Len(out) : out[i] = i - 1

Flowing ==
  LET w == Call("writer", "recording")
      r == Call("reader", "recording")
  IN ~overlapped["recording"] =>
       /\ Counted(Out("recording"))
       /\ ~err["recording"] /\ ~Colliding(w, r) =>
            Flow(Len(Out("recording")), Held(w, r, fill["recording"]), w.todo,
                 mem["recording"], Bound)

\* An emptied buffer, behind which the rest of a call goes on.
LEMMA FlowEmpty ==
  ASSUME NEW n, NEW todo, NEW m, NEW total,
         \A i \in 1 .. Len(todo) : todo[i] = n + 0 + i - 1,
         n + 0 + Len(todo) = total
  PROVE  Flow(n, 0, todo, m, total)
  <1>1. \A i \in 1 .. 0 : m[i] = n + i - 1
    OBVIOUS
  <1>2. QED
    BY <1>1, Zenon DEF Flow

\* What is copied continues what the buffer holds.
LEMMA FlowOn ==
  ASSUME NEW n \in Nat, NEW f \in Nat, NEW size \in Nat, f <= size, NEW total,
         NEW items \in Seq(Byte), NEW piece, NEW rest,
         piece = First(items, size - f), rest = Rest(items, size - f),
         NEW m, NEW m2 \in [1 .. size -> Byte],
         Flow(n, f, items, m, total),
         m2 = [i \in 1 .. size |->
                 IF i \in f + 1 .. f + Len(piece) THEN piece[i - f] ELSE m[i]]
  PROVE  Flow(n, f + Len(piece), rest, m2, total)
  <1>1. size - f \in Nat
    OBVIOUS
  <1>2. /\ piece \in Seq(Byte) /\ rest \in Seq(Byte)
        /\ Len(piece) \in Nat /\ Len(rest) \in Nat /\ Len(piece) <= size - f
    BY <1>1, FirstAndRest
  <1>3. piece \o rest = items
    BY <1>1, FirstThenRest
  <1>4. /\ Len(items) = Len(piece) + Len(rest)
        /\ \A i \in 1 .. Len(piece) : items[i] = piece[i]
        /\ \A i \in 1 .. Len(rest) : items[Len(piece) + i] = rest[i]
    BY <1>2, <1>3
  <1>5. \A i \in 1 .. f + Len(piece) : m2[i] = n + i - 1
    <2>1. SUFFICES ASSUME NEW i \in 1 .. f + Len(piece) PROVE m2[i] = n + i - 1
      OBVIOUS
    <2>2. i \in 1 .. size
      BY <1>2
    <2>3. CASE i <= f
      <3>1. m2[i] = m[i] /\ i \in 1 .. f
        BY <1>2, <2>2, <2>3
      <3>2. QED
        BY <3>1 DEF Flow
    <2>4. CASE ~(i <= f)
      <3>1. PICK k \in 1 .. Len(piece) : k = i - f
        BY <1>2, <2>4
      <3>2. m2[i] = piece[k]
        BY <1>2, <2>2, <2>4, <3>1
      <3>3. k \in 1 .. Len(items) /\ items[k] = piece[k]
        BY <1>2, <1>4, <3>1
      <3>4. items[k] = n + f + k - 1
        BY <3>3 DEF Flow
      <3>5. QED
        BY <3>1, <3>2, <3>3, <3>4
    <2>5. QED
      BY <2>3, <2>4
  <1>6. \A i \in 1 .. Len(rest) : rest[i] = n + (f + Len(piece)) + i - 1
    <2>1. SUFFICES ASSUME NEW i \in 1 .. Len(rest)
                   PROVE  rest[i] = n + (f + Len(piece)) + i - 1
      OBVIOUS
    <2>2. items[Len(piece) + i] = rest[i]
      BY <1>4
    <2>5. Len(piece) + i \in 1 .. Len(items)
      BY <1>2, <1>4
    <2>3. items[Len(piece) + i] = n + f + (Len(piece) + i) - 1
      BY <2>5 DEF Flow
    <2>4. QED
      BY <1>2, <2>2, <2>3
  <1>7. n + (f + Len(piece)) + Len(rest) = total
    BY <1>2, <1>4 DEF Flow
  <1>8. QED
    BY <1>5, <1>6, <1>7 DEF Flow

\* What is stored next continues what is stored.
LEMMA CountedOn ==
  ASSUME NEW out \in Seq(Byte), NEW doc \in Seq(Byte), Counted(out),
         \A i \in 1 .. Len(doc) : doc[i] = Len(out) + i - 1
  PROVE  Counted(out \o doc) /\ Len(out \o doc) = Len(out) + Len(doc)
  <1>1. /\ Len(out) \in Nat /\ Len(doc) \in Nat /\ Len(out \o doc) = Len(out) + Len(doc)
        /\ \A i \in 1 .. Len(out) + Len(doc) :
             (out \o doc)[i] = IF i <= Len(out) THEN out[i] ELSE doc[i - Len(out)]
    OBVIOUS
  <1>2. SUFFICES ASSUME NEW i \in 1 .. Len(out) + Len(doc)
                 PROVE  (out \o doc)[i] = i - 1
    BY <1>1 DEF Counted
  <1>3. CASE i <= Len(out)
    <2>1. i \in 1 .. Len(out)
      BY <1>1, <1>3
    <2>2. QED
      BY <1>1, <1>3, <2>1 DEF Counted
  <1>4. CASE ~(i <= Len(out))
    <2>1. PICK k \in 1 .. Len(doc) : k = i - Len(out)
      BY <1>1, <1>4
    <2>2. doc[k] = Len(out) + k - 1
      OBVIOUS
    <2>3. (out \o doc)[i] = doc[k]
      BY <1>1, <1>4, <2>1
    <2>4. QED
      BY <1>1, <2>1, <2>2, <2>3
  <1>5. QED
    BY <1>3, <1>4

\* The output stays in order, and what is not stored yet is in the buffer or in
\* the writer's hand.
LEMMA FlowingStep ==
  ASSUME RecorderTypes, One("recording"), OnlyFlushes, Flowing, Bound \in Nat,
         Elsewhere("recording") \/ \E p \in Proc : Calls(p, "recording")
  PROVE  Flowing'
  <1> DEFINE b == "recording"
  <1>0. b \in Buffers /\ "reader" \in Proc /\ "writer" \in Proc
        /\ Other("reader") = "writer" /\ Other("writer") = "reader"
    BY Names DEF Other
  <1> HIDE DEF b
  <1>1. \E n \in Nat, f \in Nat, size \in Nat : \E m \in [1 .. size -> Byte] :
          n = Len(Out(b)) /\ f = fill[b] /\ f <= size /\ size = BufferSize[b] /\ m = mem[b]
    <2>1. Items(b) = Byte
      BY DEF b, Items
    <2>2. /\ mem[b] \in [1 .. BufferSize[b] -> Byte] /\ BufferSize[b] \in Nat
          /\ fill[b] \in Nat /\ fill[b] <= BufferSize[b]
      BY <1>0, <2>1, StoreTypes DEF RecorderTypes
    <2>3. Len(Out(b)) \in Nat
      BY <1>0, OutTypes DEF RecorderTypes
    <2>4. QED
      BY <2>2, <2>3
  <1>2. PICK n \in Nat, f \in Nat, size \in Nat : \E m \in [1 .. size -> Byte] :
          n = Len(Out(b)) /\ f = fill[b] /\ f <= size /\ size = BufferSize[b] /\ m = mem[b]
    BY <1>1
  <1>3. PICK m \in [1 .. size -> Byte] :
          n = Len(Out(b)) /\ f = fill[b] /\ f <= size /\ size = BufferSize[b] /\ m = mem[b]
    BY <1>2
  <1>4. PICK w, r : w = Call("writer", b) /\ r = Call("reader", b)
    OBVIOUS
  <1>5. PICK w2, r2, f2, m2 : /\ w2 = Call("writer", b)' /\ r2 = Call("reader", b)'
                              /\ f2 = fill'[b] /\ m2 = mem'[b]
    OBVIOUS
  <1>6. /\ w.data \in Seq(Byte) /\ w.todo \in Seq(Byte)
        /\ Len(w.data) \in Nat /\ Len(w.todo) \in Nat
        /\ r.at \in {"idle", "flush", "reset"}
    BY <1>0, <1>3, <1>4, CallTypes DEF b, Items, OnlyFlushes
  <1>7. Out(b) \in Seq(Byte)
    BY <1>0, OutTypes DEF b, Items, RecorderTypes
  <1>8. ~overlapped[b] => /\ Counted(Out(b))
                          /\ ~err[b] /\ ~Colliding(w, r) =>
                               Flow(n, Held(w, r, f), w.todo, m, Bound)
    BY <1>3, <1>4 DEF Flowing, b
  <1>9. SUFFICES ASSUME ~overlapped'[b]
                 PROVE  /\ Counted(Out(b)')
                        /\ ~err'[b] /\ ~Colliding(w2, r2) =>
                             Flow(Len(Out(b)'), Held(w2, r2, f2), w2.todo, m2, Bound')
    BY <1>5 DEF Flowing, b
  <1>10. ~overlapped[b] /\ (stored'[b] = stored[b] => Out(b)' = Out(b))
    <2>1. Elsewhere(b) \/ \E p \in Proc : Calls(p, b)
      BY DEF b
    <2>2. ~overlapped[b]
      BY <1>9, <2>1, ZenonT(30)
         DEF Elsewhere, Calls, Copies, Adds, Passes, Hands, Puts, Fails, Empties, Overlaps
    <2>3. QED
      BY <2>2 DEF Out
  <1>11. Alone(b, w, r) /\ Alone(b, r, w)
    BY <1>0, <1>3, <1>4, <1>10 DEF One, b
  <1>12. CASE Elsewhere(b)
    <2>1. /\ w2 = w /\ r2 = r /\ f2 = f /\ m2 = m /\ Out(b)' = Out(b)
          /\ Bound' = Bound \/ err[b]
      BY <1>0, <1>3, <1>4, <1>5, <1>10, <1>12 DEF Elsewhere, Same, b
    <2>2. err'[b] <=> err[b]
      BY <1>12, ZenonT(20) DEF Elsewhere, Same
    <2>3. QED
      BY <1>3, <1>4, <1>8, <1>10, <2>1, <2>2
  <1>13. ASSUME NEW p \in Proc, Calls(p, b), NEW items \in Seq(Items(b)),
                Copies(p, b, items)
         PROVE  /\ Counted(Out(b)')
                /\ Flow(Len(Out(b)'), Held(w2, r2, f2), w2.todo, m2, Bound')
    <2>1. p = "writer" /\ items \in Seq(Byte)
      BY <1>3, <1>4, <1>6, <1>13, Names DEF Copies, Given, b, Items
    <2>2. r2 = r /\ r.at \notin {"copied", "reset"}
      BY <1>0, <1>3, <1>4, <1>5, <1>9, <1>13, <2>1, NoOverlap DEF Calls, Copies
    <2>3. PICK piece, rest : piece = First(items, size - f) /\ rest = Rest(items, size - f)
      OBVIOUS
    <2>4. /\ w2 = [at |-> "copied", data |-> piece, todo |-> rest]
          /\ m2 = [i \in 1 .. size |->
                 IF i \in f + 1 .. f + Len(piece) THEN piece[i - f] ELSE m[i]]
          /\ f2 = f /\ Out(b)' = Out(b)
      <3>1. Room(b) = size - f /\ Piece(b, items) = piece
        BY <1>3, <1>4, <2>3 DEF Room, Piece
      <3>2. QED
        BY <1>3, <1>4, <1>5, <1>10, <1>13, <2>1, <2>3, <3>1 DEF Copies
    <2>5. Held(w2, r2, f2) = f + Len(piece) /\ w2.todo = rest
      BY <2>2, <2>4 DEF Held
    <2>6. ~err[b] /\ w.at \in {"again", "idle"}
      BY <1>3, <1>4, <1>13, <2>1 DEF Copies, Given
    <2>7. Held(w, r, f) = f /\ ~Colliding(w, r)
      BY <2>2, <2>6 DEF Held, Colliding
    <2>8. Flow(n, f, w.todo, m, Bound)
      BY <1>8, <1>10, <2>6, <2>7
    <2>9. Flow(n, f, items, m, Bound')
      <3>1. CASE w.at = "again"
        <4>1. items = w.todo /\ Bound' = Bound
          BY <1>3, <1>4, <1>13, <2>1, <3>1 DEF Copies, Given, Bound
        <4>2. QED
          BY <2>8, <4>1
      <3>2. CASE w.at = "idle"
        <4>1. /\ body = 0 /\ body' \in Nat /\ recordedBytes' = recordedBytes
              /\ items = [i \in 1 .. body' |-> recordedBytes + i - 1]
          BY <1>3, <1>4, <1>13, <2>1, <3>2 DEF Copies, Given, b
        <4>2. Len(items) = body' /\ \A i \in 1 .. body' : items[i] = recordedBytes + i - 1
          BY <4>1
        <4>3. w.todo = <<>>
          <5>1. ~In("writer", Inside, b)
            BY <1>0, <1>4, <3>2, InCall DEF Inside
          <5>2. QED
            BY <1>3, <1>4, <5>1 DEF Call, Idle
        <4>4. recordedBytes \in Nat
          BY KnownSizes DEF RecorderTypes, Counts
        <4>5. n + f = recordedBytes /\ \A i \in 1 .. f : m[i] = n + i - 1
          BY <2>8, <4>1, <4>3, <4>4 DEF Flow, Bound
        <4>6. Bound' = recordedBytes + body'
          BY <4>1 DEF Bound
        <4>7. QED
          BY <4>1, <4>2, <4>4, <4>5, <4>6 DEF Flow
      <3>3. QED
        BY <2>6, <3>1, <3>2
    <2>10. m2 \in [1 .. size -> Byte]
      <3>0. size - f \in Nat
        BY <1>3
      <3>1. piece \in Seq(Byte) /\ Len(piece) \in Nat
        BY <2>1, <2>3, <3>0, FirstAndRest
      <3>2. \A i \in 1 .. size : i \in f + 1 .. f + Len(piece) => i - f \in 1 .. Len(piece)
        BY <3>1
      <3>3. \A k \in 1 .. Len(piece) : piece[k] \in Byte
        BY <3>1
      <3>4. QED
        BY <1>3, <1>4, <2>4, <3>1, <3>2, <3>3
    <2>11. Flow(n, f + Len(piece), rest, m2, Bound')
      <3>1. PICK total : total = Bound'
        OBVIOUS
      <3>2. /\ f <= size /\ items \in Seq(Byte) /\ Flow(n, f, items, m, total)
            /\ piece = First(items, size - f) /\ rest = Rest(items, size - f)
            /\ m2 \in [1 .. size -> Byte]
            /\ m2 = [i \in 1 .. size |->
                 IF i \in f + 1 .. f + Len(piece) THEN piece[i - f] ELSE m[i]]
        BY <1>3, <2>1, <2>3, <2>4, <2>9, <2>10, <3>1
      <3>3. Flow(n, f + Len(piece), rest, m2, total)
        <4> HIDE DEF b
        <4>1. n \in Nat /\ f \in Nat /\ size \in Nat
          BY <1>2
        <4>2. QED
          BY <3>2, <4>1, FlowOn, ZenonT(30)
      <3>4. QED
        BY <3>1, <3>3
    <2>12. QED
      BY <1>3, <1>4, <1>8, <1>10, <2>4, <2>5, <2>11
  <1>14. ASSUME NEW p \in Proc, Calls(p, b), Adds(p, b) \/ Passes(p, b)
         PROVE  /\ Out(b)' = Out(b)
                /\ ~err'[b] => /\ ~err[b] /\ ~Colliding(w, r)
                               /\ Held(w2, r2, f2) = Held(w, r, f) /\ w2.todo = w.todo
                               /\ m2 = m /\ Bound' = Bound
    <2>1. p = "writer" /\ r2 = r
      <3>1. p = "writer"
        BY <1>3, <1>4, <1>6, <1>14, Names DEF Adds, Passes
      <3>2. QED
        BY <1>0, <1>3, <1>4, <1>5, <1>14, <3>1 DEF Calls
    <2>2. CASE Adds("writer", b)
      <3>1. w.at = "copied" /\ r.at # "reset" /\ r.at # "copied"
        BY <1>0, <1>3, <1>4, <1>6, <1>9, <2>2, NoOverlap DEF Adds
      <3>2. /\ m2 = m /\ Bound' = Bound /\ stored'[b] = stored[b] /\ w2.todo = w.todo
            /\ w2.at \in {"full", "idle"}
        BY <1>3, <1>4, <1>5, <2>2 DEF Adds, Returns, Idle, Bound
      <3>3. /\ err'[b] \/ (f2 = f + Len(w.data) /\ (err'[b] <=> err[b]))
        BY <1>0, <1>3, <1>4, <1>5, <2>2, <3>1, ZenonT(30) DEF Adds
      <3>4. QED
        BY <1>10, <2>1, <3>1, <3>2, <3>3 DEF Held, Colliding
    <2>3. CASE Passes("writer", b)
      <3>1. /\ w.at \in {"full", "again"} /\ m2 = m /\ f2 = f /\ stored'[b] = stored[b]
            /\ Bound' = Bound
            /\ err[b] \/ (w2.todo = w.todo /\ w2.at \in {"again", "idle"})
        BY <1>3, <1>4, <1>5, <2>3 DEF Passes, Returns, Same, Idle, Bound
      <3>2. err'[b] <=> err[b]
        BY <2>3, ZenonT(20) DEF Passes, Same
      <3>3. QED
        BY <1>10, <2>1, <3>1, <3>2 DEF Held, Colliding
    <2>4. QED
      BY <1>14, <2>1, <2>2, <2>3
  <1>15. ASSUME NEW p \in Proc, Calls(p, b), Hands(p, b)
         PROVE  /\ Out(b)' = Out(b) /\ ~err[b] /\ ~Colliding(w, r)
                /\ Held(w2, r2, f2) = Held(w, r, f) /\ w2.todo = w.todo
                /\ m2 = m /\ Bound' = Bound
    <2>1. /\ m2 = m /\ f2 = f /\ ~err[b] /\ stored'[b] = stored[b] /\ Bound' = Bound
      BY <1>3, <1>4, <1>5, <1>15 DEF Hands, Same, Bound
    <2>2. \/ p = "writer" /\ r2 = r /\ w.at \in {"idle", "full"} /\ w2.at = "flush"
             /\ w2.todo = w.todo /\ r.at # "reset"
          \/ p = "reader" /\ w2 = w /\ r.at \in {"idle", "full"} /\ r2.at = "flush"
             /\ w.at # "reset"
      <3>1. Call(Other(p), b).at \notin {"flush", "reset"}
        BY <1>9, <1>15, NoOverlap DEF Hands
      <3>2. QED
        BY <1>0, <1>3, <1>4, <1>5, <1>15, <3>1, Names DEF Hands, Calls
    <2>3. QED
      BY <1>10, <2>1, <2>2 DEF Held, Colliding
  <1>16. ASSUME NEW p \in Proc, Calls(p, b), Puts(p, b) \/ Fails(p, b)
         PROVE  /\ Counted(Out(b)')
                /\ ~err'[b] /\ ~Colliding(w2, r2) =>
                     Flow(Len(Out(b)'), Held(w2, r2, f2), w2.todo, m2, Bound')
    <2>1. PICK mine, theirs :
            /\ mine = Call(p, b) /\ theirs = Call(Other(p), b)
            /\ (p = "writer" /\ mine = w /\ theirs = r)
                 \/ (p = "reader" /\ mine = r /\ theirs = w)
      BY <1>0, <1>3, <1>4, Names
    <2>2. mine.at = "flush" /\ Alone(b, mine, theirs)
      BY <1>11, <1>16, <2>1 DEF Puts, Fails
    <2>3. ~err[b] /\ theirs.at \notin {"flush", "reset"} /\ ~Colliding(w, r)
      BY <2>1, <2>2 DEF Alone, Colliding
    <2>4. Flow(n, Held(w, r, f), w.todo, m, Bound) /\ Counted(Out(b))
      BY <1>8, <1>10, <2>3
    <2>5. /\ Held(w, r, f) \in Nat /\ f <= Held(w, r, f)
          /\ w.at # "copied" => Held(w, r, f) = f
      BY <1>3, <1>4, <1>6, <2>1, <2>2, <2>3 DEF Held
    <2>6. \/ Out(b)' = Out(b)
          \/ \E doc \in Seq(Byte) :
               /\ Out(b)' = Out(b) \o doc /\ Len(doc) \in Nat
               /\ Len(doc) = Len(mine.data) /\ Len(doc) <= f
               /\ \A i \in 1 .. Len(doc) : doc[i] = m[i]
      <3>1. CASE stored'[b] = stored[b]
        BY <1>10, <3>1
      <3>2. CASE \E doc \in Seq(Items(b)) :
                   Doc(p, b, doc) /\ stored'[b] = Append(stored[b], doc)
        <4>1. PICK doc \in Seq(Byte) :
                   Doc(p, b, doc) /\ stored'[b] = Append(stored[b], doc)
          BY <3>2 DEF Items, b
        <4>2. doc \in Seq(Items(b))
          BY DEF Items, b
        <4>3. QED
          BY <1>0, <1>3, <1>4, <2>1, <2>2, <4>1, <4>2, FrontIsStored
      <3>3. QED
        BY <1>16, <3>1, <3>2 DEF Puts, Fails
    <2>7. /\ Counted(Out(b)')
          /\ Out(b)' # Out(b) => Len(Out(b)') = n + Len(mine.data)
      <3>1. ASSUME NEW doc \in Seq(Byte), Out(b)' = Out(b) \o doc,
                   Len(doc) \in Nat, Len(doc) = Len(mine.data), Len(doc) <= f,
                   \A i \in 1 .. Len(doc) : doc[i] = m[i]
            PROVE  Counted(Out(b)') /\ Len(Out(b)') = n + Len(mine.data)
        <4>1. \A i \in 1 .. Len(doc) : i \in 1 .. Held(w, r, f)
          BY <1>3, <1>4, <2>5, <3>1
        <4>2. \A i \in 1 .. Len(doc) : doc[i] = Len(Out(b)) + i - 1
          BY <1>3, <1>4, <2>4, <3>1, <4>1 DEF Flow
        <4>3. QED
          BY <1>3, <1>4, <1>7, <2>4, <3>1, <4>2, CountedOn
      <3>2. QED
        BY <2>4, <2>6, <3>1
    <2>8. ASSUME ~err'[b], ~Colliding(w2, r2)
          PROVE  Flow(Len(Out(b)'), Held(w2, r2, f2), w2.todo, m2, Bound')
      <3>1. Puts(p, b)
        BY <1>16, <2>8 DEF Fails
      <3>2. /\ ~(Len(mine.data) < f) /\ m2 = m /\ f2 = f /\ Bound' = Bound
            /\ Call(p, b)' = [at |-> "reset", data |-> <<>>, todo |-> mine.todo]
        BY <1>3, <1>4, <1>5, <2>1, <2>8, <3>1 DEF Puts, Bound
      <3>3. PICK doc \in Seq(Byte) : /\ Out(b)' = Out(b) \o doc /\ Len(doc) \in Nat
                                     /\ Len(doc) = Len(mine.data) /\ Len(doc) <= f
                                     /\ \A i \in 1 .. Len(doc) : doc[i] = m[i]
        <4>1. PICK doc \in Seq(Byte) :
                   Doc(p, b, doc) /\ stored'[b] = Append(stored[b], doc)
          BY <3>1 DEF Puts, Items, b
        <4>2. doc \in Seq(Items(b))
          BY DEF Items, b
        <4>3. /\ Out(b)' = Out(b) \o doc
              /\ Len(doc) \in Nat /\ Len(doc) = Len(Call(p, b).data)
              /\ Len(doc) <= fill[b] /\ \A i \in 1 .. Len(doc) : doc[i] = mem[b][i]
          BY <1>0, <2>1, <2>2, <4>1, <4>2, FrontIsStored
        <4>4. QED
          BY <1>3, <2>1, <4>3
      <3>4. Len(mine.data) = f
        BY <1>3, <1>4, <3>2, <3>3
      <3>5. Len(Out(b)') = n + f
        <4>1. Len(Out(b) \o doc) = n + Len(doc)
          BY <1>3, <1>4, <1>7
        <4>2. QED
          BY <3>3, <3>4, <4>1
      <3>6. w.at # "copied" /\ w2.todo = w.todo /\ Held(w2, r2, f2) = 0
        <4>1. CASE p = "writer"
          <5>1. w2 = [at |-> "reset", data |-> <<>>, todo |-> w.todo] /\ w.at = "flush"
            BY <1>5, <2>1, <2>2, <3>2, <4>1
          <5>2. QED
            BY <5>1 DEF Held
        <4>2. CASE p = "reader"
          <5>1. w2 = w /\ r2.at = "reset"
            BY <1>0, <1>3, <1>4, <1>5, <1>16, <3>2, <4>2 DEF Calls
          <5>2. QED
            BY <2>8, <5>1 DEF Held, Colliding
        <4>3. QED
          BY <4>1, <4>2, Names
      <3>7. /\ \A i \in 1 .. Len(w.todo) : w.todo[i] = n + f + i - 1
            /\ n + f + Len(w.todo) = Bound
        BY <2>4, <2>5, <3>6 DEF Flow
      <3>8. /\ \A i \in 1 .. Len(w.todo) : w.todo[i] = (n + f) + 0 + i - 1
            /\ (n + f) + 0 + Len(w.todo) = Bound
        BY <1>3, <1>4, <1>6, <3>7
      <3>9. Flow(n + f, 0, w.todo, m2, Bound)
        BY <3>8, FlowEmpty, Zenon
      <3>10. QED
        BY <3>2, <3>5, <3>6, <3>9
    <2>9. QED
      BY <2>7, <2>8
  <1>17. ASSUME NEW p \in Proc, Calls(p, b), Empties(p, b)
         PROVE  /\ Out(b)' = Out(b) /\ ~err[b] /\ ~Colliding(w, r)
                /\ Held(w2, r2, f2) = 0 /\ Held(w, r, f) = 0 /\ w2.todo = w.todo
                /\ m2 = m /\ Bound' = Bound
    <2>1. Call(Other(p), b).at \notin {"copied", "reset"}
      BY <1>9, <1>17, NoOverlap DEF Empties
    <2>2. m2 = m /\ Bound' = Bound /\ f2 = 0 /\ stored'[b] = stored[b]
      BY <1>3, <1>4, <1>5, <1>17, <2>1 DEF Empties, Returns, Bound
    <2>3. \/ /\ p = "writer" /\ w.at = "reset" /\ r.at \notin {"copied", "reset"}
             /\ r2 = r /\ w2.at \in {"again", "idle"} /\ w2.todo = w.todo
          \/ /\ p = "reader" /\ r.at = "reset" /\ w.at \notin {"copied", "reset"}
             /\ w2 = w /\ r2.at \in {"again", "idle"}
      BY <1>0, <1>3, <1>4, <1>5, <1>17, <2>1, Names DEF Calls, Empties, Returns, Idle
    <2>4. ~err[b]
      BY <1>11, <2>3 DEF Alone
    <2>5. QED
      BY <1>10, <2>2, <2>3, <2>4 DEF Held, Colliding
  <1>18. ASSUME NEW p \in Proc, Calls(p, b)
         PROVE  /\ Counted(Out(b)')
                /\ ~err'[b] /\ ~Colliding(w2, r2) =>
                     Flow(Len(Out(b)'), Held(w2, r2, f2), w2.todo, m2, Bound')
    <2>1. CASE \E items \in Seq(Items(b)) : Copies(p, b, items)
      BY <1>13, <1>18, <2>1
    <2>2. CASE Adds(p, b) \/ Passes(p, b)
      BY <1>3, <1>4, <1>8, <1>10, <1>14, <1>18, <2>2
    <2>3. CASE Hands(p, b)
      BY <1>3, <1>4, <1>8, <1>10, <1>15, <1>18, <2>3
    <2>4. CASE Puts(p, b) \/ Fails(p, b)
      BY <1>16, <1>18, <2>4
    <2>5. CASE Empties(p, b)
      BY <1>3, <1>4, <1>8, <1>10, <1>17, <1>18, <2>5
    <2>6. QED
      BY <1>18, <2>1, <2>2, <2>3, <2>4, <2>5 DEF Calls
  <1>19. QED
    BY <1>12, <1>18 DEF b

\* Nothing of the output is left behind: what is flushed is all that the buffer
\* holds, and the buffer stays empty behind the reader's flush, unless output is
\* recorded late or an insertion fails.
Whole ==
  ~overlapped["recording"] =>
    /\ err["recording"] => faulted \/ late
    /\ \A p \in Proc : Call(p, "recording").at = "flush" /\ (p = "writer" \/ ~late)
         => Len(Call(p, "recording").data) = fill["recording"]
    /\ Past /\ ~late /\ ~err["recording"] => fill["recording"] = 0

\* The reader flushes the recording only when it ends.
LEMMA EndingWhenFlushing ==
  ASSUME RecorderTypes
  PROVE  /\ Past => ReaderEnding
         /\ Call("reader", "recording").at = "flush" => ReaderEnding
  <1>1. Past => ReaderEnding
    BY DEF Past, ReaderEnding, Toward
  <1>2. ASSUME Call("reader", "recording").at = "flush" PROVE ReaderEnding
    <2>1. In("reader", {"flush"}, "recording")
      BY <1>2, InCall, Names DEF Inside
    <2>2. pc["reader"] \in Inside /\ job["reader"].buffer = "recording"
      BY <2>1 DEF In, Inside
    <2>3. job["reader"].after \in FlushTo("reader", "recording")
      BY <2>2, JobTypes, Names DEF RecorderTypes
    <2>4. QED
      BY <2>2, <2>3 DEF FlushTo, ReaderEnding, Toward
  <1>3. QED
    BY <1>1, <1>2

\* No step leaves output behind.
LEMMA WholeStep ==
  ASSUME RecorderTypes, One("recording"), OnlyFlushes, Whole,
         Elsewhere("recording") \/ \E p \in Proc : Calls(p, "recording")
  PROVE  Whole'
  <1> DEFINE b == "recording"
  <1>0. b \in Buffers /\ "reader" \in Proc /\ "writer" \in Proc
        /\ Other("reader") = "writer" /\ Other("writer") = "reader"
    BY Names DEF Other
  <1> HIDE DEF b
  <1>1. PICK w, r, f, w2, r2, f2 :
          /\ w = Call("writer", b) /\ r = Call("reader", b) /\ f = fill[b]
          /\ w2 = Call("writer", b)' /\ r2 = Call("reader", b)' /\ f2 = fill'[b]
    OBVIOUS
  <1>2. /\ r.at \in {"idle", "flush", "reset"}
        /\ f \in Nat /\ f <= BufferSize[b] /\ BufferSize[b] \in Nat
        /\ Len(w.data) \in Nat /\ Len(r.data) \in Nat
    BY <1>0, <1>1, CallTypes, StoreTypes DEF b, OnlyFlushes, RecorderTypes
  <1>3. SUFFICES ASSUME ~overlapped'[b]
                 PROVE  /\ err'[b] => faulted' \/ late'
                        /\ w2.at = "flush" => Len(w2.data) = f2
                        /\ r2.at = "flush" /\ ~late' => Len(r2.data) = f2
                        /\ Past' /\ ~late' /\ ~err'[b] => f2 = 0
    BY <1>1, Names DEF Whole, b
  <1>4. ~overlapped[b]
    <2>1. Elsewhere(b) \/ \E p \in Proc : Calls(p, b)
      BY DEF b
    <2>2. QED
      BY <1>3, <2>1, ZenonT(30)
         DEF Elsewhere, Calls, Copies, Adds, Passes, Hands, Puts, Fails, Empties, Overlaps
  <1>5. Alone(b, w, r) /\ Alone(b, r, w)
    BY <1>0, <1>1, <1>4 DEF One, b
  <1>6. /\ err[b] => faulted \/ late
        /\ w.at = "flush" => Len(w.data) = f
        /\ r.at = "flush" /\ ~late => Len(r.data) = f
        /\ Past /\ ~late /\ ~err[b] => f = 0
    BY <1>0, <1>1, <1>4 DEF Whole, b
  <1>7. ASSUME NEW p \in Proc, Calls(p, b)
        PROVE  \/ p = "writer" /\ r2 = r /\ (Past' <=> Past)
               \/ p = "reader" /\ w2 = w
    BY <1>0, <1>1, <1>7, Names, PastStays DEF Calls
  <1>8. CASE Elsewhere(b)
    <2>1. /\ w2 = w /\ r2 = r /\ f2 = f
          /\ late => late'
          /\ faulted => faulted'
          /\ Past' => Past \/ err[b] \/ f = 0
      BY <1>0, <1>1, <1>8 DEF Elsewhere, Same, b
    <2>2. err'[b] <=> err[b]
      BY <1>8, ZenonT(20) DEF Elsewhere, Same
    <2>3. QED
      BY <1>6, <2>1, <2>2
  <1>9. ASSUME NEW p \in Proc, Calls(p, b), NEW items \in Seq(Items(b)),
               Copies(p, b, items)
        PROVE  /\ w2.at = "copied" /\ r2 = r /\ f2 = f /\ (Past' <=> Past)
               /\ (err'[b] <=> err[b]) /\ faulted' = faulted /\ (late => late')
    <2>1. p = "writer"
      BY <1>1, <1>2, <1>9, Names DEF Copies, Given, b
    <2>2. f2 = f /\ faulted' = faulted /\ (late => late')
      BY <1>1, <1>9 DEF Copies, Lates
    <2>3. err'[b] <=> err[b]
      BY <1>9, ZenonT(20) DEF Copies
    <2>4. w2.at = "copied"
      <3>1. PICK piece, rest : Call(p, b)' = [at |-> "copied", data |-> piece, todo |-> rest]
        BY <1>9 DEF Copies
      <3>2. QED
        BY <1>1, <2>1, <3>1
    <2>5. QED
      BY <1>7, <1>9, <2>1, <2>2, <2>3, <2>4
  <1>10. ASSUME NEW p \in Proc, Calls(p, b), Adds(p, b)
         PROVE  /\ w2.at \in {"full", "idle"} /\ r2 = r /\ (Past' <=> Past)
                /\ err'[b] => err[b]
                /\ faulted' = faulted /\ late' = (late \/ ReaderEnding)
    <2>1. p = "writer" /\ w.at = "copied"
      BY <1>1, <1>2, <1>10, Names DEF Adds
    <2>2. faulted' = faulted /\ late' = (late \/ ReaderEnding)
      BY <1>10, <2>1 DEF Adds, Lates, b
    <2>3. w2.at \in {"full", "idle"}
      BY <1>1, <1>10, <2>1 DEF Adds, Returns, Idle
    <2>4. ASSUME ~err[b] PROVE ~err'[b]
      <3>1. f + Len(w.data) <= BufferSize[b]
        BY <1>1, <1>5, <2>1, <2>4 DEF Alone
      <3>2. ~(f + Len(w.data) > BufferSize[b])
        BY <1>2, <3>1
      <3>3. QED
        BY <1>1, <1>10, <2>1, <2>4, <3>2, ZenonT(20) DEF Adds
    <2>5. QED
      BY <1>7, <1>10, <2>1, <2>2, <2>3, <2>4
  <1>11. ASSUME NEW p \in Proc, Calls(p, b), Passes(p, b)
         PROVE  /\ w2.at \in {"again", "idle"} /\ r2 = r /\ (Past' <=> Past) /\ f2 = f
                /\ (err'[b] <=> err[b]) /\ UNCHANGED <<late, faulted>>
    <2>1. p = "writer"
      BY <1>1, <1>2, <1>11, Names DEF Passes
    <2>2. w2.at \in {"again", "idle"} /\ f2 = f /\ UNCHANGED <<late, faulted>>
      BY <1>1, <1>11, <2>1 DEF Passes, Returns, Idle, Same
    <2>3. err'[b] <=> err[b]
      BY <1>11, ZenonT(20) DEF Passes, Same
    <2>4. QED
      BY <1>7, <1>11, <2>1, <2>2, <2>3
  <1>12. ASSUME Call("reader", b)'.at # "idle" PROVE ~Past'
    BY <1>12 DEF Past, Idle, b
  <1>13. ASSUME NEW p \in Proc, Calls(p, b), Hands(p, b)
         PROVE  /\ f2 = f /\ (err'[b] <=> err[b]) /\ UNCHANGED <<late, faulted>>
                /\ \/ p = "writer" /\ Len(w2.data) = f /\ r2 = r /\ r.at # "flush"
                      /\ (Past' <=> Past)
                   \/ p = "reader" /\ Len(r2.data) = f /\ w2 = w /\ w.at # "flush"
                      /\ ~Past'
    <2>1. f2 = f /\ UNCHANGED <<late, faulted>> /\ f > 0
      BY <1>1, <1>13 DEF Hands, Same
    <2>2. err'[b] <=> err[b]
      BY <1>13, ZenonT(20) DEF Hands, Same
    <2>3. Call(Other(p), b).at # "flush"
      BY <1>3, <1>13, NoOverlap DEF Hands
    <2>4. PICK data : data = SubSeq(mem[b], 1, f)
      OBVIOUS
    <2>5. Len(data) = f
      <3>1. mem[b] \in [1 .. BufferSize[b] -> Items(b)]
        BY <1>0, StoreTypes DEF RecorderTypes
      <3>2. \A i \in 1 .. f : mem[b][i] \in Items(b)
        BY <1>2, <3>1
      <3>3. Len(SubSeq(mem[b], 1, f)) = IF 1 <= f THEN f - 1 + 1 ELSE 0
        BY <1>2, <3>2, SubSeqProperties
      <3>4. QED
        BY <1>2, <2>1, <2>4, <3>3
    <2>6. PICK todo : Call(p, b)' = [at |-> "flush", data |-> data, todo |-> todo]
      BY <1>1, <1>13, <2>4 DEF Hands
    <2>7. Call(p, b)'.at = "flush" /\ Call(p, b)'.data = data
      BY <2>6
    <2>8. QED
      BY <1>0, <1>1, <1>7, <1>12, <1>13, <2>1, <2>2, <2>3, <2>5, <2>7
  <1>14. ASSUME NEW p \in Proc, Calls(p, b), Puts(p, b) \/ Fails(p, b)
         PROVE  /\ w2.at # "flush" /\ r2.at # "flush" /\ late' = late
                /\ err'[b] => faulted' \/ late'
                /\ Past' /\ ~late' => err'[b]
    <2>1. PICK mine, theirs :
            /\ mine = Call(p, b) /\ theirs = Call(Other(p), b)
            /\ (p = "writer" /\ mine = w /\ theirs = r)
                 \/ (p = "reader" /\ mine = r /\ theirs = w)
      BY <1>0, <1>1, Names
    <2>2. mine.at = "flush" /\ Alone(b, mine, theirs)
      BY <1>5, <1>14, <2>1 DEF Puts, Fails
    <2>3. ~err[b] /\ f > 0 /\ theirs.at # "flush" /\ late' = late
      BY <1>1, <1>14, <2>2 DEF Alone, Puts, Fails
    <2>4. Call(p, b)'.at \in {"idle", "reset"} /\ (Call(p, b)'.at = "idle" => err'[b])
      BY <1>14 DEF Puts, Fails, Idle
    <2>5. w2.at # "flush" /\ r2.at # "flush"
      BY <1>0, <1>1, <1>7, <1>14, <2>1, <2>3, <2>4
    <2>6. ASSUME Past', ~late' PROVE err'[b]
      <3>1. CASE p = "writer"
        <4>1. Past /\ ~late
          BY <1>7, <1>14, <2>3, <2>6, <3>1
        <4>2. f = 0
          BY <1>6, <2>3, <4>1
        <4>3. QED
          BY <1>2, <2>3, <4>2
      <3>2. CASE p = "reader"
        BY <1>12, <2>4, <2>6, <3>2
      <3>3. QED
        BY <3>1, <3>2, Names
    <2>7. ASSUME err'[b], ~late PROVE faulted'
      <3>1. Len(mine.data) = f
        BY <1>6, <2>1, <2>2, <2>7
      <3>2. CASE Puts(p, b)
        <4>1. ~(Len(mine.data) < f)
          BY <1>2, <3>1
        <4>2. err'[b] <=> err[b]
          BY <1>1, <2>1, <3>2, <4>1, ZenonT(20) DEF Puts
        <4>3. QED
          BY <2>3, <2>7, <4>2
      <3>3. CASE Fails(p, b)
        <4>1. ASSUME pc["reader"] = "done", p = "writer" PROVE FALSE
          <5>1. Past
            BY <1>0, <4>1, CallIs DEF Past, Toward, b, Inside
          <5>2. f = 0
            BY <1>6, <2>3, <2>7, <5>1
          <5>3. QED
            BY <1>2, <2>3, <5>2
        <4>2. QED
          BY <3>3, <4>1 DEF Fails
      <3>4. QED
        BY <1>14, <3>2, <3>3
    <2>8. QED
      BY <2>3, <2>5, <2>6, <2>7
  <1>15. ASSUME NEW p \in Proc, Calls(p, b), Empties(p, b)
         PROVE  /\ w2.at # "flush" /\ r2.at # "flush" /\ f2 = 0
                /\ (err'[b] <=> err[b]) /\ UNCHANGED <<late, faulted>>
    <2>1. PICK mine, theirs :
            /\ mine = Call(p, b) /\ theirs = Call(Other(p), b)
            /\ (p = "writer" /\ mine = w /\ theirs = r)
                 \/ (p = "reader" /\ mine = r /\ theirs = w)
      BY <1>0, <1>1, Names
    <2>2. mine.at = "reset" /\ Alone(b, mine, theirs)
      BY <1>5, <1>15, <2>1 DEF Empties
    <2>3. theirs.at \notin {"flush", "copied"}
      <3>1. theirs.at \notin {"copied", "reset"}
        BY <1>3, <1>15, <2>1, NoOverlap DEF Empties
      <3>2. QED
        BY <2>2, <3>1 DEF Alone
    <2>4. f2 = 0 /\ UNCHANGED <<late, faulted>>
      BY <1>1, <1>15, <2>1, <2>3 DEF Empties
    <2>5. err'[b] <=> err[b]
      BY <1>15, ZenonT(20) DEF Empties
    <2>6. Call(p, b)'.at # "flush"
      BY <1>15 DEF Empties, Returns, Idle
    <2>7. QED
      BY <1>0, <1>1, <1>7, <1>15, <2>1, <2>3, <2>4, <2>5, <2>6
  <1>16. ASSUME NEW p \in Proc, Calls(p, b)
         PROVE  /\ err'[b] => faulted' \/ late'
                /\ w2.at = "flush" => Len(w2.data) = f2
                /\ r2.at = "flush" /\ ~late' => Len(r2.data) = f2
                /\ Past' /\ ~late' /\ ~err'[b] => f2 = 0
    <2>1. CASE \E items \in Seq(Items(b)) : Copies(p, b, items)
      BY <1>6, <1>9, <1>16, <2>1
    <2>2. CASE Adds(p, b)
      <3>1. (Past => ReaderEnding) /\ (r.at = "flush" => ReaderEnding)
        BY <1>1, EndingWhenFlushing DEF b
      <3>2. QED
        BY <1>6, <1>10, <1>16, <2>2, <3>1
    <2>3. CASE Passes(p, b)
      BY <1>6, <1>11, <1>16, <2>3
    <2>4. CASE Hands(p, b)
      BY <1>6, <1>13, <1>16, <2>4
    <2>5. CASE Puts(p, b) \/ Fails(p, b)
      BY <1>14, <1>16, <2>5
    <2>6. CASE Empties(p, b)
      BY <1>6, <1>15, <1>16, <2>6
    <2>7. QED
      BY <1>16, <2>1, <2>2, <2>3, <2>4, <2>5, <2>6 DEF Calls
  <1>17. QED
    BY <1>8, <1>16 DEF b

-----------------------------------------------------------------------------
(* The control messages                                                    *)

\* A pause does not lie before what is in front of it.
Behind(c, d) == d.type = "delay" => c.offset <= d.offset

\* What a goroutine has yet to write is not beyond the output that is counted,
\* and a pause is at its end.
Coming(p, c) ==
  /\ c.offset <= recordedBytes
  /\ c.type = "delay" => p = "writer" /\ c.offset = recordedBytes

TodoComing(p, b) ==
  \A i \in DOMAIN Call(p, b).todo : Coming(p, Call(p, b).todo[i])

InHand == \A p \in Proc : TodoComing(p, "control")

\* What is written to the control messages, by a new call or one that goes on.
LEMMA GivenComing ==
  ASSUME RecorderTypes, InHand, NEW p \in Proc, NEW items, Given(p, "control", items)
  PROVE  \A i \in DOMAIN items : Coming(p, items[i])
  <1>1. resizeAt <= recordedBytes /\ recordedBytes \in Nat
    BY KnownSizes DEF RecorderTypes, Counts
  <1>2. CASE items = Call(p, "control").todo
    BY <1>2 DEF InHand, TodoComing
  <1>3. CASE p = "writer" /\ items = <<[type |-> "delay", offset |-> recordedBytes]>>
    BY <1>1, <1>3 DEF Coming
  <1>4. CASE p = "reader" /\ items = <<[type |-> "resize", offset |-> resizeAt]>>
    BY <1>1, <1>4 DEF Coming
  <1>5. QED
    BY <1>2, <1>3, <1>4, Names DEF Given

\* The rest of what is coming is coming, too.
LEMMA RestComing ==
  ASSUME NEW p, NEW items \in Seq(Control), NEW n \in Nat,
         \A i \in DOMAIN items : Coming(p, items[i])
  PROVE  /\ \A i \in DOMAIN First(items, n) : Coming(p, First(items, n)[i])
         /\ \A i \in DOMAIN Rest(items, n) : Coming(p, Rest(items, n)[i])
  <1>1. PICK piece \in Seq(Control), rest \in Seq(Control) :
          piece = First(items, n) /\ rest = Rest(items, n)
    BY FirstAndRest
  <1>2. piece \o rest = items
    BY <1>1, FirstThenRest
  <1>3. /\ DOMAIN piece = 1 .. Len(piece) /\ DOMAIN rest = 1 .. Len(rest)
        /\ Len(piece) \in Nat /\ Len(rest) \in Nat
        /\ DOMAIN items = 1 .. Len(piece) + Len(rest)
        /\ \A i \in 1 .. Len(piece) : items[i] = piece[i]
        /\ \A i \in 1 .. Len(rest) : items[Len(piece) + i] = rest[i]
    BY <1>1, <1>2
  <1>4. \A i \in 1 .. Len(piece) : i \in DOMAIN items
    BY <1>3
  <1>5. \A i \in 1 .. Len(rest) : Len(piece) + i \in DOMAIN items
    BY <1>3
  <1>6. \A i \in DOMAIN piece : Coming(p, piece[i])
    BY <1>3, <1>4
  <1>7. ASSUME NEW i \in DOMAIN rest PROVE Coming(p, rest[i])
    <2>1. PICK k \in DOMAIN items : items[k] = rest[i]
      BY <1>3, <1>5
    <2>2. Coming(p, items[k])
      BY <2>1
    <2>3. QED
      BY <2>1, <2>2
  <1>8. QED
    BY <1>1, <1>6, <1>7

\* What is still to be written stays within the output that is counted.
LEMMA InHandStep ==
  ASSUME RecorderTypes, RecorderTypes', InHand,
         Elsewhere("control") \/ \E p \in Proc : Calls(p, "control")
  PROVE  InHand'
  <1> DEFINE b == "control"
  <1>0. b \in Buffers /\ recordedBytes \in Nat /\ Items(b) = Control
    BY KnownSizes, Names DEF RecorderTypes, Counts, Items
  <1>1. \A p \in Proc : Call(p, b).todo \in Seq(Control)
    BY <1>0, CallTypes
  <1>2. \A p \in Proc : \A i \in DOMAIN Call(p, b).todo : Call(p, b).todo[i].offset \in Nat
    <2>1. SUFFICES ASSUME NEW p \in Proc, NEW i \in DOMAIN Call(p, b).todo
                   PROVE  Call(p, b).todo[i].offset \in Nat
      OBVIOUS
    <2>2. PICK s \in Seq(Control) : s = Call(p, b).todo
      BY <1>1
    <2>3. s[i] \in Control
      BY <2>1, <2>2
    <2>4. QED
      BY <2>2, <2>3, KnownSizes DEF Control
  <1>3. ASSUME NEW p \in Proc, Call(p, b)'.todo = Call(p, b).todo \/ Call(p, b)'.todo = <<>>,
               recordedBytes' = recordedBytes
        PROVE  TodoComing(p, b)'
    BY <1>3 DEF InHand, Coming, TodoComing
  <1> HIDE DEF b
  <1>4. CASE Elsewhere(b)
    <2>1. SUFFICES ASSUME NEW p \in Proc
                   PROVE  TodoComing(p, b)'
      BY DEF InHand, b
    <2>2. /\ Call(p, b)' = Call(p, b) /\ recordedBytes' >= recordedBytes
          /\ recordedBytes' = recordedBytes \/ Call("writer", b) = Idle
      BY <1>4 DEF Elsewhere
    <2>3. CASE recordedBytes' = recordedBytes \/ p = "writer"
      <3>1. Idle.todo = <<>>
        BY DEF Idle
      <3>2. CASE recordedBytes' = recordedBytes
        BY <1>3, <2>2, <3>2
      <3>3. CASE p = "writer" /\ recordedBytes' # recordedBytes
        BY <2>2, <3>1, <3>3 DEF TodoComing
      <3>4. QED
        BY <2>3, <3>2, <3>3
    <2>4. CASE p = "reader"
      <3>1. SUFFICES ASSUME NEW i \in DOMAIN Call(p, b).todo
                     PROVE  /\ Call(p, b).todo[i].offset <= recordedBytes'
                            /\ Call(p, b).todo[i].type # "delay"
        BY <2>2 DEF Coming, TodoComing
      <3>2. /\ Call(p, b).todo[i].offset <= recordedBytes
            /\ Call(p, b).todo[i].type # "delay"
        BY <2>4 DEF InHand, Coming, TodoComing, b
      <3>3. Call(p, b).todo[i].offset \in Nat
        BY <1>2
      <3>4. recordedBytes' \in Nat
        BY KnownSizes DEF RecorderTypes, Counts
      <3>5. QED
        BY <1>0, <2>2, <3>2, <3>3, <3>4
    <2>5. QED
      BY <2>3, <2>4, Names
  <1>5. ASSUME NEW p \in Proc, Calls(p, b)
        PROVE  InHand'
    <2>1. recordedBytes' = recordedBytes /\ Call(Other(p), b)' = Call(Other(p), b)
      BY <1>5 DEF Calls, Copies, Given, Adds, Passes, Hands, Puts, Fails, Empties, Returns
    <2>2. TodoComing(Other(p), b)'
      BY <1>3, <2>1, Names
    <2>3. TodoComing(p, b)'
      <3>1. ASSUME NEW items \in Seq(Control), Copies(p, b, items)
            PROVE  TodoComing(p, b)'
        <4>1. \A i \in DOMAIN items : Coming(p, items[i])
          BY <3>1, GivenComing DEF Copies, b
        <4>2. PICK n \in Nat : n = Room(b)
          BY <1>0, StoreTypes DEF RecorderTypes
        <4>3. PICK rest : rest = Rest(items, n)
          OBVIOUS
        <4>4. \A i \in DOMAIN rest : Coming(p, rest[i])
          BY <4>1, <4>3, RestComing
        <4>5. Call(p, b)'.todo = rest
          BY <3>1, <4>2, <4>3 DEF Copies
        <4>6. QED
          BY <2>1, <4>4, <4>5 DEF Coming, TodoComing
      <3>2. CASE ~\E items \in Seq(Control) : Copies(p, b, items)
        <4>1. Call(p, b)'.todo = Call(p, b).todo \/ Call(p, b)'.todo = <<>>
          <5>1. Idle.todo = <<>>
            BY DEF Idle
          <5>2. CASE Adds(p, b) \/ Passes(p, b) \/ Empties(p, b)
            BY <5>1, <5>2 DEF Adds, Passes, Empties, Returns
          <5>3. CASE Hands(p, b)
            BY <5>3 DEF Hands
          <5>4. CASE Puts(p, b) \/ Fails(p, b)
            BY <5>1, <5>4 DEF Puts, Fails
          <5>5. QED
            BY <1>0, <1>5, <3>2, <5>2, <5>3, <5>4 DEF Calls
        <4>2. QED
          BY <1>3, <2>1, <4>1
      <3>3. QED
        BY <3>1, <3>2
    <2>4. QED
      BY <2>2, <2>3, Names DEF InHand, b
  <1>6. QED
    BY <1>4, <1>5 DEF b

\* No pause lies before a message in front of it, and none beyond the output.
InTurnTo(seq, total) ==
  /\ \A i, j \in DOMAIN seq : i < j => Behind(seq[i], seq[j])
  /\ \A i \in DOMAIN seq : seq[i].offset <= total

\* The messages that are in the memory behind the stored ones.
BehindStored(out, memory, used, total) ==
  \A j \in 1 .. used :
    /\ memory[j].offset <= total
    /\ \A i \in 1 .. j - 1 : Behind(memory[i], memory[j])
    /\ \A i \in DOMAIN out : Behind(out[i], memory[j])

CopiedBy(call) == IF call.at = "copied" THEN Len(call.data) ELSE 0

Pausing ==
  LET w == Call("writer", "control")
      r == Call("reader", "control")
  IN ~overlapped["control"] =>
       /\ InTurnTo(Out("control"), recordedBytes)
       /\ ~err["control"] /\ w.at # "reset" /\ r.at # "reset" =>
            BehindStored(Out("control"), mem["control"],
                         fill["control"] + CopiedBy(w) + CopiedBy(r), recordedBytes)

\* A control message's offset is a number.
LEMMA BehindTypes ==
  ASSUME NEW c \in Control
  PROVE  c.offset \in Nat
  BY KnownSizes DEF Control

\* What is copied stays behind what is stored and what the memory holds.
LEMMA PausesOn ==
  ASSUME NEW out \in Seq(Control), NEW total \in Nat, NEW f \in Nat, NEW size \in Nat,
         f <= size, NEW piece \in Seq(Control), NEW p,
         f + Len(piece) <= size,
         NEW m \in [1 .. size -> Control], NEW m2,
         InTurnTo(out, total), BehindStored(out, m, f, total),
         \A i \in DOMAIN piece : /\ piece[i].offset <= total
                                 /\ piece[i].type = "delay" => piece[i].offset = total,
         m2 = [i \in 1 .. size |->
                 IF i \in f + 1 .. f + Len(piece) THEN piece[i - f] ELSE m[i]]
  PROVE  BehindStored(out, m2, f + Len(piece), total)
  <1>1. /\ DOMAIN piece = 1 .. Len(piece) /\ Len(piece) \in Nat
        /\ \A i \in 1 .. Len(piece) : piece[i] \in Control
        /\ \A i \in DOMAIN out : out[i] \in Control
    OBVIOUS
  <1>2. \A j \in 1 .. f + Len(piece) :
          /\ j \in 1 .. size
          /\ j <= f => m2[j] = m[j] /\ j \in 1 .. f
          /\ j > f => m2[j] = piece[j - f] /\ j - f \in 1 .. Len(piece)
    <2>1. SUFFICES ASSUME NEW j \in 1 .. f + Len(piece)
                   PROVE  /\ j \in 1 .. size
                          /\ j <= f => m2[j] = m[j] /\ j \in 1 .. f
                          /\ j > f => m2[j] = piece[j - f] /\ j - f \in 1 .. Len(piece)
      OBVIOUS
    <2>2. j \in 1 .. size
      BY <1>1
    <2>3. m2[j] = IF j \in f + 1 .. f + Len(piece) THEN piece[j - f] ELSE m[j]
      BY <2>2
    <2>4. QED
      BY <1>1, <2>2, <2>3
  <1>3. ASSUME NEW j \in 1 .. f + Len(piece)
        PROVE  /\ m2[j].offset <= total
               /\ j > f /\ m2[j].type = "delay" => m2[j].offset = total
    <2>1. CASE j <= f
      <3>1. m2[j] = m[j] /\ j \in 1 .. f
        BY <1>2, <2>1
      <3>2. QED
        BY <2>1, <3>1 DEF BehindStored
    <2>2. CASE j > f
      <3>1. PICK k \in DOMAIN piece : m2[j] = piece[k]
        BY <1>1, <1>2, <2>2
      <3>2. QED
        BY <3>1
    <2>3. QED
      BY <1>1, <2>1, <2>2
  <1>4. \A j \in 1 .. f + Len(piece) :
          /\ m2[j].offset <= total
          /\ j > f /\ m2[j].type = "delay" => m2[j].offset = total
    BY <1>3
  <1>5. ASSUME NEW j \in 1 .. f + Len(piece), NEW i \in 1 .. j - 1
        PROVE  Behind(m2[i], m2[j])
    <2>1. i \in 1 .. f + Len(piece)
      BY <1>1
    <2>2. CASE j <= f
      <3>1. i <= f /\ i \in 1 .. f
        BY <1>1, <2>1, <2>2
      <3>2. Behind(m[i], m[j])
        BY <1>2, <2>2 DEF BehindStored
      <3>3. QED
        BY <1>2, <2>1, <2>2, <3>1, <3>2
    <2>3. CASE j > f
      BY <1>4, <2>1, <2>3 DEF Behind
    <2>4. QED
      BY <1>1, <2>2, <2>3
  <1>6. ASSUME NEW j \in 1 .. f + Len(piece), NEW i \in DOMAIN out
        PROVE  Behind(out[i], m2[j])
    <2>1. CASE j <= f
      BY <1>2, <2>1 DEF BehindStored
    <2>2. CASE j > f
      BY <1>4, <2>2 DEF Behind, InTurnTo
    <2>3. QED
      BY <1>1, <2>1, <2>2
  <1>7. QED
    BY <1>4, <1>5, <1>6 DEF BehindStored

\* What is stored next comes behind what is stored.
LEMMA StoredBehind ==
  ASSUME NEW out \in Seq(Control), NEW total, NEW doc \in Seq(Control), NEW used \in Nat,
         NEW m, Len(doc) <= used, InTurnTo(out, total), BehindStored(out, m, used, total),
         \A i \in 1 .. Len(doc) : doc[i] = m[i]
  PROVE  InTurnTo(out \o doc, total)
  <1>1. PICK n \in Nat, k \in Nat : n = Len(out) /\ k = Len(doc)
    OBVIOUS
  <1>2. /\ DOMAIN (out \o doc) = 1 .. n + k /\ DOMAIN out = 1 .. n
        /\ \A i \in 1 .. n + k : (out \o doc)[i] = IF i <= n THEN out[i] ELSE doc[i - n]
    BY <1>1
  <1>3. PICK all : all = out \o doc
    OBVIOUS
  <1>4. \A i \in 1 .. n + k :
          /\ i <= n => all[i] = out[i] /\ i \in DOMAIN out
          /\ i > n => all[i] = m[i - n] /\ i - n \in 1 .. used
    <2>1. SUFFICES ASSUME NEW i \in 1 .. n + k
                   PROVE  /\ i <= n => all[i] = out[i] /\ i \in DOMAIN out
                          /\ i > n => all[i] = m[i - n] /\ i - n \in 1 .. used
      OBVIOUS
    <2>2. CASE i <= n
      BY <1>2, <1>3, <2>2
    <2>3. CASE i > n
      <3>1. i - n \in 1 .. k /\ i - n \in 1 .. used
        BY <1>1, <2>3
      <3>2. all[i] = doc[i - n]
        BY <1>1, <1>2, <1>3, <2>3
      <3>3. doc[i - n] = m[i - n]
        BY <1>1, <3>1
      <3>4. QED
        BY <1>1, <2>3, <3>1, <3>2, <3>3
    <2>4. QED
      BY <1>1, <2>2, <2>3
  <1>5. \A i \in 1 .. n + k : all[i].offset <= total
    BY <1>1, <1>4 DEF InTurnTo, BehindStored
  <1>6. ASSUME NEW i \in 1 .. n + k, NEW j \in 1 .. n + k, i < j
        PROVE  Behind(all[i], all[j])
    <2>1. CASE j <= n
      <3>1. i <= n
        BY <1>1, <1>6, <2>1
      <3>2. QED
        BY <1>4, <1>6, <2>1, <3>1 DEF InTurnTo
    <2>2. CASE j > n /\ i <= n
      BY <1>4, <2>2 DEF BehindStored
    <2>3. CASE j > n /\ i > n
      <3>1. i - n \in 1 .. (j - n) - 1
        BY <1>1, <1>4, <1>6, <2>3
      <3>2. QED
        BY <1>4, <2>3, <3>1 DEF BehindStored
    <2>4. QED
      BY <1>1, <2>1, <2>2, <2>3
  <1>7. QED
    BY <1>2, <1>3, <1>5, <1>6 DEF InTurnTo

\* Every step keeps the pauses in place.
LEMMA PausingStep ==
  ASSUME RecorderTypes, RecorderTypes', One("control"), InHand, Pausing,
         Elsewhere("control") \/ \E p \in Proc : Calls(p, "control")
  PROVE  Pausing'
  <1> DEFINE b == "control"
  <1>0. b \in Buffers /\ "reader" \in Proc /\ "writer" \in Proc
        /\ Other("reader") = "writer" /\ Other("writer") = "reader"
        /\ Items(b) = Control
    BY Names DEF Other, Items
  <1> HIDE DEF b
  <1>1. \E f \in Nat, size \in Nat, total \in Nat, out \in Seq(Control) :
          \E m \in [1 .. size -> Control] :
            /\ out = Out(b) /\ f = fill[b] /\ f <= size /\ size = BufferSize[b]
            /\ m = mem[b] /\ total = recordedBytes
    <2>1. /\ mem[b] \in [1 .. BufferSize[b] -> Control] /\ BufferSize[b] \in Nat
          /\ fill[b] \in Nat /\ fill[b] <= BufferSize[b]
      BY <1>0, StoreTypes DEF RecorderTypes
    <2>2. Out(b) \in Seq(Control) /\ recordedBytes \in Nat
      BY <1>0, OutTypes, KnownSizes DEF RecorderTypes, Counts
    <2>3. QED
      BY <2>1, <2>2
  <1>2. PICK f \in Nat, size \in Nat, total \in Nat, out \in Seq(Control) :
          \E m \in [1 .. size -> Control] :
            /\ out = Out(b) /\ f = fill[b] /\ f <= size /\ size = BufferSize[b]
            /\ m = mem[b] /\ total = recordedBytes
    BY <1>1
  <1>3. PICK m \in [1 .. size -> Control] :
            /\ out = Out(b) /\ f = fill[b] /\ f <= size /\ size = BufferSize[b]
            /\ m = mem[b] /\ total = recordedBytes
    BY <1>2
  <1>4. PICK w, r, w2, r2, f2, m2 :
          /\ w = Call("writer", b) /\ r = Call("reader", b)
          /\ w2 = Call("writer", b)' /\ r2 = Call("reader", b)'
          /\ f2 = fill'[b] /\ m2 = mem'[b]
    OBVIOUS
  <1>5. /\ Len(w.data) \in Nat /\ Len(r.data) \in Nat
        /\ CopiedBy(w) \in Nat /\ CopiedBy(r) \in Nat
    BY <1>0, <1>4, CallTypes DEF CopiedBy
  <1>6. ~overlapped[b] =>
          /\ InTurnTo(out, total)
          /\ ~err[b] /\ w.at # "reset" /\ r.at # "reset" =>
               BehindStored(out, m, f + CopiedBy(w) + CopiedBy(r), total)
    BY <1>3, <1>4 DEF Pausing, b
  <1>7. SUFFICES ASSUME ~overlapped'[b]
                 PROVE  /\ InTurnTo(Out(b)', recordedBytes')
                        /\ ~err'[b] /\ w2.at # "reset" /\ r2.at # "reset" =>
                             BehindStored(Out(b)', m2, f2 + CopiedBy(w2) + CopiedBy(r2),
                                          recordedBytes')
    BY <1>4 DEF Pausing, b
  <1>8. ~overlapped[b] /\ (stored'[b] = stored[b] => Out(b)' = out)
    <2>1. Elsewhere(b) \/ \E p \in Proc : Calls(p, b)
      BY DEF b
    <2>2. ~overlapped[b]
      BY <1>7, <2>1, ZenonT(30)
         DEF Elsewhere, Calls, Copies, Adds, Passes, Hands, Puts, Fails, Empties, Overlaps
    <2>3. QED
      BY <1>3, <2>2 DEF Out
  <1>9. Alone(b, w, r) /\ Alone(b, r, w)
    BY <1>0, <1>4, <1>8 DEF One, b
  <1>10. CASE Elsewhere(b)
    <2>1. /\ w2 = w /\ r2 = r /\ f2 = f /\ m2 = m /\ Out(b)' = out
          /\ recordedBytes' >= total
      BY <1>0, <1>3, <1>4, <1>8, <1>10 DEF Elsewhere, Same
    <2>2. err'[b] <=> err[b]
      BY <1>10, ZenonT(20) DEF Elsewhere, Same
    <2>3. PICK later \in Nat : later = recordedBytes'
      BY KnownSizes DEF RecorderTypes, Counts
    <2>4. InTurnTo(out, later)
      <3>1. \A i \in DOMAIN out : out[i].offset \in Nat /\ out[i].offset <= total
        BY <1>6, <1>8, BehindTypes DEF InTurnTo
      <3>2. \A i \in DOMAIN out : out[i].offset <= later
        BY <2>1, <2>3, <3>1
      <3>3. QED
        BY <1>6, <1>8, <3>2 DEF InTurnTo
    <2>5. ASSUME ~err[b], w.at # "reset", r.at # "reset"
          PROVE  BehindStored(out, m, f + CopiedBy(w) + CopiedBy(r), later)
      <3>1. PICK used \in Nat : used = f + CopiedBy(w) + CopiedBy(r)
        BY <1>5
      <3>2. used <= size
        <4>1. CASE w.at = "copied"
          BY <1>3, <1>5, <1>9, <2>5, <3>1, <4>1 DEF Alone, CopiedBy
        <4>2. CASE r.at = "copied" /\ w.at # "copied"
          BY <1>3, <1>5, <1>9, <2>5, <3>1, <4>2 DEF Alone, CopiedBy
        <4>3. CASE w.at # "copied" /\ r.at # "copied"
          BY <1>3, <3>1, <4>3 DEF CopiedBy
        <4>4. QED
          BY <4>1, <4>2, <4>3
      <3>3. BehindStored(out, m, used, total)
        BY <1>6, <1>8, <2>5, <3>1
      <3>4. \A j \in 1 .. used : m[j].offset \in Nat /\ m[j].offset <= total
        <4>1. \A j \in 1 .. used : j \in 1 .. size
          BY <3>2
        <4>2. QED
          BY <3>3, <4>1, BehindTypes DEF BehindStored
      <3>5. \A j \in 1 .. used : m[j].offset <= later
        BY <2>1, <2>3, <3>4
      <3>6. QED
        BY <3>1, <3>3, <3>5 DEF BehindStored
    <2>6. QED
      BY <2>1, <2>2, <2>3, <2>4, <2>5
  <1>11. ASSUME NEW p \in Proc, Calls(p, b) PROVE recordedBytes' = total
    BY <1>3, <1>11 DEF Calls, Copies, Given, Adds, Passes, Hands, Puts, Fails, Empties, Returns
  <1>12. ASSUME NEW p \in Proc, Calls(p, b)
         PROVE  \E mine, theirs, next :
            /\ mine = Call(p, b) /\ theirs = Call(Other(p), b) /\ next = Call(p, b)'
            /\ \/ p = "writer" /\ mine = w /\ theirs = r /\ next = w2 /\ r2 = r
               \/ p = "reader" /\ mine = r /\ theirs = w /\ next = r2 /\ w2 = w
    BY <1>0, <1>4, <1>12, Names DEF Calls
  <1>13. ASSUME NEW p \in Proc, Calls(p, b),
                NEW mine, NEW theirs, NEW next,
                mine = Call(p, b), theirs = Call(Other(p), b), next = Call(p, b)',
                \/ p = "writer" /\ mine = w /\ theirs = r /\ next = w2 /\ r2 = r
                \/ p = "reader" /\ mine = r /\ theirs = w /\ next = r2 /\ w2 = w
         PROVE  /\ InTurnTo(Out(b)', total)
                /\ ~err'[b] /\ next.at # "reset" /\ theirs.at # "reset" =>
                     BehindStored(Out(b)', m2, f2 + CopiedBy(next) + CopiedBy(theirs), total)
    <2>1. Alone(b, mine, theirs) /\ Len(mine.data) \in Nat
          /\ CopiedBy(mine) \in Nat /\ CopiedBy(theirs) \in Nat
      BY <1>5, <1>9, <1>13
    <2>10. f \in Nat /\ size \in Nat /\ total \in Nat
      BY <1>2
    <2>2. InTurnTo(out, total)
      BY <1>6, <1>8
    <2>3. ASSUME ~err[b], mine.at # "reset", theirs.at # "reset"
          PROVE  BehindStored(out, m, f + CopiedBy(mine) + CopiedBy(theirs), total)
      <3>1. f + CopiedBy(mine) + CopiedBy(theirs) = f + CopiedBy(w) + CopiedBy(r)
        BY <1>5, <1>13
      <3>2. QED
        BY <1>6, <1>8, <1>13, <2>3, <3>1
    <2>4. ASSUME NEW items \in Seq(Items(b)), Copies(p, b, items)
          PROVE  /\ Out(b)' = out
                 /\ BehindStored(out, m2, f2 + CopiedBy(next) + CopiedBy(theirs), total)
      <3>1. items \in Seq(Control) /\ size - f \in Nat
        BY <1>0, <1>3
      <3>2. PICK piece, rest : piece = First(items, size - f) /\ rest = Rest(items, size - f)
        OBVIOUS
      <3>3. Room(b) = size - f /\ Piece(b, items) = piece
        BY <1>3, <3>2 DEF Room, Piece
      <3>4. /\ next = [at |-> "copied", data |-> piece, todo |-> rest]
            /\ m2 = [i \in 1 .. size |->
                   IF i \in f + 1 .. f + Len(piece) THEN piece[i - f] ELSE m[i]]
            /\ f2 = f /\ Out(b)' = out
        BY <1>3, <1>4, <1>8, <1>13, <2>4, <3>2, <3>3 DEF Copies
      <3>5. piece \in Seq(Control) /\ Len(piece) \in Nat /\ Len(piece) <= size - f
        BY <3>1, <3>2, FirstAndRest
      <3>6. /\ ~err[b] /\ theirs.at \notin {"copied", "reset"}
            /\ mine.at \in {"idle", "again"}
        <4>1. theirs.at \notin {"copied", "reset"}
          BY <1>7, <1>13, <2>4, NoOverlap DEF Copies
        <4>2. QED
          BY <1>13, <2>4, <4>1 DEF Copies, Given
      <3>7. BehindStored(out, m, f, total)
        <4>1. f + CopiedBy(mine) + CopiedBy(theirs) = f
          <5>1. CopiedBy(mine) = 0 /\ CopiedBy(theirs) = 0
            BY <3>6 DEF CopiedBy
          <5>2. QED
            BY <2>10, <5>1
        <4>2. QED
          BY <2>3, <3>6, <4>1
      <3>8. \A i \in DOMAIN piece : /\ piece[i].offset <= total
                                    /\ piece[i].type = "delay" => piece[i].offset = total
        <4>1. \A i \in DOMAIN items : Coming(p, items[i])
          BY <2>4, GivenComing DEF Copies, b
        <4>2. \A i \in DOMAIN First(items, size - f) : Coming(p, First(items, size - f)[i])
          BY <3>1, <4>1, RestComing
        <4>3. QED
          BY <1>3, <3>2, <4>2 DEF Coming
      <3>9. BehindStored(out, m2, f + Len(piece), total)
        <4>1. f + Len(piece) <= size /\ f <= size
          BY <1>3, <3>5
        <4>2. f \in Nat /\ size \in Nat /\ total \in Nat /\ out \in Seq(Control)
              /\ m \in [1 .. size -> Control]
          BY <1>2, <1>3
        <4>3. QED
          BY <2>2, <3>4, <3>5, <3>7, <3>8, <4>1, <4>2, PausesOn, ZenonT(30)
      <3>10. f2 + CopiedBy(next) + CopiedBy(theirs) = f + Len(piece)
        <4>1. CopiedBy(next) = Len(piece) /\ CopiedBy(theirs) = 0 /\ f2 = f
          BY <3>4, <3>6 DEF CopiedBy
        <4>2. QED
          BY <2>10, <3>5, <4>1
      <3>11. QED
        BY <3>4, <3>9, <3>10
    <2>5. CASE Adds(p, b)
      <3>1. mine.at = "copied" /\ theirs.at \notin {"copied", "reset"}
        BY <1>7, <1>13, <2>5, NoOverlap DEF Adds
      <3>2. m2 = m /\ stored'[b] = stored[b] /\ next.at \in {"full", "idle"}
        BY <1>3, <1>4, <1>13, <2>5 DEF Adds, Returns, Idle
      <3>3. err'[b] \/ (f2 = f + Len(mine.data) /\ (err'[b] <=> err[b]))
        BY <1>3, <1>4, <1>13, <2>5, <3>1, ZenonT(30) DEF Adds
      <3>4. ASSUME ~err'[b]
            PROVE  BehindStored(out, m2, f2 + CopiedBy(next) + CopiedBy(theirs), total)
        <4>1. f2 + CopiedBy(next) + CopiedBy(theirs)
                = f + CopiedBy(mine) + CopiedBy(theirs)
          <5>1. /\ CopiedBy(next) = 0 /\ CopiedBy(theirs) = 0
                /\ CopiedBy(mine) = Len(mine.data)
            BY <3>1, <3>2 DEF CopiedBy
          <5>2. f2 = f + Len(mine.data)
            BY <3>3, <3>4
          <5>3. QED
            BY <2>1, <2>10, <5>1, <5>2
        <4>2. QED
          BY <2>3, <3>1, <3>2, <3>3, <3>4, <4>1
      <3>5. QED
        BY <1>8, <2>2, <3>2, <3>4
    <2>6. CASE Passes(p, b) \/ Hands(p, b)
      <3>1. /\ m2 = m /\ f2 = f /\ stored'[b] = stored[b]
            /\ mine.at \notin {"copied", "reset"} /\ next.at # "copied"
        BY <1>3, <1>4, <1>13, <2>6 DEF Passes, Hands, Returns, Same, Idle
      <3>2. err'[b] <=> err[b]
        BY <2>6, ZenonT(20) DEF Passes, Hands, Same
      <3>3. CopiedBy(next) = CopiedBy(mine)
        BY <3>1 DEF CopiedBy
      <3>4. QED
        BY <1>8, <2>2, <2>3, <3>1, <3>2, <3>3
    <2>7. CASE Puts(p, b) \/ Fails(p, b)
      <3>1. mine.at = "flush"
        BY <1>13, <2>7 DEF Puts, Fails
      <3>2. ~err[b] /\ theirs.at \notin {"flush", "reset"}
        BY <2>1, <3>1 DEF Alone
      <3>3. PICK used \in Nat : used = f + CopiedBy(mine) + CopiedBy(theirs)
        BY <2>1
      <3>4. BehindStored(out, m, used, total) /\ f <= used
        BY <2>1, <2>3, <3>1, <3>2, <3>3
      <3>5. ASSUME stored'[b] = stored[b] PROVE InTurnTo(Out(b)', total)
        BY <1>8, <2>2, <3>5
      <3>6. ASSUME \E doc \in Seq(Items(b)) :
                     Doc(p, b, doc) /\ stored'[b] = Append(stored[b], doc)
            PROVE  InTurnTo(Out(b)', total)
        <4>1. PICK doc \in Seq(Items(b)) :
                   Doc(p, b, doc) /\ stored'[b] = Append(stored[b], doc)
          BY <3>6
        <4>2. /\ Out(b)' = Out(b) \o doc
              /\ Len(doc) \in Nat
              /\ Len(doc) <= fill[b] /\ \A i \in 1 .. Len(doc) : doc[i] = mem[b][i]
          BY <1>0, <1>13, <2>1, <3>1, <4>1, FrontIsStored
        <4>3. doc \in Seq(Control) /\ Len(doc) <= used
          BY <1>0, <1>3, <3>4, <4>2
        <4>4. InTurnTo(out \o doc, total)
          BY <1>3, <2>2, <3>4, <4>2, <4>3, StoredBehind
        <4>5. QED
          BY <1>3, <4>2, <4>4
      <3>7. InTurnTo(Out(b)', total)
        BY <2>7, <3>5, <3>6 DEF Puts, Fails
      <3>8. err'[b] \/ next.at = "reset"
        BY <1>13, <2>7 DEF Puts, Fails
      <3>9. QED
        BY <3>7, <3>8
    <2>8. CASE Empties(p, b)
      <3>1. theirs.at \notin {"copied", "reset"}
        BY <1>7, <1>13, <2>8, NoOverlap DEF Empties
      <3>2. stored'[b] = stored[b] /\ f2 = 0 /\ next.at \in {"again", "idle"}
        BY <1>4, <1>13, <2>8, <3>1 DEF Empties, Returns, Idle
      <3>3. f2 + CopiedBy(next) + CopiedBy(theirs) = 0
        <4>1. CopiedBy(next) = 0 /\ CopiedBy(theirs) = 0
          BY <3>1, <3>2 DEF CopiedBy
        <4>2. QED
          BY <3>2, <4>1
      <3>4. BehindStored(out, m2, 0, total)
        BY DEF BehindStored
      <3>5. QED
        BY <1>8, <2>2, <3>2, <3>3, <3>4
    <2>9. QED
      BY <1>13, <2>2, <2>4, <2>5, <2>6, <2>7, <2>8 DEF Calls
  <1>14. ASSUME NEW p \in Proc, Calls(p, b)
         PROVE  /\ InTurnTo(Out(b)', recordedBytes')
                /\ ~err'[b] /\ w2.at # "reset" /\ r2.at # "reset" =>
                     BehindStored(Out(b)', m2, f2 + CopiedBy(w2) + CopiedBy(r2),
                                  recordedBytes')
    <2>1. PICK mine, theirs, next :
            /\ mine = Call(p, b) /\ theirs = Call(Other(p), b) /\ next = Call(p, b)'
            /\ \/ p = "writer" /\ mine = w /\ theirs = r /\ next = w2 /\ r2 = r
               \/ p = "reader" /\ mine = r /\ theirs = w /\ next = r2 /\ w2 = w
      BY <1>12, <1>14
    <2>2. /\ InTurnTo(Out(b)', total)
          /\ ~err'[b] /\ next.at # "reset" /\ theirs.at # "reset" =>
               BehindStored(Out(b)', m2, f2 + CopiedBy(next) + CopiedBy(theirs), total)
      BY <1>13, <1>14, <2>1
    <2>3. f2 + CopiedBy(next) + CopiedBy(theirs) = f2 + CopiedBy(w2) + CopiedBy(r2)
      <3>1. f2 \in Nat
        BY <1>0, <1>4 DEF RecorderTypes, Stores
      <3>2. /\ CopiedBy(w2) \in Nat /\ CopiedBy(r2) \in Nat
        <4>1. RecorderTypes' => /\ Len(Call("writer", b)'.data) \in Nat
                                /\ Len(Call("reader", b)'.data) \in Nat
          BY <1>0, CallTypes
        <4>2. QED
          BY <1>4, <4>1 DEF CopiedBy
      <3>3. QED
        BY <2>1, <3>1, <3>2
    <2>4. QED
      BY <1>11, <1>14, <2>1, <2>2, <2>3
  <1>15. QED
    BY <1>10, <1>14 DEF b

-----------------------------------------------------------------------------
(* What is stored                                                          *)

\* While the session is recorded.
Recording ==
  /\ Message /\ One("recording") /\ One("control") /\ OnlyFlushes
  /\ Flowing /\ Whole /\ InHand /\ Pausing

StoredWell ==
  /\ play = "idle" => Recording
  /\ play # "idle" => StoredInOrder /\ StoredIsAll

\* What the properties say follows from what is kept.
LEMMA RecordingIsStored ==
  ASSUME RecorderTypes, Recording
  PROVE  StoredInOrder /\ StoredIsAll
  <1>1. /\ Message /\ Flowing /\ Whole /\ Pausing
    BY DEF Recording
  <1>2. /\ StoredOutput = Out("recording") /\ StoredControls = Out("control")
        /\ Len(Out("recording")) \in Nat /\ Out("recording") \in Seq(Byte)
    BY OutTypes, Names DEF StoredOutput, StoredControls, Out, RecorderTypes, Items
  <1>3. StoredInOrder
    <2>1. ASSUME ~overlapped["recording"]
          PROVE  \A i \in DOMAIN StoredOutput : StoredOutput[i] = i - 1
      <3>1. Counted(Out("recording"))
        BY <1>1, <2>1 DEF Flowing
      <3>2. QED
        BY <1>2, <3>1 DEF Counted
    <2>2. ASSUME ~overlapped["control"] PROVE PausesInPlace
      <3>1. InTurnTo(StoredControls, recordedBytes)
        BY <1>1, <1>2, <2>2 DEF Pausing
      <3>2. QED
        BY <3>1 DEF InTurnTo, Behind, PausesInPlace
    <2>3. QED
      BY <2>1, <2>2 DEF StoredInOrder
  <1>4. StoredIsAll
    <2>1. SUFFICES ASSUME Recorded, ~faulted, ~late, ~overlapped["recording"]
                   PROVE  Len(StoredOutput) = recordedBytes
      BY DEF StoredIsAll
    <2>2. /\ Call("writer", "recording") = Idle /\ Call("reader", "recording") = Idle
          /\ Idle.at = "idle" /\ Idle.todo = <<>>
      BY <2>1, CallIs, Names DEF Recorded, Inside
    <2>3. Past /\ body = 0
      BY <1>1, <2>1, <2>2 DEF Recorded, Past, Toward, Message, Handling, Inside
    <2>4. ~err["recording"] /\ fill["recording"] = 0
      BY <1>1, <2>1, <2>3 DEF Whole
    <2>5. PICK w : w = Call("writer", "recording") /\ w.at = "idle" /\ w.todo = <<>>
      BY <2>2
    <2>6. PICK r : r = Call("reader", "recording") /\ r.at = "idle"
      BY <2>2
    <2>7. Flow(Len(Out("recording")), Held(w, r, fill["recording"]), w.todo,
               mem["recording"], Bound)
      BY <1>1, <2>1, <2>4, <2>5, <2>6 DEF Flowing, Colliding
    <2>8. Held(w, r, fill["recording"]) = 0
      BY <2>4, <2>5, <2>6 DEF Held
    <2>9. Len(Out("recording")) + 0 + 0 = Bound
      BY <2>5, <2>7, <2>8 DEF Flow
    <2>10. recordedBytes \in Nat
      BY KnownSizes DEF RecorderTypes, Counts
    <2>11. QED
      BY <1>2, <2>3, <2>9, <2>10 DEF Bound
  <1>5. QED
    BY <1>3, <1>4

\* Nothing is recorded at first.
LEMMA InitRecording ==
  ASSUME Init
  PROVE  Recording
  <1>1. /\ \A p \in Proc, b \in Buffers : Call(p, b) = Idle
        /\ Idle.at = "idle" /\ Idle.todo = <<>>
    <2>1. \A p \in Proc : pc[p] \notin Inside
      BY DEF Init, RecorderInit, Inside, Proc
    <2>2. \A p \in Proc, b \in Buffers : Call(p, b) = Idle
      BY <2>1, CallIs
    <2>3. QED
      BY <2>2 DEF Idle
  <1>2. /\ \A b \in Buffers : Out(b) = <<>> /\ fill[b] = 0
        /\ pc["reader"] = "read" /\ pc["writer"] = "select"
        /\ recordedBytes = 0 /\ body = 0
    BY Names DEF Init, RecorderInit, Out, FlattenSeq
  <1>3. \A b \in Buffers : ~err[b]
    BY Names, ZenonT(20) DEF Init, RecorderInit
  <1>4. Message /\ OnlyFlushes /\ InHand
    BY <1>1, <1>2, Names DEF Message, Handling, OnlyFlushes, InHand, TodoComing, Inside
  <1>5. \A b \in Buffers : One(b)
    BY <1>1, Names DEF One, Alone
  <1>6. PICK w : w = Call("writer", "recording") /\ w.at = "idle" /\ w.todo = <<>>
    BY <1>1, Names
  <1>7. PICK r : r = Call("reader", "recording") /\ r.at = "idle" /\ r.todo = <<>>
    BY <1>1, Names
  <1>8. Flowing
    <2>1. Held(w, r, 0) = 0 /\ Len(<<>>) = 0
      BY <1>6, <1>7 DEF Held
    <2>2. Bound = 0
      BY <1>2 DEF Bound
    <2>3. Flow(0, 0, <<>>, mem["recording"], 0) /\ Counted(<<>>)
      BY DEF Flow, Counted
    <2>4. QED
      BY <1>2, <1>6, <1>7, <2>1, <2>2, <2>3, Names DEF Flowing
  <1>9. Whole
    <2>1. ~Past
      BY <1>2 DEF Past, Toward, Inside
    <2>2. QED
      BY <1>1, <1>3, <2>1, Names DEF Whole
  <1>10. Pausing
    <2>1. CopiedBy(Call("writer", "control")) = 0 /\ CopiedBy(Call("reader", "control")) = 0
      BY <1>1, Names DEF CopiedBy
    <2>2. InTurnTo(<<>>, 0) /\ BehindStored(<<>>, mem["control"], 0, 0)
      BY DEF InTurnTo, BehindStored
    <2>3. fill["control"] + CopiedBy(Call("writer", "control"))
            + CopiedBy(Call("reader", "control")) = 0
      BY <1>2, <2>1, Names
    <2>4. QED
      BY <1>2, <2>2, <2>3, Names DEF Pausing
  <1>11. QED
    BY <1>4, <1>5, <1>8, <1>9, <1>10, Names DEF Recording

\* Every step of the recorder keeps what is kept.
LEMMA RecordingStep ==
  ASSUME RecorderTypes, RecorderTypes', Recording, RecorderNext
  PROVE  Recording'
  <1>1. Message /\ One("recording") /\ One("control") /\ OnlyFlushes
        /\ Flowing /\ Whole /\ InHand /\ Pausing
    BY DEF Recording
  <1>2. \A b \in Buffers : Elsewhere(b) \/ \E p \in Proc : Calls(p, b)
    BY <1>1, Shape
  <1>3. \A b \in Buffers : One(b)'
    BY <1>1, <1>2, OneStep, Names
  <1>4. Bound \in Nat
    BY KnownSizes DEF Bound, RecorderTypes, Counts
  <1>5. OnlyFlushes' /\ Flowing' /\ Whole'
    BY <1>1, <1>2, <1>4, Names, OnlyFlushesStep, FlowingStep, WholeStep
  <1>6. InHand' /\ Pausing'
    BY <1>1, <1>2, Names, InHandStep, PausingStep
  <1>7. Message'
    BY <1>1, MessageStep
  <1>8. QED
    BY <1>3, <1>5, <1>6, <1>7, Names DEF Recording

\* What is kept while the session is recorded, and what it leaves behind when the
\* playback begins, are inductive.
THEOREM RecordingInductive ==
  /\ Init => StoredWell
  /\ Types /\ Following /\ StoredWell /\ [Next]_vars => StoredWell'
  <1>1. ASSUME Init PROVE StoredWell
    BY <1>1, InitRecording DEF Init, StoredWell
  <1>2. ASSUME Types, Following, StoredWell, [Next]_vars PROVE StoredWell'
    <2>1. RecorderTypes /\ RecorderTypes'
      BY <1>2, TypesInductive DEF Types
    <2>2. CASE RecorderNext /\ UNCHANGED playbackVars
      <3>1. play = "idle"
        BY <1>2, <2>2, OverForGood DEF Following
      <3>2. Recording
        BY <1>2, <3>1 DEF StoredWell
      <3>3. Recording'
        BY <2>1, <2>2, <3>2, RecordingStep
      <3>4. QED
        BY <2>2, <3>1, <3>3 DEF playbackVars, StoredWell
    <2>3. ASSUME UNCHANGED <<recordedBytes, stored, pc, overlapped, late, faulted>>
          PROVE  StoredInOrder' /\ StoredIsAll'
      <3>1. StoredInOrder /\ StoredIsAll
        BY <1>2, <2>1, RecordingIsStored DEF StoredWell
      <3>2. QED
        BY <2>3, <3>1 DEF StoredInOrder, StoredIsAll, StoredOutput, StoredControls,
                          PausesInPlace, Recorded
    <2>4. CASE PlaybackNext
      <3>1. /\ UNCHANGED <<recordedBytes, stored, pc, overlapped, late, faulted>>
            /\ play' # "idle"
        BY <2>4 DEF PlaybackNext, Start, Pop, PopNone, Skip, SendUpTo,
                    SliceOutOfRange, Copy, recorderVars
      <3>2. QED
        BY <2>3, <3>1 DEF StoredWell
    <2>5. CASE UNCHANGED vars
      <3>1. /\ UNCHANGED recorderVars /\ play' = play
        BY <2>5 DEF vars, playbackVars
      <3>2. Recording => Recording'
        <4>1. \A p, b : Call(p, b)' = Call(p, b)
          BY <3>1 DEF recorderVars, Call, In
        <4>2. Message' <=> Message
          BY <3>1 DEF recorderVars, Message, Handling, Toward
        <4>3. \A b : One(b)' <=> One(b)
          BY <3>1, <4>1 DEF recorderVars, One, Alone
        <4>4. (Flowing' <=> Flowing) /\ (OnlyFlushes' <=> OnlyFlushes)
          BY <3>1, <4>1 DEF recorderVars, Flowing, OnlyFlushes, Bound, Out
        <4>5. (Past' <=> Past) /\ (Whole' <=> Whole)
          BY <3>1, <4>1 DEF recorderVars, Whole, Past, Toward
        <4>6. (InHand' <=> InHand) /\ (Pausing' <=> Pausing)
          BY <3>1, <4>1 DEF recorderVars, InHand, TodoComing, Coming, Pausing, Out
        <4>7. QED
          BY <4>2, <4>3, <4>4, <4>5, <4>6 DEF Recording
      <3>3. UNCHANGED <<recordedBytes, stored, pc, overlapped, late, faulted>>
        BY <3>1 DEF recorderVars
      <3>4. QED
        BY <1>2, <2>3, <3>1, <3>2, <3>3 DEF StoredWell
    <2>6. QED
      BY <1>2, <2>2, <2>4, <2>5 DEF Next
  <1>3. QED
    BY <1>1, <1>2

\* Whatever fails, and also where one goroutine writes to a buffer while the other
\* waits for the recorder, the stored recording is the beginning of the output and
\* no stored pause lies before a message in front of it, as long as no call came
\* between the steps of another.
THEOREM StoredInOrderHolds == Spec => []StoredInOrder
  <1>1. ASSUME Types, StoredWell PROVE StoredInOrder
    BY <1>1, RecordingIsStored DEF Types, StoredWell
  <1>2. QED
    BY <1>1, TypesInductive, FollowingInductive, RecordingInductive, PTL DEF Spec

\* The stored recording is all of the output, if no insertion failed, none of it
\* was recorded behind the reader's flush and no call came between the steps of
\* another.
THEOREM StoredIsAllHolds == Spec => []StoredIsAll
  <1>1. ASSUME Types, StoredWell PROVE StoredIsAll
    BY <1>1, RecordingIsStored DEF Types, StoredWell
  <1>2. QED
    BY <1>1, TypesInductive, FollowingInductive, RecordingInductive, PTL DEF Spec

-----------------------------------------------------------------------------
(* Pauses in the playback                                                  *)

\* No pause in a sequence lies before a message in front of it.
Ordered(seq) == \A i, j \in DOMAIN seq : i < j => Behind(seq[i], seq[j])

\* No pause that is still to be popped lies before what was sent, nor before the
\* control message that is being merged, if the stored pauses are in place.
InTurn ==
  /\ play # "idle" /\ ~overlapped["control"] => PausesInPlace
  /\ ~overlapped["control"] =>
       /\ Ordered(controls)
       /\ \A j \in DOMAIN controls : controls[j].type = "delay" =>
            /\ Len(played) <= controls[j].offset
            /\ play \in {"skip", "upto"} => due.offset <= controls[j].offset
       /\ play = "inconsistent" => due.type = "resize"
  /\ play \in {"idle", "copy", "done"} => controls = <<>>

\* What is in front of a sequence in order is in order.
LEMMA FrontInOrder ==
  ASSUME NEW s \in Seq(Control), NEW t \in Seq(Control), Ordered(s \o t)
  PROVE  Ordered(s)
  <1>1. /\ DOMAIN s = 1 .. Len(s) /\ DOMAIN (s \o t) = 1 .. Len(s) + Len(t)
        /\ Len(s) \in Nat /\ Len(t) \in Nat
        /\ \A i \in 1 .. Len(s) : (s \o t)[i] = s[i]
    OBVIOUS
  <1>2. \A i \in 1 .. Len(s) : i \in DOMAIN (s \o t)
    BY <1>1
  <1>3. QED
    BY <1>1, <1>2 DEF Ordered

\* A playback begins with messages in order.
LEMMA StartInTurn ==
  ASSUME Types, Following, StoredWell, play = "idle", Start
  PROVE  InTurn'
  <1>1. StoredInOrder
    BY RecordingIsStored DEF Types, StoredWell
  <1>2. /\ Len(played') = 0 /\ play' = "pop"
        /\ UNCHANGED <<stored, overlapped>>
    BY DEF Start, Following
  <1>3. ~overlapped["control"] => PausesInPlace
    BY <1>1 DEF StoredInOrder
  <1>4. PausesInPlace' <=> PausesInPlace
    BY <1>2 DEF PausesInPlace, StoredControls
  <1>5. ASSUME ~overlapped["control"]
        PROVE  Ordered(controls') /\ controls' \in Seq(Control)
    <2>1. CASE stored["control"] = <<>>
      BY <2>1 DEF Start, FirstControls, Ordered
    <2>2. CASE stored["control"] # <<>>
      <3>1. stored["control"] \in Seq(Seq(Control))
        BY StoreTypes, Names DEF Types, RecorderTypes, Items
      <3>2. PICK doc \in Seq(Control), more \in Seq(Control) :
              /\ doc = Head(stored["control"])
              /\ more = FlattenSeq(Tail(stored["control"]))
        <4>1. Head(stored["control"]) \in Seq(Control)
              /\ Tail(stored["control"]) \in Seq(Seq(Control))
          BY <2>2, <3>1
        <4>2. QED
          BY <4>1, FlattenType
      <3>3. StoredControls = doc \o more
        BY <2>2, <3>1, <3>2, FlattenHead DEF StoredControls
      <3>4. Ordered(StoredControls)
        BY <1>3, <1>5 DEF PausesInPlace, Ordered, Behind
      <3>5. Ordered(doc)
        BY <3>3, <3>4, FrontInOrder
      <3>6. PICK piece \in Seq(Control), rest \in Seq(Control) :
              piece = First(doc, ControlsRead) /\ rest = Rest(doc, ControlsRead)
        BY FirstAndRest, PlaybackAssumption
      <3>7. piece \o rest = doc
        BY <3>6, FirstThenRest, PlaybackAssumption
      <3>8. Ordered(piece)
        BY <3>5, <3>7, FrontInOrder
      <3>9. controls' = doc \/ controls' = piece
        BY <2>2, <3>2, <3>6 DEF Start, FirstControls
      <3>10. QED
        BY <3>5, <3>8, <3>9
    <2>3. QED
      BY <2>1, <2>2
  <1>6. ASSUME ~overlapped["control"], NEW j \in DOMAIN controls'
        PROVE  0 <= controls'[j].offset
    <2>1. controls'[j] \in Control
      BY <1>5, <1>6
    <2>2. QED
      BY <2>1, BehindTypes
  <1>7. QED
    BY <1>2, <1>3, <1>4, <1>5, <1>6 DEF InTurn

\* The next message is popped: only a resize can lie before what was sent.
LEMMA PopInTurn ==
  ASSUME Types, InTurn, Pop
  PROVE  InTurn'
  <1>1. controls \in Seq(Control) /\ controls # <<>>
    BY DEF Types, Merged, Pop
  <1>2. PICK m \in Nat : m = Len(controls) /\ DOMAIN controls = 1 .. m /\ m > 0
    BY <1>1
  <1>3. PICK next : next = controls[1] /\ next = Head(controls)
    BY <1>1
  <1>4. PICK rest : rest = Tail(controls)
    OBVIOUS
  <1>5. DOMAIN rest = 1 .. m - 1 /\ \A j \in 1 .. m - 1 : rest[j] = controls[j + 1]
    BY <1>1, <1>2, <1>4
  <1>6. \A j \in 1 .. m - 1 : j + 1 \in 1 .. m /\ 1 < j + 1 /\ 1 \in 1 .. m
    BY <1>2
  <1>7. /\ due' = next /\ controls' = rest /\ played' = played
        /\ play' = (IF Len(played) > next.offset THEN "inconsistent" ELSE "skip")
        /\ next.type # "none" /\ play = "pop" /\ UNCHANGED <<stored, overlapped>>
    BY <1>3, <1>4 DEF Pop, recorderVars
  <1>8. (play' # "idle" /\ ~overlapped'["control"] => PausesInPlace')
        /\ play' \in {"inconsistent", "skip"}
    BY <1>7 DEF InTurn, PausesInPlace, StoredControls
  <1>9. SUFFICES ASSUME ~overlapped["control"]
                 PROVE  /\ Ordered(rest)
                        /\ \A j \in 1 .. m - 1 : rest[j].type = "delay" =>
                             Len(played) <= rest[j].offset /\ next.offset <= rest[j].offset
                        /\ play' = "inconsistent" => next.type = "resize"
    BY <1>5, <1>7, <1>8 DEF InTurn
  <1>10. /\ Ordered(controls)
         /\ \A j \in DOMAIN controls : controls[j].type = "delay" =>
              Len(played) <= controls[j].offset
    BY <1>9 DEF InTurn
  <1>11. Ordered(rest)
    <2>1. SUFFICES ASSUME NEW i \in 1 .. m - 1, NEW j \in 1 .. m - 1, i < j
                   PROVE  Behind(rest[i], rest[j])
      BY <1>5 DEF Ordered
    <2>2. i + 1 \in 1 .. m /\ j + 1 \in 1 .. m /\ i + 1 < j + 1
      BY <1>6, <2>1
    <2>3. QED
      BY <1>2, <1>5, <1>10, <2>1, <2>2 DEF Ordered
  <1>12. \A j \in 1 .. m - 1 : rest[j].type = "delay" =>
          Len(played) <= rest[j].offset /\ next.offset <= rest[j].offset
    BY <1>2, <1>3, <1>5, <1>6, <1>10 DEF Ordered, Behind
  <1>13. next.type = "delay" => Len(played) <= next.offset
    BY <1>2, <1>3, <1>6, <1>10
  <1>14. next.type \in {"delay", "resize"} /\ next.offset \in Nat /\ Len(played) \in Nat
    <2>1. next \in Control
      BY <1>1, <1>2, <1>3
    <2>2. QED
      BY <1>7, <2>1, KnownSizes DEF Control, Types, Merged
  <1>15. play' = "inconsistent" => next.type = "resize"
    BY <1>7, <1>13, <1>14
  <1>16. QED
    BY <1>11, <1>12, <1>15

\* The order of the control messages, stored and played, is inductive.
THEOREM InTurnInductive ==
  /\ Init => InTurn
  /\ Types /\ Following /\ StoredWell /\ InTurn /\ [Next]_vars => InTurn'
  <1>1. ASSUME Init PROVE InTurn
    BY <1>1 DEF Init, InTurn, Ordered
  <1>2. ASSUME Types, Following, StoredWell, InTurn, [Next]_vars PROVE InTurn'
    <2>1. Reader /\ Merged /\ RecorderTypes /\ Types'
      BY <1>2, TypesInductive DEF Types
    <2>2. CASE RecorderNext /\ UNCHANGED playbackVars
      <3>1. play = "idle"
        BY <1>2, <2>2, OverForGood DEF Following
      <3>2. /\ controls = <<>> /\ play' = "idle" /\ controls' = <<>>
        BY <1>2, <2>2, <3>1 DEF InTurn, playbackVars
      <3>3. QED
        BY <3>2 DEF InTurn, Ordered
    <2>3. CASE Start
      BY <1>2, <2>3, StartInTurn DEF Start
    <2>4. CASE Pop
      BY <1>2, <2>4, PopInTurn
    <2>5. ASSUME UNCHANGED recorderVars, play # "idle"
          PROVE  play' # "idle" /\ ~overlapped'["control"] => PausesInPlace'
      BY <1>2, <2>5 DEF InTurn, recorderVars, PausesInPlace, StoredControls
    <2>6. ASSUME UNCHANGED <<controls, due>>, UNCHANGED recorderVars,
                 play' \in {"skip", "upto", "pop", "panic"},
                 play \in {"skip", "upto"},
                 Len(played') <= due.offset
          PROVE  InTurn'
      <3>0. played' \in Seq(Byte) /\ controls \in Seq(Control) /\ due \in Control
        BY <2>1 DEF Types, Merged
      <3>1. /\ Len(played') \in Nat
            /\ \A j \in DOMAIN controls : controls[j] \in Control
        BY <3>0
      <3>2. \A j \in DOMAIN controls : controls[j].offset \in Nat
        BY <3>1, KnownSizes DEF Control
      <3>3. due.offset \in Nat
        BY <3>0, KnownSizes DEF Control
      <3>4. overlapped' = overlapped
        BY <2>6 DEF recorderVars
      <3>5. ASSUME ~overlapped["control"]
            PROVE  \A j \in DOMAIN controls : controls[j].type = "delay" =>
                     Len(played') <= controls[j].offset /\ due.offset <= controls[j].offset
        BY <1>2, <2>6, <3>1, <3>2, <3>3, <3>5 DEF InTurn
      <3>6. ~overlapped["control"] => Ordered(controls)
        BY <1>2 DEF InTurn
      <3>7. QED
        BY <2>5, <2>6, <3>4, <3>5, <3>6 DEF InTurn
    <2>7. CASE Skip
      <3>1. /\ UNCHANGED <<controls, due>> /\ UNCHANGED recorderVars
            /\ play' \in {"skip", "upto"} /\ play = "skip"
        BY <2>7 DEF Skip
      <3>2. Len(played') <= due.offset
        BY <2>1, <3>1 DEF Types, PlayPlaces
      <3>3. QED
        BY <2>6, <3>1, <3>2
    <2>8. CASE SendUpTo
      <3>1. PICK n \in Nat : n = due.offset - Len(played) /\ n = BytesUntilControl
        BY <1>2, <2>1, <2>8, KnownSizes
           DEF SendUpTo, Types, PlayPlaces, BytesUntilControl, Merged, Control
      <3>2. /\ Send(Read(n)) /\ play' = "pop" /\ play = "upto"
            /\ UNCHANGED <<controls, due>> /\ UNCHANGED recorderVars
        BY <2>8, <3>1 DEF SendUpTo, UpTo
      <3>3. Len(played') <= Len(played) + n /\ Len(played) \in Nat
        BY <2>1, <3>2, SendTypes
      <3>4. Len(played') <= due.offset
        BY <2>1, <3>1, <3>3, KnownSizes DEF Merged, Control
      <3>5. QED
        BY <2>6, <3>2, <3>4
    <2>9. CASE SliceOutOfRange
      <3>1. Len(played') <= due.offset
        BY <1>2, <2>9 DEF SliceOutOfRange, Types, PlayPlaces
      <3>2. QED
        BY <2>6, <2>9, <3>1 DEF SliceOutOfRange
    <2>10. CASE PopNone \/ Copy
      <3>1. /\ UNCHANGED recorderVars /\ controls' = <<>>
            /\ play' \in {"copy", "done"} /\ play # "idle"
        BY <1>2, <2>10 DEF PopNone, Copy, InTurn
      <3>2. QED
        BY <2>5, <3>1 DEF InTurn, Ordered
    <2>11. CASE UNCHANGED vars
      BY <1>2, <2>11 DEF vars, recorderVars, playbackVars, InTurn, PausesInPlace,
                         StoredControls
    <2>12. QED
      BY <1>2, <2>2, <2>3, <2>4, <2>7, <2>8, <2>9, <2>10, <2>11
         DEF Next, PlaybackNext
  <1>3. QED
    BY <1>1, <1>2

\* "this should never happen" happens only for a resize, never for a pause, unless
\* calls to the buffer of the control messages overlapped.
THEOREM InconsistentOnlyByResizeHolds == Spec => []InconsistentOnlyByResize
  <1>1. InTurn => InconsistentOnlyByResize
    BY DEF InTurn, InconsistentOnlyByResize
  <1>2. QED
    BY <1>1, TypesInductive, FollowingInductive, RecordingInductive, InTurnInductive, PTL
       DEF Spec
=============================================================================
