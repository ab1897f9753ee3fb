-------------------------- MODULE PeripheralsProofs --------------------------
(***************************************************************************)
(* Proofs about the serial ports and what is on them, the modem and the    *)
(* receiver, and about the numbers in the messages.                        *)
(***************************************************************************)
EXTENDS Peripherals, Codec, SshClientProofs, SequenceTheorems, FiniteSetTheorems,
        FunctionTheorems, WellFoundedInduction

-----------------------------------------------------------------------------
(* hal/serial.c, for buffers of any size up to MaxCount, reads of any      *)
(* Chunk, any line and any user that keeps to the order of calls.          *)

(* Inside the loop its condition held when it was last tested.             *)
Looping == rpc = "reading" => port = "open" /\ t < count - 1

SerialIInv == SerialTypeOK /\ Looping /\ ShortReadsAreLost /\ ReadStaysNear

-----------------------------------------------------------------------------
(* What read takes from the line fits in a chunk, and the rest stays.      *)
LEMMA TakenType ==
    ASSUME SerialTypeOK, line # <<>>
    PROVE  /\ Taken \in 1 .. Chunk
           /\ SubSeq(line, Taken + 1, Len(line)) \in Seq(Item)
<1>1. line \in Seq(Item) /\ Len(line) \in Nat \ {0}
  BY EmptySeq, LenProperties DEF SerialTypeOK
<1>2. Taken \in 1 .. Chunk /\ Taken <= Len(line)
  BY <1>1, SerialAssumption DEF Taken, Least, SerialTypeOK
<1>3. \A i \in Taken + 1 .. Len(line) : line[i] \in Item
  BY <1>1, <1>2, ElementOfSeq
<1> QED
  BY <1>1, <1>2, <1>3, SubSeqProperties

(* The port begins closed, with nobody in serial_read.                     *)
LEMMA SerialInitInvariant == SerialInit => SerialIInv
<1> SUFFICES ASSUME SerialInit PROVE SerialIInv
  OBVIOUS
<1>1. SerialTypeOK
  <2>1. line \in Seq(Item)
    BY EmptySeq DEF SerialInit
  <2>2. count \in 1 .. MaxCount /\ t \in 0 .. Word - 1
    BY SerialAssumption DEF SerialInit
  <2> QED
    BY <2>1, <2>2 DEF SerialInit, SerialTypeOK
<1> QED
  BY <1>1 DEF SerialIInv, Looping, ShortReadsAreLost, ReadStaysNear, SerialInit

(* A read that brings bytes ends the loop with a full buffer only, and     *)
(* writes less than a chunk past it.                                       *)
LEMMA StepSome ==
    ASSUME SerialIInv, ReadSome
    PROVE  SerialIInv'
<1> USE DEF SerialIInv
<1>1. Taken \in 1 .. Chunk /\ line' \in Seq(Item)
  BY TakenType DEF ReadSome
<1>2. /\ rpc = "reading" /\ port = "open" /\ t < count - 1
      /\ port' = port /\ hung' = hung /\ count' = count /\ t' = t + Taken
      /\ rpc' = IF t' < count - 1 THEN "reading" ELSE "back"
  BY DEF ReadSome, Looping, GoOn
<1>3. /\ t \in Nat /\ count \in 1 .. MaxCount /\ hung \in BOOLEAN /\ Word \in Nat
      /\ Chunk \in Nat /\ MaxCount \in Nat /\ MaxCount + Chunk < Word
  BY SerialAssumption DEF SerialTypeOK
<1>4. t' \in 0 .. Word - 1 /\ t' <= count - 2 + Chunk
  BY <1>1, <1>2, <1>3
<1>5. SerialTypeOK'
  BY <1>1, <1>2, <1>3, <1>4 DEF SerialTypeOK
<1>6. Looping' /\ ShortReadsAreLost' /\ ReadStaysNear'
  BY <1>2, <1>3, <1>4 DEF Looping, ShortReadsAreLost, ReadStaysNear
<1> QED
  BY <1>5, <1>6

(* A read that fails takes one away; at zero the count wraps, which ends   *)
(* the loop with the largest number there is.                              *)
LEMMA StepNothing ==
    ASSUME SerialIInv, ReadNothing
    PROVE  SerialIInv'
<1> USE DEF SerialIInv
<1>1. /\ rpc = "reading" /\ port = "open" /\ t < count - 1
      /\ port' = port /\ line' = line /\ hung' = hung /\ count' = count
      /\ t' = IF t = 0 THEN Word - 1 ELSE t - 1
      /\ rpc' = IF t' < count - 1 THEN "reading" ELSE "back"
  BY DEF ReadNothing, Looping, GoOn, lineVars
<1>2. /\ t \in 0 .. Word - 1 /\ count \in 1 .. MaxCount /\ Word \in Nat
      /\ Chunk \in Nat /\ MaxCount \in Nat /\ MaxCount + Chunk < Word
  BY SerialAssumption DEF SerialTypeOK
<1>3. t' \in 0 .. Word - 1 /\ (t' = Word - 1 \/ t' < count - 1)
  BY <1>1, <1>2
<1>4. SerialTypeOK'
  BY <1>1, <1>3 DEF SerialTypeOK
<1>5. Looping' /\ ShortReadsAreLost' /\ ReadStaysNear'
  BY <1>1, <1>2, <1>3 DEF Looping, ShortReadsAreLost, ReadStaysNear
<1> QED
  BY <1>4, <1>5

(* Every step of a user, of the line and of serial_read.                   *)
LEMMA SerialStepInvariant ==
    ASSUME SerialIInv, [SerialNext]_serialVars
    PROVE  SerialIInv'
<1> USE SerialAssumption DEF SerialIInv, SerialTypeOK, Looping, ShortReadsAreLost, ReadStaysNear,
        lineVars, readVars
<1>1. CASE Open
  BY <1>1 DEF Open, OpenPort, OpenResults
<1>2. CASE Close
  BY <1>2, EmptySeq DEF Close, ClosePort
<1>3. CASE Read
  <2> PICK c \in 1 .. MaxCount : ReadStart(c, buf)
    BY <1>3 DEF Read
  <2> QED
    BY <1>3 DEF Read, ReadStart
<1>4. CASE Return
  BY <1>4 DEF Return
<1>5. CASE UseBuffer
  BY <1>5 DEF UseBuffer
<1>6. CASE LineMoves
  BY <1>6 DEF LineMoves
<1>7. CASE ReadSome
  BY <1>7, StepSome
<1>8. CASE ReadNothing
  BY <1>8, StepNothing
<1>9. CASE ReadHungUp
  BY <1>9 DEF ReadHungUp
<1>10. CASE UNCHANGED serialVars
  BY <1>10 DEF serialVars
<1> QED
  BY <1>1, <1>2, <1>3, <1>4, <1>5, <1>6, <1>7, <1>8, <1>9, <1>10
  DEF SerialNext, ReadStep

-----------------------------------------------------------------------------
(* The invariant holds of every use of the port.                           *)
LEMMA SerialInvariant == SerialSpec => []SerialIInv
<1> QED
  BY SerialInitInvariant, SerialStepInvariant, PTL DEF SerialSpec

(* Type correctness: the count never leaves its word, nothing is read of a *)
(* buffer larger than MaxCount.                                            *)
THEOREM PortTypeCorrect == SerialSpec => []SerialTypeOK
<1>1. SerialIInv => SerialTypeOK
  BY DEF SerialIInv
<1> QED
  BY SerialInvariant, <1>1, PTL

(* serial_read never reports less than a full buffer while the device is   *)
(* there: what was read before the line fell silent is not told.  It       *)
(* writes less than one chunk past the end of its buffer.                  *)
THEOREM OnlyFullReads == SerialSpec => []ReadsAreFull
<1>1. SerialIInv => ReadsAreFull
  BY DEF SerialIInv, ReadsAreFull
<1> QED
  BY SerialInvariant, <1>1, PTL
-----------------------------------------------------------------------------
(* Sequences and sets of places *)

(* A set of numbers has a least one.                                       *)
LEMMA LeastOf ==
    ASSUME NEW T \in SUBSET Nat, T # {}
    PROVE  \E x \in T : \A y \in T : x <= y
<1>0. T \subseteq Nat /\ \A y \in T : y \in Nat
  OBVIOUS
<1>1. \E R : IsWellFoundedOn(R, Nat) /\ \A x, y \in Nat : x < y => <<x, y>> \in R
  <2>1. \A x, y \in Nat : x < y => <<x, y>> \in OpToRel(<, Nat)
    BY DEF OpToRel
  <2> QED
    BY <2>1, NatLessThanWellFounded
<1>2. PICK R : IsWellFoundedOn(R, Nat) /\ \A x, y \in Nat : x < y => <<x, y>> \in R
  BY <1>1
<1>3. \E x \in T : \A y \in T : ~ (<<y, x>> \in R)
  <2>1. IsWellFoundedOn(R, Nat) /\ T \subseteq Nat /\ T # {}
    BY <1>0, <1>2
  <2> QED
    BY <2>1, WFMin, Zenon
<1>4. PICK x \in T : \A y \in T : ~ (<<y, x>> \in R)
  BY <1>3
<1>5. ASSUME NEW y \in T
      PROVE  x <= y
  <2>1. x \in Nat /\ y \in Nat
    BY <1>0
  <2>2. ~ (y < x)
    BY <1>2, <1>4, <2>1
  <2> QED
    BY <2>1, <2>2
<1> QED
  BY <1>5

(* A set of places has a first and a last one.                             *)
LEMMA FirstAndLast ==
    ASSUME NEW n \in Nat, NEW T \in SUBSET (1 .. n), T # {}
    PROVE  /\ Min(T) \in T /\ \A y \in T : Min(T) <= y
           /\ Max(T) \in T /\ \A y \in T : Max(T) >= y
<1>1. \E x \in T : \A y \in T : x <= y
  <2>1. T \in SUBSET Nat
    OBVIOUS
  <2> QED
    BY <2>1, LeastOf
<1>2. \E x \in T : \A y \in T : x >= y
  <2> DEFINE D == {n - x : x \in T}
  <2>0. \A x \in T : x \in Nat /\ n - x \in Nat
    OBVIOUS
  <2>1. D \in SUBSET Nat /\ D # {}
    BY <2>0
  <2>2. PICK d \in D : \A e \in D : d <= e
    BY <2>1, LeastOf
  <2>3. PICK x \in T : d = n - x
    OBVIOUS
  <2>4. \A y \in T : d <= n - y
    BY <2>2
  <2>5. \A y \in T : y \in Nat
    OBVIOUS
  <2> QED
    BY <2>3, <2>4, <2>5
<1> QED
  BY <1>1, <1>2 DEF Min, Max

(* Both parts of a sequence cut after k places.                            *)
LEMMA Cut ==
    ASSUME NEW S, NEW s \in Seq(S), NEW k \in 0 .. Len(s)
    PROVE  /\ SubSeq(s, 1, k) \in Seq(S) /\ Len(SubSeq(s, 1, k)) = k
           /\ \A i \in 1 .. k : SubSeq(s, 1, k)[i] = s[i]
           /\ SubSeq(s, k + 1, Len(s)) \in Seq(S)
           /\ Len(SubSeq(s, k + 1, Len(s))) = Len(s) - k
           /\ \A i \in 1 .. Len(s) - k : SubSeq(s, k + 1, Len(s))[i] = s[k + i]
<1>1. Len(s) \in Nat /\ k \in Int /\ 1 \in Int /\ k + 1 \in Int /\ Len(s) \in Int
  BY LenProperties
<1>2. /\ \A i \in 1 .. k : s[i] \in S
      /\ \A i \in k + 1 .. Len(s) : s[i] \in S
  BY <1>1, ElementOfSeq
<1>3. /\ SubSeq(s, 1, k) \in Seq(S)
      /\ Len(SubSeq(s, 1, k)) = IF 1 <= k THEN k - 1 + 1 ELSE 0
      /\ \A i \in 1 .. k - 1 + 1 : SubSeq(s, 1, k)[i] = s[1 + i - 1]
  BY <1>1, <1>2, SubSeqProperties
<1>4. /\ SubSeq(s, k + 1, Len(s)) \in Seq(S)
      /\ Len(SubSeq(s, k + 1, Len(s)))
            = IF k + 1 <= Len(s) THEN Len(s) - (k + 1) + 1 ELSE 0
      /\ \A i \in 1 .. Len(s) - (k + 1) + 1 :
            SubSeq(s, k + 1, Len(s))[i] = s[k + 1 + i - 1]
  BY <1>1, <1>2, SubSeqProperties
<1>5. /\ SubSeq(s, 1, k) \in Seq(S) /\ Len(SubSeq(s, 1, k)) = k
      /\ \A i \in 1 .. k : SubSeq(s, 1, k)[i] = s[i]
  BY <1>1, <1>3
<1>6. /\ SubSeq(s, k + 1, Len(s)) \in Seq(S)
      /\ Len(SubSeq(s, k + 1, Len(s))) = Len(s) - k
      /\ \A i \in 1 .. Len(s) - k : SubSeq(s, k + 1, Len(s))[i] = s[k + i]
  BY <1>1, <1>4
<1> QED
  BY <1>5, <1>6

(* What is behind the end of a sequence is empty.                          *)
LEMMA Behind ==
    ASSUME NEW S, NEW s \in Seq(S), NEW k \in Nat, k > Len(s)
    PROVE  SubSeq(s, k, Len(s)) = <<>>
<1>1. Len(s) \in Nat
  BY LenProperties
<1> QED
  BY <1>1, SubSeqEmpty

(* What becomes of a buffer b with s written over it from place o on.      *)
LEMMA OverlayIs ==
    ASSUME NEW S, NEW b \in Seq(S), NEW s \in Seq(S), NEW o \in 0 .. Len(b)
    PROVE  /\ Overlay(b, o, s) \in Seq(S)
           /\ Len(Overlay(b, o, s)) = IF o + Len(s) <= Len(b) THEN Len(b) ELSE o + Len(s)
           /\ \A i \in 1 .. o : Overlay(b, o, s)[i] = b[i]
           /\ \A i \in 1 .. Len(s) : Overlay(b, o, s)[o + i] = s[i]
           /\ \A i \in o + Len(s) + 1 .. Len(b) : Overlay(b, o, s)[i] = b[i]
<1> DEFINE A == SubSeq(b, 1, o)
           C == SubSeq(b, o + Len(s) + 1, Len(b))
<1>1. Len(b) \in Nat /\ Len(s) \in Nat /\ o \in Nat /\ o <= Len(b)
  BY LenProperties
<1>2. A \in Seq(S) /\ Len(A) = o /\ \A i \in 1 .. o : A[i] = b[i]
  BY Cut
<1>3. /\ C \in Seq(S)
      /\ Len(C) = IF o + Len(s) <= Len(b) THEN Len(b) - (o + Len(s)) ELSE 0
      /\ \A i \in 1 .. Len(C) : C[i] = b[o + Len(s) + i]
  <2>1. CASE o + Len(s) <= Len(b)
    <3>1. o + Len(s) \in 0 .. Len(b)
      BY <1>1, <2>1
    <3>2. /\ C \in Seq(S) /\ Len(C) = Len(b) - (o + Len(s))
          /\ \A i \in 1 .. Len(b) - (o + Len(s)) : C[i] = b[o + Len(s) + i]
      <4> HIDE DEF A
      <4> QED
        BY <3>1, Cut
    <3> HIDE DEF C
    <3> QED
      BY <2>1, <3>2
  <2>2. CASE o + Len(s) > Len(b)
    <3>1. o + Len(s) + 1 \in Nat /\ o + Len(s) + 1 > Len(b)
      BY <1>1, <2>2
    <3>2. C = <<>>
      BY <3>1, Behind
    <3>3. Len(C) = 0 /\ C \in Seq(S)
      BY <3>2, EmptySeq
    <3> QED
      BY <1>1, <2>2, <3>3
  <2> QED
    BY <1>1, <2>1, <2>2
<1> HIDE DEF A, C
<1> DEFINE c == Len(C)
           m == o + Len(s)
<1>3a. c \in Nat /\ m \in Nat /\ c = IF m <= Len(b) THEN Len(b) - m ELSE 0
  BY <1>1, <1>3, LenProperties
<1>4. /\ A \o s \in Seq(S) /\ Len(A \o s) = o + Len(s)
      /\ \A i \in 1 .. o + Len(s) : (A \o s)[i] = IF i <= o THEN A[i] ELSE s[i - o]
  BY <1>2, ConcatProperties
<1> DEFINE B == A \o s
<1> HIDE DEF B
<1>5. B \in Seq(S) /\ Len(B) = o + Len(s)
      /\ \A i \in 1 .. o + Len(s) : B[i] = IF i <= o THEN A[i] ELSE s[i - o]
  BY <1>4 DEF B
<1> DEFINE D == B \o C
<1> HIDE DEF D
<1>6. /\ D \in Seq(S) /\ Len(D) = Len(B) + Len(C)
      /\ \A i \in 1 .. Len(B) + Len(C) : D[i] = IF i <= Len(B) THEN B[i] ELSE C[i - Len(B)]
  BY <1>3, <1>5, ConcatProperties DEF D
<1>7. Overlay(b, o, s) = D
  BY DEF Overlay, A, B, C, D
<1>8. \A i \in 1 .. o : D[i] = b[i]
  <2> TAKE i \in 1 .. o
  <2>0. Len(B) \in Nat /\ Len(C) \in Nat /\ o <= Len(B)
    BY <1>1, <1>3a, <1>5
  <2>1. i \in 1 .. Len(B) /\ i \in 1 .. Len(B) + Len(C) /\ i <= o
    BY <2>0
  <2>2. D[i] = B[i]
    BY <1>5, <1>6, <2>1
  <2> QED
    BY <1>2, <1>5, <2>1, <2>2
<1>9. \A i \in 1 .. Len(s) : D[o + i] = s[i]
  <2> TAKE i \in 1 .. Len(s)
  <2>1. o + i \in 1 .. Len(B)
    BY <1>1, <1>5
  <2>2. D[o + i] = B[o + i]
    <3>1. Len(B) \in Nat /\ Len(C) \in Nat
      BY <1>1, <1>3a, <1>5
    <3>2. o + i \in 1 .. Len(B) + Len(C) /\ o + i <= Len(B)
      BY <2>1, <3>1
    <3> QED
      BY <1>6, <3>2
  <2>3. B[o + i] = IF o + i <= o THEN A[o + i] ELSE s[i]
    <3>1. o + i \in 1 .. o + Len(s) /\ o + i - o = i
      BY <1>1
    <3>2. B[o + i] = IF o + i <= o THEN A[o + i] ELSE s[o + i - o]
      BY <1>5, <3>1
    <3> QED
      BY <3>1, <3>2
  <2>4. ~ (o + i <= o)
    BY <1>1
  <2> QED
    BY <2>2, <2>3, <2>4
<1>10. \A i \in o + Len(s) + 1 .. Len(b) : D[i] = b[i]
  <2> TAKE i \in o + Len(s) + 1 .. Len(b)
  <2> DEFINE j == i - (o + Len(s))
  <2>0. m <= Len(b) /\ c = Len(b) - m
    BY <1>1, <1>3a
  <2>1. j \in 1 .. Len(C) /\ i \in 1 .. Len(B) + Len(C) /\ ~(i <= Len(B))
        /\ i = o + Len(s) + j
    BY <1>1, <1>3a, <1>5, <2>0
  <2>2. D[i] = C[j]
    BY <1>5, <1>6, <2>1
  <2>3. C[j] = b[i]
    BY <1>3, <2>1
  <2> QED
    BY <2>2, <2>3
<1>11. Len(D) = IF m <= Len(b) THEN Len(b) ELSE m
  <2>1. Len(D) = m + c
    BY <1>5, <1>6
  <2>2. CASE m <= Len(b)
    BY <1>1, <1>3a, <2>1, <2>2
  <2>3. CASE ~ (m <= Len(b))
    BY <1>1, <1>3a, <2>1, <2>3
  <2> QED
    BY <2>2, <2>3
<1> QED
  BY <1>6, <1>7, <1>8, <1>9, <1>10, <1>11
-----------------------------------------------------------------------------
(* serial_read in the middle of what is going on around it *)

(* As much of the buffer was written as t_bytes says, unless it wrapped.   *)
Written ==
    /\ t = Word - 1 \/ t <= Len(buf)
    /\ rpc = "idle" => t = 0

(* What a read that brings something does to line, buffer and count.       *)
LEMMA SomeIsTaken ==
    ASSUME SerialIInv, Written, NEW S, line \in Seq(S), buf \in Seq(S), ReadSome
    PROVE  /\ Taken \in 1 .. Len(line) /\ t \in Nat /\ t < count - 1 /\ t <= Len(buf)
           /\ t' = t + Taken /\ port' = port /\ hung' = hung /\ count' = count
           /\ rpc = "reading" /\ port = "open"
           /\ rpc' = IF t' < count - 1 THEN "reading" ELSE "back"
           /\ line' \in Seq(S) /\ Len(line') = Len(line) - Taken
           /\ \A i \in 1 .. Len(line) - Taken : line'[i] = line[Taken + i]
           /\ buf' \in Seq(S)
           /\ Len(buf') = IF t + Taken <= Len(buf) THEN Len(buf) ELSE t + Taken
           /\ \A i \in 1 .. t : buf'[i] = buf[i]
           /\ \A i \in 1 .. Taken : buf'[t + i] = line[i]
<1>1. /\ rpc = "reading" /\ line # <<>> /\ port' = port /\ hung' = hung /\ count' = count
      /\ t' = t + Taken /\ rpc' = IF t' < count - 1 THEN "reading" ELSE "back"
      /\ buf' = Overlay(buf, t, SubSeq(line, 1, Taken))
      /\ line' = SubSeq(line, Taken + 1, Len(line))
  BY DEF ReadSome, GoOn
<1>2. /\ port = "open" /\ t \in Nat /\ t < count - 1 /\ count \in Nat
      /\ count <= MaxCount /\ MaxCount \in Nat /\ Chunk \in Nat \ {0} /\ Word \in Nat
      /\ MaxCount + Chunk < Word
  BY <1>1, SerialAssumption DEF SerialIInv, SerialTypeOK, Looping
<1>3. t <= Len(buf) /\ Len(buf) \in Nat /\ t \in 0 .. Len(buf)
  BY <1>2, LenProperties DEF Written
<1>4. Len(line) \in Nat \ {0}
  BY <1>1, EmptySeq, LenProperties
<1>5. Taken \in 1 .. Len(line)
  BY <1>2, <1>4 DEF Taken, Least
<1> DEFINE k == Taken
           s == SubSeq(line, 1, k)
           r == SubSeq(line, k + 1, Len(line))
<1>6. /\ s \in Seq(S) /\ Len(s) = k /\ \A i \in 1 .. k : s[i] = line[i]
      /\ r \in Seq(S) /\ Len(r) = Len(line) - k
      /\ \A i \in 1 .. Len(line) - k : r[i] = line[k + i]
  <2>1. k \in 0 .. Len(line)
    BY <1>5
  <2> HIDE DEF k
  <2> QED
    BY <2>1, Cut
<1> HIDE DEF s, r
<1>7. /\ Overlay(buf, t, s) \in Seq(S)
      /\ Len(Overlay(buf, t, s)) = IF t + Len(s) <= Len(buf) THEN Len(buf) ELSE t + Len(s)
      /\ \A i \in 1 .. t : Overlay(buf, t, s)[i] = buf[i]
      /\ \A i \in 1 .. Len(s) : Overlay(buf, t, s)[t + i] = s[i]
  BY <1>3, <1>6, OverlayIs
<1>8. buf' = Overlay(buf, t, s) /\ line' = r
  BY <1>1 DEF s, r
<1>9. /\ buf' \in Seq(S)
      /\ Len(buf') = IF t + Taken <= Len(buf) THEN Len(buf) ELSE t + Taken
      /\ \A i \in 1 .. t : buf'[i] = buf[i]
      /\ \A i \in 1 .. Taken : buf'[t + i] = line[i]
  BY <1>6, <1>7, <1>8
<1>10. /\ line' \in Seq(S) /\ Len(line') = Len(line) - Taken
       /\ \A i \in 1 .. Len(line) - Taken : line'[i] = line[Taken + i]
  BY <1>6, <1>8
<1> QED
  BY <1>1, <1>2, <1>3, <1>5, <1>9, <1>10

(* A step inside serial_read moves items from the line to the buffer and   *)
(* makes none up.                                                          *)
LEMMA ReadKeeps ==
    ASSUME SerialIInv, Written, NEW S, line \in Seq(S), buf \in Seq(S), ReadStep
    PROVE  /\ line' \in Seq(S) /\ buf' \in Seq(S) /\ Written'
           /\ rpc = "reading" /\ rpc' \in {"reading", "back"}
           /\ port' = port /\ hung' = hung /\ count' = count
<1>1. CASE ReadSome
  <2>1. /\ Taken \in 1 .. Len(line) /\ t \in Nat /\ t' = t + Taken
        /\ Len(buf') = IF t + Taken <= Len(buf) THEN Len(buf) ELSE t + Taken
        /\ rpc' = IF t' < count - 1 THEN "reading" ELSE "back"
        /\ line' \in Seq(S) /\ buf' \in Seq(S)
        /\ rpc = "reading" /\ port' = port /\ hung' = hung /\ count' = count
    BY <1>1, SomeIsTaken
  <2>2. Len(line) \in Nat /\ Len(buf) \in Nat
    BY LenProperties
  <2>3. t' <= Len(buf')
    BY <2>1, <2>2
  <2> QED
    BY <2>1, <2>3 DEF Written
<1>2. CASE ReadNothing
  <2>1. /\ rpc = "reading" /\ line' = line /\ buf' = buf /\ port' = port /\ hung' = hung
        /\ count' = count /\ rpc' \in {"reading", "back"}
        /\ t' = IF t = 0 THEN Word - 1 ELSE t - 1
    BY <1>2 DEF ReadNothing, GoOn, lineVars
  <2>2. t \in Nat /\ t < count - 1 /\ count \in Nat /\ count <= MaxCount
        /\ MaxCount \in Nat /\ Chunk \in Nat /\ Word \in Nat /\ MaxCount + Chunk < Word
    BY <2>1, SerialAssumption DEF SerialIInv, SerialTypeOK, Looping
  <2>3. Len(buf) \in Nat
    BY LenProperties
  <2>4. Written'
    BY <2>1, <2>2, <2>3 DEF Written
  <2> QED
    BY <2>1, <2>4
<1>3. CASE ReadHungUp
  BY <1>3 DEF ReadHungUp, lineVars, Written
<1> QED
  BY <1>1, <1>2, <1>3 DEF ReadStep

-----------------------------------------------------------------------------
(* hal/fx650.c *)

Codes == {"OK", "ERR_AT_TIMEOUT", "ERR_AT_ERROR"}

(* What follows each command, case by case.                                *)
LEMMA AfterEach ==
    ASSUME NEW code, NEW b, AfterCommand(code, b)
    PROVE  /\ mpc = "at" => IF code = "OK" THEN Then("curl") ELSE Fail(code)
           /\ mpc = "dhcpcfg" => Then(IF Has(b, "42.") THEN "setip" ELSE "cpin")
           /\ mpc = "setip" => Then("cpin")
           /\ mpc = "cpin" => CheckSim(b)
           /\ mpc = "apn" => IF Has(b, "OK") THEN Then("rndis?") ELSE Fail("ERR_APN_NOT_READY")
           /\ mpc = "rndis?" => QueryDial(b)
           /\ mpc = "rndis" => IF Has(b, "OK") THEN Then("dhcp") ELSE Fail("ERR_PDP_ACTIVATE")
           /\ mpc = "ccid" =>
                /\ mpc' = "close" /\ modem' = modem
                /\ simId' = IF ~Has(b, "OK") THEN simId
                            ELSE IF b[1][1] = "CCID" THEN "CCID" ELSE "other"
<1>1. mpc = "at" => IF code = "OK" THEN Then("curl") ELSE Fail(code)
  BY Zenon DEF AfterCommand
<1>2. mpc = "dhcpcfg" => Then(IF Has(b, "42.") THEN "setip" ELSE "cpin")
  BY Zenon DEF AfterCommand
<1>3. mpc = "setip" => Then("cpin")
  BY Zenon DEF AfterCommand
<1>4. mpc = "cpin" => CheckSim(b)
  BY Zenon DEF AfterCommand
<1>5. mpc = "apn" => IF Has(b, "OK") THEN Then("rndis?") ELSE Fail("ERR_APN_NOT_READY")
  BY Zenon DEF AfterCommand
<1>6. mpc = "rndis?" => QueryDial(b)
  BY Zenon DEF AfterCommand
<1>7. mpc = "rndis" => IF Has(b, "OK") THEN Then("dhcp") ELSE Fail("ERR_PDP_ACTIVATE")
  BY Zenon DEF AfterCommand
<1>8. mpc = "ccid" =>
        /\ mpc' = "close" /\ modem' = modem
        /\ simId' = IF ~Has(b, "OK") THEN simId
                    ELSE IF b[1][1] = "CCID" THEN "CCID" ELSE "other"
  BY Zenon DEF AfterCommand
<1> QED
  BY <1>1, <1>2, <1>3, <1>4, <1>5, <1>6, <1>7, <1>8

(* The order of the commands.                                              *)
LEMMA AfterOrder ==
    ASSUME FxTypeOK, NEW code \in Codes, NEW b, mpc \in Commands, AfterCommand(code, b)
    PROVE  /\ mpc' \in Commands \union {"curl", "dhcp", "close"}
           /\ mpc' \in {"at", "curl", "dhcpcfg"} => mpc = "at" /\ mpc' = "curl"
           /\ mpc' = "setip" => mpc = "dhcpcfg"
           /\ modem' \in Failures \union {"none", "OK"}
           /\ simId' \in {"none", "CCID", "other"}
           /\ mpc' \in {"apn", "rndis?", "rndis", "dhcp"} =>
                 \/ mpc \in {"apn", "rndis?", "rndis"}
                 \/ mpc = "cpin" /\ Has(b, "READY")
           /\ mpc' \in {"ccid", "close"} /\ modem' = "OK" => mpc = "ccid" /\ modem = "OK"
<1> USE DEF Commands, Codes
<1>1. modem \in Failures \union {"none", "OK"} /\ simId \in {"none", "CCID", "other"}
  BY DEF FxTypeOK
<1>2. CASE mpc = "at"
  <2>1. IF code = "OK" THEN Then("curl") ELSE Fail(code)
    BY <1>2, AfterEach
  <2> QED
    BY <1>1, <1>2, <2>1 DEF Then, Fail, Failures
<1>3. CASE mpc = "dhcpcfg"
  <2>1. Then(IF Has(b, "42.") THEN "setip" ELSE "cpin")
    BY <1>3, AfterEach
  <2> QED
    BY <1>1, <1>3, <2>1 DEF Then
<1>4. CASE mpc = "setip"
  <2>1. Then("cpin")
    BY <1>4, AfterEach
  <2> QED
    BY <1>1, <1>4, <2>1 DEF Then
<1>5. CASE mpc = "cpin"
  <2>1. IF Has(b, "READY") THEN Then("apn") ELSE Fail("ERR_SIM_NOT_READY")
    BY <1>5, AfterEach DEF CheckSim
  <2> QED
    BY <1>1, <1>5, <2>1 DEF Then, Fail, Failures
<1>6. CASE mpc = "apn"
  <2>1. IF Has(b, "OK") THEN Then("rndis?") ELSE Fail("ERR_APN_NOT_READY")
    BY <1>6, AfterEach
  <2> QED
    BY <1>1, <1>6, <2>1 DEF Then, Fail, Failures
<1>7. CASE mpc = "rndis?"
  <2>1. Then(IF Has(b, "RNDIS: 0") THEN "rndis" ELSE "dhcp")
    BY <1>7, AfterEach DEF QueryDial
  <2> QED
    BY <1>1, <1>7, <2>1 DEF Then
<1>8. CASE mpc = "rndis"
  <2>1. IF Has(b, "OK") THEN Then("dhcp") ELSE Fail("ERR_PDP_ACTIVATE")
    BY <1>8, AfterEach
  <2> QED
    BY <1>1, <1>8, <2>1 DEF Then, Fail, Failures
<1>9. CASE mpc = "ccid"
  <2>1. /\ mpc' = "close" /\ modem' = modem
        /\ simId' = IF ~Has(b, "OK") THEN simId
                    ELSE IF b[1][1] = "CCID" THEN "CCID" ELSE "other"
    BY <1>9, AfterEach
  <2> QED
    BY <1>1, <1>9, <2>1
<1> QED
  BY <1>2, <1>3, <1>4, <1>5, <1>6, <1>7, <1>8, <1>9

(* resp when serial_read has returned is a part of the buffer.             *)
LEMMA RespIs ==
    ASSUME SerialIInv, Written, NEW S, buf \in Seq(S)
    PROVE  /\ Resp \in Seq(S) /\ Len(Resp) <= Len(buf)
           /\ \A i \in 1 .. Len(Resp) : Resp[i] = buf[i]
           /\ t = Word - 1 => Resp = buf
           /\ t # Word - 1 => Len(Resp) = t
<1>1. Len(buf) \in Nat /\ t \in Nat
  BY LenProperties DEF SerialIInv, SerialTypeOK
<1>2. CASE t = Word - 1
  BY <1>1, <1>2 DEF Resp
<1>3. CASE t # Word - 1
  <2>1. t \in 0 .. Len(buf)
    BY <1>1, <1>3 DEF Written
  <2>2. Resp = SubSeq(buf, 1, t)
    BY <1>3 DEF Resp
  <2> QED
    BY <1>1, <1>3, <2>1, <2>2, Cut
<1> QED
  BY <1>2, <1>3

(* Where fx650_init is when it is in send_at_command and in serial_read,   *)
(* and when the port is open.                                              *)
ModemCalls ==
    /\ mpc # "off"
    /\ apc = "read" <=> rpc # "idle"
    /\ apc # "idle" => mpc \in Commands
    /\ mpc \in {"find", "open", "end"} => port = "closed"
    /\ mpc \in Commands \union {"curl", "dhcp", "close"} => port = "open"

(* The modem says that the SIM card is ready only if it is.                *)
Sayable == {x \in Item : x[1] = "READY" => sim}
TrueToSim == owed \in Seq(Sayable) /\ line \in Seq(Sayable) /\ buf \in Seq(Sayable)

(* And fx650_init goes on as if it were only if the modem has said so.     *)
SimKnown ==
    /\ mpc \in {"apn", "rndis?", "rndis", "dhcp"} => sim
    /\ mpc \in {"ccid", "close", "end"} /\ modem = "OK" /\ ~online => sim

ModemInv == FxTypeOK /\ ModemCalls /\ Written /\ TrueToSim /\ SimKnown

(* A sequence with no READY in it but a true one.                          *)
LEMMA HasReady ==
    ASSUME NEW b \in Seq(Sayable), Has(b, "READY")
    PROVE  sim
<1>1. PICK i \in DOMAIN b : b[i][1] = "READY"
  BY DEF Has
<1>2. DOMAIN b = 1 .. Len(b)
  BY LenProperties
<1>3. b[i] \in Sayable
  BY <1>2, ElementOfSeq
<1> QED
  BY <1>1, <1>3 DEF Sayable

(* An answer without error.                                                *)
Full(cmd) == Text(cmd) \o << <<"OK", 0>>, <<"eol", 0>> >>

(* What the modem says before OK.                                          *)
LEMMA TextIs ==
    /\ Text("dhcpcfg") = << <<IF segment THEN "42." ELSE "42x", 0>> >>
    /\ Text("cpin") = << <<IF sim THEN "READY" ELSE "PIN", 0>> >>
    /\ Text("rndis?") = << <<IF dialled THEN "RNDIS: 1,1" ELSE "RNDIS: 0", 0>> >>
    /\ Text("ccid") = << <<"CCID", 0>> >>
    /\ \A cmd \in {"at", "setip", "apn", "rndis"} : Text(cmd) = <<>>
<1>1. Text("dhcpcfg") = << <<IF segment THEN "42." ELSE "42x", 0>> >>
  BY Zenon DEF Text
<1>2. Text("cpin") = << <<IF sim THEN "READY" ELSE "PIN", 0>> >>
  BY Zenon DEF Text
<1>3. Text("rndis?") = << <<IF dialled THEN "RNDIS: 1,1" ELSE "RNDIS: 0", 0>> >>
  BY Zenon DEF Text
<1>4. Text("ccid") = << <<"CCID", 0>> >>
  BY Zenon DEF Text
<1>5. Text("at") = <<>> /\ Text("setip") = <<>> /\ Text("apn") = <<>> /\ Text("rndis") = <<>>
  BY Zenon DEF Text
<1> QED
  BY <1>1, <1>2, <1>3, <1>4, <1>5

(* A text and OK.                                                          *)
LEMMA OneAndTwo ==
    ASSUME NEW S, NEW x \in S, NEW y \in S, NEW z \in S
    PROVE  << x >> \o << y, z >> = << x, y, z >>
<1> DEFINE a == << x >>
           b == << y, z >>
           c == << x, y, z >>
           d == a \o b
<1>1. /\ a \in Seq(S) /\ b \in Seq(S) /\ c \in Seq(S)
      /\ Len(a) = 1 /\ Len(b) = 2 /\ Len(c) = 3
      /\ a[1] = x /\ b[1] = y /\ b[2] = z /\ c[1] = x /\ c[2] = y /\ c[3] = z
  OBVIOUS
<1> HIDE DEF a, b, c, d
<1>2. /\ d \in Seq(S) /\ Len(d) = Len(a) + Len(b)
      /\ \A i \in 1 .. Len(a) + Len(b) : d[i] = IF i <= Len(a) THEN a[i] ELSE b[i - Len(a)]
  BY <1>1, ConcatProperties DEF d
<1>3. /\ d \in Seq(S) /\ Len(d) = 3
      /\ \A i \in 1 .. 3 : d[i] = IF i <= 1 THEN a[i] ELSE b[i - 1]
  BY <1>1, <1>2
<1>4. d[1] = c[1] /\ d[2] = c[2] /\ d[3] = c[3]
  BY <1>1, <1>3
<1>5. \A i \in 1 .. 3 : d[i] = c[i]
  BY <1>4
<1>6. d = c
  BY <1>1, <1>3, <1>5, SeqEqual
<1> QED
  BY <1>6 DEF a, b, c, d

(* The texts of the modem.                                                 *)
LEMMA ModemTexts ==
    /\ << "OK", 0 >> \in Sayable /\ << "eol", 0 >> \in Sayable /\ << "ERROR", 0 >> \in Sayable
    /\ Sayable \subseteq Item
  BY DEF Sayable, Item, Texts

(* What a whole answer is.                                                 *)
LEMMA FullIs ==
    ASSUME NEW cmd \in Commands
    PROVE  /\ cmd \in {"at", "setip", "apn", "rndis"} =>
                 Full(cmd) = << <<"OK", 0>>, <<"eol", 0>> >>
           /\ cmd \in {"dhcpcfg", "cpin", "rndis?", "ccid"} =>
                 \E x \in Item : /\ Text(cmd) = << x >>
                                 /\ Full(cmd) = << x, <<"OK", 0>>, <<"eol", 0>> >>
           /\ Text(cmd) \in Seq(Sayable)
<1>1. CASE cmd \in {"at", "setip", "apn", "rndis"}
  <2>1. Text(cmd) = <<>>
    BY <1>1, TextIs
  <2>2. << <<"OK", 0>>, <<"eol", 0>> >> \in Seq(Item)
    BY ModemTexts
  <2>3. Full(cmd) = << <<"OK", 0>>, <<"eol", 0>> >>
    BY <2>1, <2>2, ConcatEmptySeq DEF Full
  <2> QED
    BY <1>1, <2>1, <2>3, EmptySeq
<1>2. CASE cmd \in {"dhcpcfg", "cpin", "rndis?", "ccid"}
  <2>1. \E w \in Texts : Text(cmd) = << <<w, 0>> >> /\ (w = "READY" => sim)
    <3>1. CASE cmd = "dhcpcfg"
      <4> DEFINE v == IF segment THEN "42." ELSE "42x"
      <4>1. v \in Texts /\ (v = "READY" => sim)
        BY DEF Texts
      <4>2. Text(cmd) = << <<v, 0>> >>
        BY <3>1, TextIs
      <4> QED
        BY <4>1, <4>2
    <3>2. CASE cmd = "cpin"
      <4> DEFINE v == IF sim THEN "READY" ELSE "PIN"
      <4>1. v \in Texts /\ (v = "READY" => sim)
        BY DEF Texts
      <4>2. Text(cmd) = << <<v, 0>> >>
        BY <3>2, TextIs
      <4> QED
        BY <4>1, <4>2
    <3>3. CASE cmd = "rndis?"
      <4> DEFINE v == IF dialled THEN "RNDIS: 1,1" ELSE "RNDIS: 0"
      <4>1. v \in Texts /\ (v = "READY" => sim)
        BY DEF Texts
      <4>2. Text(cmd) = << <<v, 0>> >>
        BY <3>3, TextIs
      <4> QED
        BY <4>1, <4>2
    <3>4. CASE cmd = "ccid"
      <4> DEFINE v == "CCID"
      <4>1. v \in Texts /\ (v = "READY" => sim)
        BY DEF Texts
      <4>2. Text(cmd) = << <<v, 0>> >>
        BY <3>4, TextIs
      <4> QED
        BY <4>1, <4>2
    <3> QED
      BY <1>2, <3>1, <3>2, <3>3, <3>4
  <2>2. PICK w \in Texts : Text(cmd) = << <<w, 0>> >> /\ (w = "READY" => sim)
    BY <2>1
  <2> DEFINE x == <<w, 0>>
  <2>3. x \in Sayable /\ x \in Item /\ Text(cmd) = << x >>
    BY <2>2 DEF Sayable, Item
  <2> HIDE DEF x
  <2>4. Full(cmd) = << x, <<"OK", 0>>, <<"eol", 0>> >>
    BY <2>3, OneAndTwo, ModemTexts DEF Full
  <2>5. << x >> \in Seq(Sayable)
    BY <2>3
  <2> QED
    BY <1>2, <2>3, <2>4, <2>5
<1> QED
  BY <1>1, <1>2 DEF Commands

(* A command is answered, in full or with ERROR, or it is not.             *)
LEMMA SendAnswers ==
    ASSUME FxTypeOK, owed \in Seq(Sayable), Send
    PROVE  /\ mpc \in Commands /\ apc = "idle" /\ rpc = "idle" /\ apc' = "select"
           /\ UNCHANGED serialVars /\ mpc' = mpc /\ sim' = sim /\ online' = online
           /\ modem' = modem /\ simId' = simId /\ credit' = credit
           /\ owed' \in Seq(Sayable)
           /\ segment' \in BOOLEAN /\ dialled' \in BOOLEAN /\ calm' \in BOOLEAN
           /\ calm' => /\ calm /\ ~hung
                       /\ owed' = owed \o Text(mpc) \o << <<"OK", 0>>, <<"eol", 0>> >>
                       /\ dialled' = (dialled \/ mpc = "rndis")
                       /\ segment' = (segment /\ mpc # "setip")
<1>1. /\ mpc \in Commands /\ apc = "idle" /\ rpc = "idle" /\ apc' = "select"
      /\ UNCHANGED serialVars /\ mpc' = mpc /\ sim' = sim /\ online' = online
      /\ modem' = modem /\ simId' = simId /\ credit' = credit
  BY DEF Send
<1>2. segment \in BOOLEAN /\ dialled \in BOOLEAN /\ calm \in BOOLEAN
  BY Zenon DEF FxTypeOK
<1> DEFINE ok == << <<"OK", 0>>, <<"eol", 0>> >>
           whole == owed \o Text(mpc) \o ok
<1>3. whole \in Seq(Sayable)
  <2>1. ok \in Seq(Sayable) /\ Text(mpc) \in Seq(Sayable)
    BY <1>1, FullIs, ModemTexts
  <2> HIDE DEF ok
  <2>2. owed \o Text(mpc) \in Seq(Sayable)
    BY <2>1, ConcatProperties
  <2> QED
    BY <2>1, <2>2, ConcatProperties
<1>4. owed \o << <<"ERROR", 0>> >> \in Seq(Sayable)
  <2>1. << <<"ERROR", 0>> >> \in Seq(Sayable)
    BY ModemTexts
  <2> QED
    BY <2>1, ConcatProperties
<1>5. \/ /\ owed' = whole /\ dialled' = (dialled \/ mpc = "rndis")
         /\ segment' = (segment /\ mpc # "setip") /\ calm' = calm /\ ~hung
      \/ /\ owed' \in {owed, owed \o << <<"ERROR", 0>> >>}
         /\ dialled' = dialled /\ segment' = segment /\ calm' = FALSE
  BY Zenon DEF Send, Answer
<1> HIDE DEF whole
<1>6. owed' \in Seq(Sayable)
  BY <1>3, <1>4, <1>5
<1>7. segment' \in BOOLEAN /\ dialled' \in BOOLEAN /\ calm' \in BOOLEAN
  BY <1>2, <1>5, Zenon
<1>8. calm' => /\ calm /\ ~hung /\ owed' = whole
               /\ dialled' = (dialled \/ mpc = "rndis")
               /\ segment' = (segment /\ mpc # "setip")
  BY <1>5
<1> QED
  BY <1>1, <1>6, <1>7, <1>8 DEF whole

(* As long as the card is the same, what was true of it stays so.          *)
LEMMA StaysTrue ==
    ASSUME sim' = sim, owed' \in Seq(Sayable), line' \in Seq(Sayable), buf' \in Seq(Sayable)
    PROVE  TrueToSim'
<1>1. Sayable' = Sayable
  BY DEF Sayable
<1> QED
  BY <1>1 DEF TrueToSim

(* Types of what a step changes and of what it leaves alone.               *)
LEMMA FxTypesStay ==
    ASSUME FxTypeOK, sim' = sim,
           mpc' \in Commands \union {"off", "find", "open", "curl", "stuck", "dhcp", "close", "end"},
           apc' \in {"idle", "select", "read"},
           segment' \in BOOLEAN, dialled' \in BOOLEAN, online' \in BOOLEAN, calm' \in BOOLEAN,
           modem' \in Failures \union {"none", "OK"},
           simId' \in {"none", "CCID", "other"},
           credit' \in Int
    PROVE  FxTypeOK'
<1>1. sim' \in BOOLEAN
  BY Zenon DEF FxTypeOK
<1>2. {sim', segment', dialled', online', calm'} \subseteq BOOLEAN
  BY <1>1, Zenon
<1> QED
  BY <1>2, Zenon DEF FxTypeOK

(* The types, one by one.                                                  *)
LEMMA FxTypes ==
    ASSUME FxTypeOK
    PROVE  /\ mpc \in Commands \union {"off", "find", "open", "curl", "stuck", "dhcp", "close", "end"}
           /\ apc \in {"idle", "select", "read"}
           /\ sim \in BOOLEAN /\ segment \in BOOLEAN /\ dialled \in BOOLEAN
           /\ online \in BOOLEAN /\ calm \in BOOLEAN
           /\ modem \in Failures \union {"none", "OK"}
           /\ simId \in {"none", "CCID", "other"}
           /\ credit \in Int
  BY Zenon DEF FxTypeOK

(* find_interface_by_vid_pid, the connection check and the DHCP client do  *)
(* not touch the port.                                                     *)
LEMMA StepFind ==
    ASSUME SerialIInv, ModemInv, FindInterface
    PROVE  ModemInv' /\ UNCHANGED serialVars
<1>1. /\ mpc = "find" /\ apc' = apc /\ online' = online /\ calm' = calm /\ credit' = credit
      /\ UNCHANGED serialVars /\ owed' = owed /\ sim' = sim /\ segment' = segment
      /\ dialled' = dialled /\ simId' = simId
      /\ \/ mpc' = "open" /\ modem' = modem
         \/ mpc' = "end" /\ modem' = "ERR_INIT"
  BY DEF FindInterface, Then, modemVars
<1>2. /\ port' = port /\ line' = line /\ rpc' = rpc /\ t' = t /\ buf' = buf
  BY <1>1 DEF serialVars
<1>3. FxTypeOK'
  BY <1>1, FxTypes, FxTypesStay DEF ModemInv, Failures
<1>4. ModemCalls'
  BY <1>1, <1>2 DEF ModemInv, ModemCalls, Commands
<1>5. Written' /\ TrueToSim'
  BY <1>1, <1>2, StaysTrue DEF ModemInv, Written, TrueToSim
<1>6. SimKnown'
  BY <1>1 DEF SimKnown
<1> QED
  BY <1>1, <1>3, <1>4, <1>5, <1>6 DEF ModemInv

(* As above.                                                               *)
LEMMA StepCheckOrDhcp ==
    ASSUME SerialIInv, ModemInv, CheckConnection \/ RunDhcp
    PROVE  ModemInv' /\ UNCHANGED serialVars
<1>1. /\ apc' = apc /\ calm' = calm /\ credit' = credit
      /\ UNCHANGED serialVars /\ owed' = owed /\ sim' = sim /\ segment' = segment
      /\ dialled' = dialled /\ simId' = simId
      /\ \/ /\ mpc = "curl" /\ online' \in BOOLEAN /\ modem' = "OK"
            /\ mpc' = IF online' THEN "ccid" ELSE "dhcpcfg"
         \/ mpc = "curl" /\ mpc' = "stuck" /\ modem' = modem /\ online' = online
         \/ mpc = "dhcp" /\ mpc' = "ccid" /\ modem' = modem /\ online' = online
  BY DEF CheckConnection, RunDhcp, Then, modemVars
<1>2. /\ port' = port /\ line' = line /\ rpc' = rpc /\ t' = t /\ buf' = buf
  BY <1>1 DEF serialVars
<1>3. FxTypeOK'
  <2>1. mpc' \in Commands \union {"off", "find", "open", "curl", "stuck", "dhcp", "close", "end"}
    BY <1>1 DEF Commands
  <2>2. online' \in BOOLEAN /\ modem' \in Failures \union {"none", "OK"}
    BY <1>1, FxTypes DEF ModemInv
  <2> QED
    BY <1>1, <2>1, <2>2, FxTypes, FxTypesStay DEF ModemInv
<1>4. ModemCalls'
  BY <1>1, <1>2 DEF ModemInv, ModemCalls, Commands
<1>5. Written' /\ TrueToSim'
  BY <1>1, <1>2, StaysTrue DEF ModemInv, Written, TrueToSim
<1>6. SimKnown'
  BY <1>1 DEF ModemInv, SimKnown
<1> QED
  BY <1>1, <1>3, <1>4, <1>5, <1>6 DEF ModemInv

(* The port is opened once, before the first command, and closed once.     *)
LEMMA StepOpenModem ==
    ASSUME SerialIInv, ModemInv, OpenModem
    PROVE  ModemInv' /\ Open
<1>1. /\ mpc = "open" /\ apc' = apc /\ online' = online /\ calm' = calm /\ credit' = credit
      /\ owed' = owed /\ sim' = sim /\ segment' = segment /\ dialled' = dialled
      /\ simId' = simId /\ UNCHANGED <<lineVars, readVars, buf>>
      /\ \/ OpenPort("ok") /\ mpc' = "at" /\ modem' = modem
         \/ OpenPort("open failed") /\ mpc' = "end" /\ modem' = "ERR_INIT"
  BY DEF OpenModem, Then, modemVars
<1>2. /\ OpenPort("ok") => port' = "open"
      /\ OpenPort("open failed") => port' = "closed"
  BY Zenon DEF OpenPort
<1>3. line' = line /\ rpc' = rpc /\ t' = t /\ buf' = buf
  BY <1>1 DEF lineVars, readVars
<1>4. rpc = "idle" /\ port = "closed"
  <2>1. apc = "idle"
    BY <1>1, FxTypes DEF ModemInv, ModemCalls, Commands
  <2> QED
    BY <1>1, <2>1 DEF ModemInv, ModemCalls
<1>5. Open
  <2>1. \E r \in OpenResults : OpenPort(r)
    BY <1>1 DEF OpenResults
  <2> QED
    BY <1>1, <1>4, <2>1 DEF Open
<1>6. FxTypeOK'
  BY <1>1, FxTypes, FxTypesStay DEF ModemInv, Failures, Commands
<1>7. ModemCalls'
  BY <1>1, <1>2, <1>3, <1>4 DEF ModemInv, ModemCalls, Commands
<1>8. Written' /\ TrueToSim'
  BY <1>1, <1>3, StaysTrue DEF ModemInv, Written, TrueToSim
<1>9. SimKnown'
  BY <1>1 DEF SimKnown
<1> QED
  BY <1>5, <1>6, <1>7, <1>8, <1>9 DEF ModemInv

(* As above.                                                               *)
LEMMA StepCloseModem ==
    ASSUME SerialIInv, ModemInv, CloseModem
    PROVE  ModemInv' /\ Close
<1>1. /\ mpc = "close" /\ mpc' = "end" /\ apc' = apc /\ online' = online /\ calm' = calm
      /\ credit' = credit /\ sim' = sim /\ segment' = segment /\ dialled' = dialled
      /\ simId' = simId /\ modem' = modem /\ ClosePort
      /\ line' = <<>> /\ owed' = <<>> /\ buf' = <<>> /\ hung' = hung /\ UNCHANGED readVars
  BY DEF CloseModem, Then
<1>2. rpc' = rpc /\ t' = t /\ count' = count /\ port' = "closed"
  BY <1>1 DEF readVars, ClosePort
<1>3. rpc = "idle" /\ port = "open"
  <2>1. apc = "idle"
    BY <1>1, FxTypes DEF ModemInv, ModemCalls, Commands
  <2> QED
    BY <1>1, <2>1 DEF ModemInv, ModemCalls
<1>4. Close
  BY <1>1, <1>3 DEF Close
<1>5. FxTypeOK'
  BY <1>1, FxTypes, FxTypesStay DEF ModemInv
<1>6. ModemCalls'
  BY <1>1, <1>2, <1>3, FxTypes DEF ModemInv, ModemCalls, Commands
<1>7. TrueToSim'
  BY <1>1, StaysTrue, EmptySeq
<1>8. SimKnown'
  BY <1>1 DEF ModemInv, SimKnown
<1>9. Written'
  BY <1>1, <1>2, <1>3, EmptySeq DEF ModemInv, Written
<1> QED
  BY <1>4, <1>5, <1>6, <1>7, <1>8, <1>9 DEF ModemInv

(* A command is written, and the modem does what it does.                  *)
LEMMA StepSend ==
    ASSUME SerialIInv, ModemInv, Send
    PROVE  ModemInv' /\ UNCHANGED serialVars
<1>1. /\ mpc \in Commands /\ apc = "idle" /\ rpc = "idle" /\ apc' = "select"
      /\ UNCHANGED serialVars /\ mpc' = mpc /\ sim' = sim /\ online' = online
      /\ modem' = modem /\ simId' = simId /\ credit' = credit
      /\ owed' \in Seq(Sayable)
      /\ segment' \in BOOLEAN /\ dialled' \in BOOLEAN /\ calm' \in BOOLEAN
  BY SendAnswers DEF ModemInv, TrueToSim
<1>2. /\ port' = port /\ line' = line /\ rpc' = rpc /\ t' = t /\ buf' = buf
  BY <1>1 DEF serialVars
<1>3. FxTypeOK'
  BY <1>1, FxTypes, FxTypesStay DEF ModemInv
<1>4. ModemCalls'
  BY <1>1, <1>2 DEF ModemInv, ModemCalls
<1>5. Written' /\ TrueToSim'
  BY <1>1, <1>2, StaysTrue DEF ModemInv, Written, TrueToSim
<1>6. SimKnown'
  BY <1>1 DEF ModemInv, SimKnown
<1> QED
  BY <1>1, <1>3, <1>4, <1>5, <1>6 DEF ModemInv

(* The end of send_at_command, and where fx650_init goes from there: the   *)
(* port is as it was, and the call of serial_read is over.                 *)
LEMMA CommandEnds ==
    ASSUME SerialIInv, ModemInv, NEW code \in Codes, NEW b \in Seq(Sayable),
           apc # "idle", AfterCommand(code, b), apc' = "idle", rpc' = "idle", t' = 0,
           port' = port, line' = line, owed' = owed, sim' = sim, segment' = segment,
           dialled' = dialled, online' = online, calm' \in BOOLEAN, credit' \in Int,
           buf' \in Seq(Sayable)
    PROVE  ModemInv'
<1>1. mpc \in Commands
  BY DEF ModemInv, ModemCalls
<1>2. /\ mpc' \in Commands \union {"curl", "dhcp", "close"}
      /\ modem' \in Failures \union {"none", "OK"}
      /\ simId' \in {"none", "CCID", "other"}
      /\ mpc' \in {"apn", "rndis?", "rndis", "dhcp"} =>
            \/ mpc \in {"apn", "rndis?", "rndis"}
            \/ mpc = "cpin" /\ Has(b, "READY")
      /\ mpc' \in {"ccid", "close"} /\ modem' = "OK" => mpc = "ccid" /\ modem = "OK"
  BY <1>1, AfterOrder DEF ModemInv
<1>3. FxTypeOK'
  BY <1>2, FxTypes, FxTypesStay DEF ModemInv
<1>4. ModemCalls'
  BY <1>1, <1>2 DEF ModemInv, ModemCalls, Commands
<1>5. Written'
  BY LenProperties DEF Written
<1>6. TrueToSim'
  BY StaysTrue DEF ModemInv, TrueToSim
<1>7. SimKnown'
  BY <1>2, HasReady DEF ModemInv, SimKnown, Commands
<1> QED
  BY <1>3, <1>4, <1>5, <1>6, <1>7 DEF ModemInv

(* What is left in resp for the next command.                              *)
LEMMA KeptIs ==
    ASSUME NEW S, NEW b \in Seq(S), buf' = Kept(b)
    PROVE  /\ buf' \in Seq(S)
           /\ mpc' = "setip" => buf' = b
           /\ mpc' # "setip" => buf' = <<>>
  BY EmptySeq DEF Kept

(* An answer that does not come.                                           *)
LEMMA StepTimeout ==
    ASSUME SerialIInv, ModemInv, Timeout
    PROVE  ModemInv' /\ UseBuffer
<1>1. /\ apc = "select" /\ apc' = "idle" /\ calm' = FALSE
      /\ AfterCommand("ERR_AT_TIMEOUT", buf) /\ buf' = Kept(buf)
      /\ UNCHANGED <<port, lineVars, readVars, modemVars, online, credit>>
  BY DEF Timeout
<1>2. /\ port' = port /\ line' = line /\ rpc' = rpc /\ t' = t /\ owed' = owed /\ sim' = sim
      /\ segment' = segment /\ dialled' = dialled /\ online' = online /\ credit' = credit
  BY <1>1 DEF lineVars, readVars, modemVars
<1>3. rpc = "idle" /\ t = 0
  BY <1>1 DEF ModemInv, ModemCalls, Written
<1>4. buf \in Seq(Sayable) /\ buf' \in Seq(Sayable)
  BY <1>1, KeptIs DEF ModemInv, TrueToSim
<1>5. ModemInv'
  BY <1>1, <1>2, <1>3, <1>4, CommandEnds, FxTypes DEF ModemInv, Codes
<1> QED
  BY <1>1, <1>3, <1>5 DEF UseBuffer

(* serial_read is called when something is there.                          *)
LEMMA StepReadable ==
    ASSUME SerialIInv, ModemInv, Readable
    PROVE  ModemInv' /\ Read
<1>1. /\ apc = "select" /\ apc' = "read" /\ ReadStart(RespLen, buf)
      /\ UNCHANGED <<port, lineVars, mpc, modemVars, online, modem, simId, calm, credit>>
  BY DEF Readable
<1>2. /\ port' = port /\ line' = line /\ owed' = owed /\ sim' = sim
      /\ segment' = segment /\ dialled' = dialled
      /\ rpc' # "idle" /\ t' = 0 /\ buf' = buf
  BY <1>1 DEF lineVars, modemVars, ReadStart
<1>3. Read
  <2>1. RespLen \in 1 .. MaxCount
    BY RespAssumption
  <2> QED
    BY <1>1, <2>1 DEF Read
<1>4. FxTypeOK'
  BY <1>1, <1>2, FxTypes, FxTypesStay DEF ModemInv
<1>5. ModemCalls'
  BY <1>1, <1>2 DEF ModemInv, ModemCalls
<1>6. Written' /\ TrueToSim'
  BY <1>1, <1>2, LenProperties, StaysTrue DEF ModemInv, Written, TrueToSim
<1>7. SimKnown'
  BY <1>1, <1>2 DEF ModemInv, SimKnown
<1> QED
  BY <1>3, <1>4, <1>5, <1>6, <1>7 DEF ModemInv

(* Inside serial_read.                                                     *)
LEMMA StepReading ==
    ASSUME SerialIInv, ModemInv, Reading
    PROVE  ModemInv' /\ ReadStep
<1>1. ReadStep /\ UNCHANGED fxVars
  BY DEF Reading
<1>2. /\ mpc' = mpc /\ apc' = apc /\ owed' = owed /\ sim' = sim /\ segment' = segment
      /\ dialled' = dialled /\ online' = online /\ modem' = modem /\ simId' = simId
      /\ calm' = calm /\ credit' = credit
  BY <1>1 DEF fxVars
<1>3. /\ line' \in Seq(Sayable) /\ buf' \in Seq(Sayable) /\ Written'
      /\ rpc = "reading" /\ rpc' \in {"reading", "back"} /\ port' = port
  BY <1>1, ReadKeeps DEF ModemInv, TrueToSim
<1>4. FxTypeOK'
  BY <1>2, FxTypes, FxTypesStay DEF ModemInv
<1>5. ModemCalls'
  BY <1>2, <1>3 DEF ModemInv, ModemCalls
<1>6. TrueToSim'
  BY <1>2, <1>3, StaysTrue DEF ModemInv, TrueToSim
<1>7. SimKnown'
  BY <1>2 DEF ModemInv, SimKnown
<1> QED
  BY <1>1, <1>3, <1>4, <1>5, <1>6, <1>7 DEF ModemInv

(* The three outcomes of the search in resp.                               *)
LEMMA LookIs ==
    ASSUME Look
    PROVE  /\ apc = "read" /\ rpc = "back" /\ rpc' = "idle" /\ t' = 0
           /\ UNCHANGED <<port, lineVars, count, modemVars, online, calm>>
           /\ \/ /\ HasOk(Resp) /\ apc' = "idle" /\ credit' = credit - 1
                 /\ AfterCommand("OK", Resp) /\ buf' = Kept(Resp)
              \/ /\ ~HasOk(Resp) /\ apc' = "idle" /\ credit' = credit
                 /\ AfterCommand("ERR_AT_ERROR", Resp) /\ buf' = Kept(Resp)
              \/ /\ ~HasOk(Resp) /\ apc' = "select" /\ buf' = Resp
                 /\ UNCHANGED <<credit, mpc, modem, simId>>
  BY DEF Look

(* The search.                                                             *)
LEMMA StepLook ==
    ASSUME SerialIInv, ModemInv, Look
    PROVE  ModemInv' /\ Return
<1>1. /\ apc = "read" /\ rpc = "back" /\ rpc' = "idle" /\ t' = 0
      /\ UNCHANGED <<port, lineVars, count, modemVars, online, calm>>
  BY LookIs
<1>2. /\ port' = port /\ line' = line /\ owed' = owed /\ sim' = sim
      /\ segment' = segment /\ dialled' = dialled /\ online' = online /\ calm' = calm
  BY <1>1 DEF lineVars, modemVars
<1>3. Return
  BY <1>1 DEF Return
<1>4. Resp \in Seq(Sayable)
  BY RespIs DEF ModemInv, TrueToSim
<1>5. ASSUME NEW code \in Codes, AfterCommand(code, Resp), apc' = "idle",
             credit' \in Int, buf' = Kept(Resp)
      PROVE  ModemInv'
  <2>1. buf' \in Seq(Sayable)
    BY <1>4, <1>5, KeptIs
  <2> QED
    BY <1>1, <1>2, <1>4, <1>5, <2>1, CommandEnds, FxTypes DEF ModemInv
<1>6. CASE HasOk(Resp) /\ apc' = "idle" /\ credit' = credit - 1
           /\ AfterCommand("OK", Resp) /\ buf' = Kept(Resp)
  <2>1. credit' \in Int
    BY <1>6, FxTypes DEF ModemInv
  <2> QED
    BY <1>3, <1>5, <1>6, <2>1 DEF Codes
<1>7. CASE ~HasOk(Resp) /\ apc' = "idle" /\ credit' = credit
           /\ AfterCommand("ERR_AT_ERROR", Resp) /\ buf' = Kept(Resp)
  <2>1. credit' \in Int
    BY <1>7, FxTypes DEF ModemInv
  <2> QED
    BY <1>3, <1>5, <1>7, <2>1 DEF Codes
<1>8. CASE ~HasOk(Resp) /\ apc' = "select" /\ buf' = Resp
           /\ UNCHANGED <<credit, mpc, modem, simId>>
  <2>1. FxTypeOK'
    BY <1>2, <1>8, FxTypes, FxTypesStay DEF ModemInv
  <2>2. ModemCalls'
    BY <1>1, <1>2, <1>8 DEF ModemInv, ModemCalls
  <2>3. Written' /\ TrueToSim'
    BY <1>1, <1>2, <1>4, <1>8, LenProperties, StaysTrue DEF ModemInv, Written, TrueToSim
  <2>4. SimKnown'
    BY <1>2, <1>8 DEF ModemInv, SimKnown
  <2> QED
    BY <1>3, <2>1, <2>2, <2>3, <2>4 DEF ModemInv
<1> QED
  BY <1>6, <1>7, <1>8, LookIs

(* Some of what the modem owes comes over the line.                        *)
LEMMA SendsIs ==
    ASSUME ModemSends, NEW S, owed \in Seq(S), line \in Seq(S)
    PROVE  \E n \in 1 .. Len(owed) :
              /\ SubSeq(owed, 1, n) \in Seq(S) /\ Len(SubSeq(owed, 1, n)) = n
              /\ line' = line \o SubSeq(owed, 1, n) /\ line' \in Seq(S)
              /\ owed' = SubSeq(owed, n + 1, Len(owed)) /\ owed' \in Seq(S)
              /\ credit' = credit + Cardinality(Ends(SubSeq(owed, 1, n)))
              /\ calm' = (calm /\ n = Len(owed))
<1>1. PICK n \in 1 .. Len(owed) :
         /\ line' = line \o SubSeq(owed, 1, n)
         /\ owed' = SubSeq(owed, n + 1, Len(owed))
         /\ credit' = credit + Cardinality(Ends(SubSeq(owed, 1, n)))
         /\ calm' = (calm /\ n = Len(owed))
  BY Zenon DEF ModemSends
<1>2. n \in 0 .. Len(owed) /\ Len(owed) \in Nat
  BY LenProperties
<1>3. /\ SubSeq(owed, 1, n) \in Seq(S) /\ Len(SubSeq(owed, 1, n)) = n
      /\ SubSeq(owed, n + 1, Len(owed)) \in Seq(S)
  BY <1>2, Cut
<1>4. line \o SubSeq(owed, 1, n) \in Seq(S)
  BY <1>3, ConcatProperties
<1> QED
  BY <1>1, <1>3, <1>4

(* The places of a sequence at which an OK ends are finitely many.         *)
LEMMA EndsFinite ==
    ASSUME NEW S, NEW s \in Seq(S)
    PROVE  IsFiniteSet(Ends(s)) /\ Cardinality(Ends(s)) \in Nat
<1>1. Len(s) \in Nat /\ DOMAIN s = 1 .. Len(s)
  BY LenProperties
<1>2. IsFiniteSet(1 .. Len(s))
  BY <1>1, FS_Interval
<1>3. Ends(s) \in SUBSET (1 .. Len(s))
  BY <1>1 DEF Ends
<1> QED
  BY <1>2, <1>3, FS_Subset, FS_CardinalityType

(* As above, SendsIs.                                                      *)
LEMMA StepModemSends ==
    ASSUME SerialIInv, ModemInv, ModemSends
    PROVE  ModemInv' /\ LineMoves
<1>1. /\ mpc # "end" /\ UNCHANGED <<port, hung, readVars, buf>>
      /\ mpc' = mpc /\ apc' = apc /\ sim' = sim /\ segment' = segment
      /\ dialled' = dialled /\ online' = online /\ modem' = modem /\ simId' = simId
  BY Zenon DEF ModemSends
<1>2. /\ rpc' = rpc /\ t' = t
  BY <1>1 DEF readVars
<1>3. PICK n \in 1 .. Len(owed) :
              /\ SubSeq(owed, 1, n) \in Seq(Sayable)
              /\ line' = line \o SubSeq(owed, 1, n) /\ line' \in Seq(Sayable)
              /\ owed' = SubSeq(owed, n + 1, Len(owed)) /\ owed' \in Seq(Sayable)
              /\ credit' = credit + Cardinality(Ends(SubSeq(owed, 1, n)))
              /\ calm' = (calm /\ n = Len(owed))
  BY SendsIs DEF ModemInv, TrueToSim
<1>4. credit' \in Int /\ calm' \in BOOLEAN
  <2>1. Cardinality(Ends(SubSeq(owed, 1, n))) \in Nat
    BY <1>3, EndsFinite
  <2> QED
    BY <1>3, <2>1, FxTypes DEF ModemInv
<1>5. FxTypeOK'
  BY <1>1, <1>4, FxTypes, FxTypesStay DEF ModemInv
<1>6. ModemCalls'
  BY <1>1, <1>2 DEF ModemInv, ModemCalls
<1>7. Written' /\ TrueToSim'
  BY <1>1, <1>2, <1>3, StaysTrue DEF ModemInv, Written, TrueToSim
<1>8. SimKnown'
  BY <1>1 DEF ModemInv, SimKnown
<1>9. LineMoves
  <2>1. line' \in Seq(Item)
    <3>1. Seq(Sayable) \subseteq Seq(Item)
      BY ModemTexts, SeqMonotonic
    <3> QED
      BY <1>3, <3>1
  <2>2. hung' = hung /\ hung \in BOOLEAN
    BY <1>1 DEF SerialIInv, SerialTypeOK
  <2> QED
    BY <1>1, <2>1, <2>2 DEF LineMoves
<1> QED
  BY <1>5, <1>6, <1>7, <1>8, <1>9 DEF ModemInv

(* A message that answers nothing.                                         *)
LEMMA TalkIs ==
    LET s == << << "other", 0 >> >>
    IN  s \in Seq(Sayable) /\ Cardinality(Ends(s)) = 0
<1> DEFINE x == << "other", 0 >>
           s == << x >>
<1>1. x \in Sayable /\ x[1] # "eol"
  BY DEF Sayable, Item, Texts
<1> HIDE DEF x
<1>2. s \in Seq(Sayable) /\ Len(s) = 1 /\ s[1] = x
  BY <1>1
<1> HIDE DEF s
<1>3. DOMAIN s = 1 .. 1
  BY <1>2, LenProperties
<1>4. Ends(s) = {}
  BY <1>1, <1>2, <1>3 DEF Ends
<1> QED
  BY <1>2, <1>4, FS_EmptySet DEF s, x

(* The modem says it.                                                      *)
LEMMA StepModemTalks ==
    ASSUME SerialIInv, ModemInv, ModemTalks
    PROVE  ModemInv' /\ LineMoves
<1>1. /\ line = <<>> /\ line' = << << "other", 0 >> >> /\ calm' = FALSE
      /\ UNCHANGED <<port, hung, readVars, buf, mpc, apc, modemVars, online, modem, simId,
                     credit>>
  BY DEF ModemTalks
<1>2. /\ rpc' = rpc /\ t' = t /\ owed' = owed /\ sim' = sim
      /\ segment' = segment /\ dialled' = dialled
  BY <1>1 DEF readVars, modemVars
<1>3. FxTypeOK'
  BY <1>1, <1>2, FxTypes, FxTypesStay DEF ModemInv
<1>4. ModemCalls'
  BY <1>1, <1>2 DEF ModemInv, ModemCalls
<1>5. line' \in Seq(Sayable)
  BY <1>1, TalkIs
<1>6. Written'
  BY <1>1, <1>2 DEF ModemInv, Written
<1>7. TrueToSim'
  BY <1>1, <1>2, <1>5, StaysTrue DEF ModemInv, TrueToSim
<1>8. SimKnown'
  BY <1>1, <1>2 DEF ModemInv, SimKnown
<1>9. LineMoves
  <2>1. line' \in Seq(Item)
    BY <1>5, ModemTexts, SeqMonotonic
  <2> QED
    BY <1>1, <2>1 DEF LineMoves, SerialIInv, SerialTypeOK
<1> QED
  BY <1>3, <1>4, <1>6, <1>7, <1>8, <1>9 DEF ModemInv

(* The modem is unplugged.                                                 *)
LEMMA StepModemUnplugged ==
    ASSUME SerialIInv, ModemInv, ModemUnplugged
    PROVE  ModemInv' /\ LineMoves
<1>1. /\ hung' = TRUE /\ calm' = FALSE
      /\ UNCHANGED <<port, line, readVars, buf, mpc, apc, modemVars, online, modem, simId,
                     credit>>
  BY DEF ModemUnplugged
<1>2. /\ rpc' = rpc /\ t' = t /\ owed' = owed /\ sim' = sim
      /\ segment' = segment /\ dialled' = dialled
  BY <1>1 DEF readVars, modemVars
<1>3. FxTypeOK'
  BY <1>1, <1>2, FxTypes, FxTypesStay DEF ModemInv
<1>4. ModemCalls'
  BY <1>1, <1>2 DEF ModemInv, ModemCalls
<1>5. Written' /\ TrueToSim'
  BY <1>1, <1>2, StaysTrue DEF ModemInv, Written, TrueToSim
<1>6. SimKnown'
  BY <1>1, <1>2 DEF ModemInv, SimKnown
<1>7. LineMoves
  BY <1>1 DEF LineMoves, SerialIInv, SerialTypeOK
<1> QED
  BY <1>3, <1>4, <1>5, <1>6, <1>7 DEF ModemInv

(* fx650_init and the modem keep the invariant, and the order of calls.    *)
LEMMA StepModem ==
    ASSUME SerialIInv, ModemInv, FxStep
    PROVE  ModemInv' /\ [SerialNext]_serialVars
<1>1. CASE FindInterface
  BY <1>1, StepFind
<1>2. CASE CheckConnection \/ RunDhcp
  BY <1>2, StepCheckOrDhcp
<1>3. CASE OpenModem
  BY <1>3, StepOpenModem DEF SerialNext
<1>4. CASE CloseModem
  BY <1>4, StepCloseModem DEF SerialNext
<1>5. CASE Send
  BY <1>5, StepSend
<1>6. CASE Timeout
  BY <1>6, StepTimeout DEF SerialNext
<1>7. CASE Readable
  BY <1>7, StepReadable DEF SerialNext
<1>8. CASE Reading
  BY <1>8, StepReading DEF SerialNext
<1>9. CASE Look
  BY <1>9, StepLook DEF SerialNext
<1>10. CASE ModemSends
  BY <1>10, StepModemSends DEF SerialNext
<1>11. CASE ModemUnplugged
  BY <1>11, StepModemUnplugged DEF SerialNext
<1>12. CASE ModemTalks
  BY <1>12, StepModemTalks DEF SerialNext
<1> QED
  BY <1>1, <1>2, <1>3, <1>4, <1>5, <1>6, <1>7, <1>8, <1>9, <1>10, <1>11, <1>12
  DEF FxStep, FxProgram

(* OKs are counted by their ends.  Two sequences in a row have as many as  *)
(* the one and the other.                                                  *)
LEMMA EndsConcat ==
    ASSUME NEW S, NEW s \in Seq(S), NEW u \in Seq(S)
    PROVE  Cardinality(Ends(s \o u)) = Cardinality(Ends(s)) + Cardinality(Ends(u))
<1> DEFINE n == Len(s)
           w == s \o u
           D == {n + i : i \in Ends(u)}
           f == [i \in Ends(u) |-> n + i]
<1>1. /\ n \in Nat /\ DOMAIN s = 1 .. n
      /\ Len(u) \in Nat /\ DOMAIN u = 1 .. Len(u)
  BY LenProperties
<1>2. /\ w \in Seq(S) /\ Len(w) = n + Len(u)
      /\ \A i \in 1 .. n + Len(u) : w[i] = IF i <= n THEN s[i] ELSE u[i - n]
  BY ConcatProperties
<1>3. DOMAIN w = 1 .. n + Len(u)
  BY <1>2, LenProperties
<1> HIDE DEF w, n
<1>4. Ends(w) = Ends(s) \union D
  <2>1. ASSUME NEW i \in Ends(w)
        PROVE  i \in Ends(s) \union D
    <3>1. i \in 1 .. n + Len(u) /\ w[i][1] = "eol"
      BY <1>3 DEF Ends
    <3>2. CASE i <= n
      BY <1>1, <1>2, <3>1, <3>2 DEF Ends
    <3>3. CASE ~ (i <= n)
      <4>1. i - n \in 1 .. Len(u) /\ w[i] = u[i - n] /\ i = n + (i - n)
        BY <1>1, <1>2, <3>1, <3>3
      <4>2. i - n \in Ends(u)
        BY <1>1, <3>1, <4>1 DEF Ends
      <4> QED
        BY <4>1, <4>2
    <3> QED
      BY <3>2, <3>3
  <2>2. ASSUME NEW i \in Ends(s)
        PROVE  i \in Ends(w)
    BY <1>1, <1>2, <1>3 DEF Ends
  <2>3. ASSUME NEW i \in Ends(u)
        PROVE  n + i \in Ends(w)
    <3>1. i \in 1 .. Len(u) /\ u[i][1] = "eol"
      BY <1>1 DEF Ends
    <3> DEFINE m == n + i
    <3>2. m \in 1 .. n + Len(u) /\ ~ (m <= n) /\ m - n = i
      BY <1>1, <3>1
    <3> HIDE DEF m
    <3>3. w[m] = u[i]
      BY <1>2, <3>2
    <3>4. n + i = m
      BY DEF m
    <3> QED
      BY <1>3, <3>1, <3>2, <3>3, <3>4 DEF Ends
  <2> QED
    BY <2>1, <2>2, <2>3
<1>5. Ends(s) \intersect D = {}
  BY <1>1 DEF Ends
<1>6. IsFiniteSet(D) /\ Cardinality(D) = Cardinality(Ends(u))
  <2>1. \A i \in Ends(u) : i \in Nat
    BY <1>1 DEF Ends
  <2>2. f \in [Ends(u) -> D] /\ \A a, b \in Ends(u) : f[a] = f[b] => a = b
    BY <1>1, <2>1
  <2>3. f \in Surjection(Ends(u), D)
    BY <2>2 DEF Surjection
  <2>4. f \in Bijection(Ends(u), D)
    BY <2>2, <2>3, Fun_IsBij
  <2>5. ExistsBijection(Ends(u), D)
    BY <2>4 DEF ExistsBijection
  <2>6. IsFiniteSet(Ends(u))
    BY EndsFinite
  <2> QED
    BY <2>5, <2>6, FS_Bijection
<1>7. IsFiniteSet(Ends(s)) /\ Cardinality(Ends(s)) \in Nat /\ Cardinality(Ends(u)) \in Nat
  BY EndsFinite
<1>8. Cardinality(Ends(w)) = Cardinality(Ends(s)) + Cardinality(D) - Cardinality({})
  BY <1>4, <1>5, <1>6, <1>7, FS_Union
<1> QED
  BY <1>6, <1>7, <1>8, FS_EmptySet DEF w

(* So a sequence cut in two loses none.                                    *)
LEMMA EndsCut ==
    ASSUME NEW S, NEW s \in Seq(S), NEW k \in 0 .. Len(s)
    PROVE  Cardinality(Ends(s))
              = Cardinality(Ends(SubSeq(s, 1, k))) + Cardinality(Ends(SubSeq(s, k + 1, Len(s))))
<1>1. Len(s) \in Nat /\ k \in Nat
  BY LenProperties
<1>2. SubSeq(s, 1, k) \in Seq(S) /\ SubSeq(s, k + 1, Len(s)) \in Seq(S)
  BY Cut
<1>3. SubSeq(s, 1, k) \o SubSeq(s, k + 1, Len(s)) = s
  <2>1. /\ 1 \in 1 .. Len(s) + 1 /\ k \in 1 - 1 .. Len(s) /\ Len(s) \in k .. Len(s)
    BY <1>1
  <2>2. SubSeq(s, 1, k) \o SubSeq(s, k + 1, Len(s)) = SubSeq(s, 1, Len(s))
    BY <2>1, ConcatAdjacentSubSeq
  <2> QED
    BY <2>2, SubSeqFull
<1> QED
  BY <1>2, <1>3, EndsConcat

(* The beginning of a sequence has no more than the whole.                 *)
LEMMA EndsBeginning ==
    ASSUME NEW S, NEW s \in Seq(S), NEW u \in Seq(S), Len(s) <= Len(u),
           \A i \in 1 .. Len(s) : s[i] = u[i]
    PROVE  Cardinality(Ends(s)) <= Cardinality(Ends(u))
<1>1. /\ Len(s) \in Nat /\ DOMAIN s = 1 .. Len(s)
      /\ Len(u) \in Nat /\ DOMAIN u = 1 .. Len(u)
  BY LenProperties
<1>2. Ends(s) \in SUBSET Ends(u)
  BY <1>1 DEF Ends
<1> QED
  BY <1>2, EndsFinite, FS_Subset

(* An empty sequence has none.                                             *)
LEMMA EndsEmpty == Cardinality(Ends(<<>>)) = 0
<1>1. DOMAIN << >> = {}
  OBVIOUS
<1>2. Ends(<<>>) = {}
  BY <1>1 DEF Ends
<1> QED
  BY <1>2, FS_EmptySet

(* One with OK and its end has some.                                       *)
LEMMA EndsSome ==
    ASSUME NEW S, NEW s \in Seq(S), HasOk(s)
    PROVE  Cardinality(Ends(s)) >= 1
<1>1. Len(s) \in Nat /\ DOMAIN s = 1 .. Len(s)
  BY LenProperties
<1>2. PICK i \in 1 .. Len(s) - 1 : s[i + 1][1] = "eol"
  BY DEF HasOk
<1>3. i + 1 \in 1 .. Len(s)
  BY <1>1
<1>4. Ends(s) # {}
  BY <1>1, <1>2, <1>3 DEF Ends
<1>5. IsFiniteSet(Ends(s)) /\ Cardinality(Ends(s)) \in Nat
  BY EndsFinite
<1>6. Cardinality(Ends(s)) # 0
  BY <1>4, <1>5, FS_EmptySet
<1> QED
  BY <1>5, <1>6

(* What is written over a buffer adds its own at most.                     *)
LEMMA EndsOverlay ==
    ASSUME NEW S, NEW b \in Seq(S), NEW s \in Seq(S), NEW o \in 0 .. Len(b)
    PROVE  Cardinality(Ends(Overlay(b, o, s))) <= Cardinality(Ends(b)) + Cardinality(Ends(s))
<1> DEFINE A == SubSeq(b, 1, o)
           m == o + Len(s)
           C == SubSeq(b, m + 1, Len(b))
           e(x) == Cardinality(Ends(x))
<1>1. Len(b) \in Nat /\ Len(s) \in Nat /\ o \in Nat /\ m \in Nat
  BY LenProperties
<1>2. A \in Seq(S) /\ Len(A) = o /\ \A i \in 1 .. o : A[i] = b[i]
  BY Cut
<1>3. C \in Seq(S) /\ e(A) + e(C) <= e(b)
  <2>1. CASE m <= Len(b)
    <3> DEFINE B == SubSeq(b, 1, m)
    <3>1. m \in 0 .. Len(b)
      BY <1>1, <2>1
    <3>2. e(b) = e(B) + e(C)
      BY <3>1, EndsCut
    <3>3. /\ B \in Seq(S) /\ Len(B) = m /\ \A i \in 1 .. m : B[i] = b[i]
          /\ C \in Seq(S)
      BY <3>1, Cut
    <3>4. e(A) <= e(B)
      <4>1. Len(A) <= Len(B) /\ \A i \in 1 .. Len(A) : A[i] = B[i]
        BY <1>1, <1>2, <3>3
      <4> HIDE DEF A, B
      <4> QED
        BY <1>2, <3>3, <4>1, EndsBeginning
    <3>5. e(A) \in Nat /\ e(B) \in Nat /\ e(C) \in Nat
      BY <1>2, <3>3, EndsFinite
    <3> QED
      BY <3>2, <3>3, <3>4, <3>5
  <2>2. CASE ~ (m <= Len(b))
    <3>1. C = <<>>
      BY <1>1, <2>2, Behind
    <3>2. e(A) <= e(b)
      <4>1. Len(A) <= Len(b) /\ \A i \in 1 .. Len(A) : A[i] = b[i]
        BY <1>1, <1>2
      <4> HIDE DEF A
      <4> QED
        BY <1>2, <4>1, EndsBeginning
    <3>3. e(A) \in Nat /\ e(b) \in Nat
      BY <1>2, EndsFinite
    <3>4. e(C) = 0 /\ C \in Seq(S)
      BY <3>1, EndsEmpty, EmptySeq
    <3> HIDE DEF A, C
    <3> QED
      BY <3>2, <3>3, <3>4
  <2> QED
    BY <2>1, <2>2
<1>4. Overlay(b, o, s) = A \o s \o C
  BY DEF Overlay
<1> HIDE DEF A, C
<1>5. A \o s \in Seq(S)
  BY <1>2, ConcatProperties
<1>6. e(A \o s \o C) = e(A) + e(s) + e(C)
  BY <1>2, <1>3, <1>5, EndsConcat
<1>7. e(A) \in Nat /\ e(s) \in Nat /\ e(C) \in Nat /\ e(b) \in Nat
  BY <1>2, <1>3, EndsFinite
<1> QED
  BY <1>3, <1>4, <1>6, <1>7

(* The ends of OK lines that are still to be read, or in resp, are covered *)
(* by the credit, and by one more once the answer to the query before      *)
(* setip may have been left in resp.                                       *)
Slack == IF mpc \in {"find", "open", "at", "curl", "dhcpcfg"} THEN 0 ELSE 1

OksCovered == Cardinality(Ends(line)) + Cardinality(Ends(buf)) <= credit + Slack

(* What is covered stays so when no more is to be read than before.        *)
LEMMA CoveredStays ==
    ASSUME ModemInv, OksCovered, NEW S, line \in Seq(S), buf \in Seq(S),
           line' \in Seq(S), buf' \in Seq(S), credit' = credit, Slack <= Slack',
           Cardinality(Ends(line')) + Cardinality(Ends(buf'))
              <= Cardinality(Ends(line)) + Cardinality(Ends(buf))
    PROVE  OksCovered'
<1>1. /\ Cardinality(Ends(line)) \in Nat /\ Cardinality(Ends(buf)) \in Nat
      /\ Cardinality(Ends(line')) \in Nat /\ Cardinality(Ends(buf')) \in Nat
  BY EndsFinite
<1>2. Slack \in Int /\ Slack' \in Int
  BY DEF Slack
<1>3. credit \in Int
  BY FxTypes DEF ModemInv
<1> QED
  BY <1>1, <1>2, <1>3 DEF OksCovered

(* The steps that leave line and buffer alone.                             *)
LEMMA CoveredUntouched ==
    ASSUME ModemInv, OksCovered,
           FindInterface \/ OpenModem \/ CheckConnection \/ RunDhcp \/ Send \/ Readable
           \/ ModemUnplugged
    PROVE  OksCovered'
<1>1. line' = line /\ buf' = buf /\ credit' = credit /\ Slack <= Slack'
  <2>1. CASE FindInterface
    BY <2>1 DEF FindInterface, Then, serialVars, Slack
  <2>2. CASE OpenModem
    <3>1. /\ mpc = "open" /\ mpc' \in {"at", "end"} /\ line' = line /\ buf' = buf
          /\ credit' = credit
      BY <2>2 DEF OpenModem, Then, lineVars
    <3> QED
      BY <3>1 DEF Slack
  <2>3. CASE CheckConnection
    BY <2>3 DEF CheckConnection, serialVars, Slack
  <2>4. CASE RunDhcp
    BY <2>4 DEF RunDhcp, Then, serialVars, Slack
  <2>5. CASE Send
    <3>1. UNCHANGED serialVars /\ mpc' = mpc /\ credit' = credit
      BY <2>5 DEF Send
    <3> QED
      BY <3>1 DEF serialVars, Slack
  <2>6. CASE Readable
    BY <2>6 DEF Readable, ReadStart, lineVars, Slack
  <2>7. CASE ModemUnplugged
    BY <2>7 DEF ModemUnplugged, Slack
  <2> QED
    BY <2>1, <2>2, <2>3, <2>4, <2>5, <2>6, <2>7
<1>2. line \in Seq(Sayable) /\ buf \in Seq(Sayable)
  BY DEF ModemInv, TrueToSim
<1>3. Cardinality(Ends(line)) \in Nat /\ Cardinality(Ends(buf)) \in Nat
  BY <1>2, EndsFinite
<1>4. /\ Cardinality(Ends(line')) = Cardinality(Ends(line))
      /\ Cardinality(Ends(buf')) = Cardinality(Ends(buf))
  BY <1>1
<1>5. line' \in Seq(Sayable) /\ buf' \in Seq(Sayable)
  BY <1>1, <1>2
<1> QED
  BY <1>1, <1>2, <1>3, <1>4, <1>5, CoveredStays

(* A command that ends takes resp with it, except before setip.            *)
LEMMA KeptCovers ==
    ASSUME ModemInv, NEW b \in Seq(Sayable), Len(b) <= Len(buf),
           \A i \in 1 .. Len(b) : b[i] = buf[i], buf' = Kept(b)
    PROVE  /\ buf' \in Seq(Sayable)
           /\ Cardinality(Ends(b)) <= Cardinality(Ends(buf))
           /\ Cardinality(Ends(buf')) <= Cardinality(Ends(b))
           /\ mpc' # "setip" => Cardinality(Ends(buf')) = 0
<1>1. /\ buf' \in Seq(Sayable)
      /\ mpc' = "setip" => buf' = b
      /\ mpc' # "setip" => buf' = <<>>
  BY KeptIs
<1>2. buf \in Seq(Sayable)
  BY DEF ModemInv, TrueToSim
<1>3. Cardinality(Ends(b)) <= Cardinality(Ends(buf))
  BY <1>2, EndsBeginning
<1>4. Cardinality(Ends(b)) \in Nat
  BY EndsFinite
<1> QED
  BY <1>1, <1>3, <1>4, EndsEmpty

(* The order of the commands never takes the cover away.                   *)
LEMMA SlackStays ==
    ASSUME ModemInv, NEW code \in Codes, NEW b, apc # "idle", AfterCommand(code, b)
    PROVE  /\ Slack <= Slack'
           /\ mpc' = "setip" => Slack = 0 /\ Slack' = 1
<1>1. mpc \in Commands
  BY DEF ModemInv, ModemCalls
<1>2. /\ mpc' \in Commands \union {"curl", "dhcp", "close"}
      /\ mpc' \in {"at", "curl", "dhcpcfg"} => mpc = "at" /\ mpc' = "curl"
      /\ mpc' = "setip" => mpc = "dhcpcfg"
  BY <1>1, AfterOrder DEF ModemInv
<1> QED
  BY <1>1, <1>2 DEF Slack, Commands

(* The answer does not come.                                               *)
LEMMA CoveredTimeout ==
    ASSUME SerialIInv, ModemInv, OksCovered, Timeout
    PROVE  OksCovered'
<1>1. /\ apc = "select" /\ AfterCommand("ERR_AT_TIMEOUT", buf) /\ buf' = Kept(buf)
      /\ line' = line /\ credit' = credit
  BY DEF Timeout, lineVars
<1>2. line \in Seq(Sayable) /\ buf \in Seq(Sayable) /\ Len(buf) \in Nat
  BY LenProperties DEF ModemInv, TrueToSim
<1>3. buf' \in Seq(Sayable) /\ Cardinality(Ends(buf')) <= Cardinality(Ends(buf))
  BY <1>1, <1>2, KeptCovers
<1>4. Slack <= Slack'
  BY <1>1, SlackStays DEF Codes
<1>5. /\ Cardinality(Ends(line)) \in Nat /\ Cardinality(Ends(buf)) \in Nat
      /\ Cardinality(Ends(buf')) \in Nat
  BY <1>2, <1>3, EndsFinite
<1>6. line' \in Seq(Sayable) /\ Cardinality(Ends(line')) = Cardinality(Ends(line))
  BY <1>1, <1>2
<1> QED
  BY <1>1, <1>2, <1>3, <1>4, <1>5, <1>6, CoveredStays

(* What serial_read takes from the line it puts into resp.                 *)
LEMMA CoveredReading ==
    ASSUME SerialIInv, ModemInv, OksCovered, Reading
    PROVE  OksCovered'
<1>1. ReadStep /\ mpc' = mpc /\ credit' = credit
  BY DEF Reading, fxVars
<1>2. line \in Seq(Sayable) /\ buf \in Seq(Sayable)
  BY DEF ModemInv, TrueToSim
<1>3. line' \in Seq(Sayable) /\ buf' \in Seq(Sayable)
  BY <1>1, <1>2, ReadKeeps DEF ModemInv
<1>4. /\ Cardinality(Ends(line)) \in Nat /\ Cardinality(Ends(buf)) \in Nat
      /\ Cardinality(Ends(line')) \in Nat /\ Cardinality(Ends(buf')) \in Nat
  BY <1>2, <1>3, EndsFinite
<1>5. Slack <= Slack'
  BY <1>1 DEF Slack
<1>6. CASE ReadSome
  <2> DEFINE k == Taken
             s == SubSeq(line, 1, k)
             r == SubSeq(line, k + 1, Len(line))
  <2>1. buf' = Overlay(buf, t, s) /\ line' = r
    BY <1>6 DEF ReadSome
  <2>2. k \in 1 .. Len(line) /\ t \in Nat /\ t <= Len(buf)
    BY <1>2, <1>6, SomeIsTaken DEF ModemInv
  <2>3. Len(line) \in Nat /\ Len(buf) \in Nat /\ k \in 0 .. Len(line) /\ t \in 0 .. Len(buf)
    BY <1>2, <2>2, LenProperties
  <2> HIDE DEF k
  <2>4. /\ s \in Seq(Sayable)
        /\ Cardinality(Ends(line)) = Cardinality(Ends(s)) + Cardinality(Ends(r))
    BY <1>2, <2>3, Cut, EndsCut
  <2> HIDE DEF s, r
  <2>5. Cardinality(Ends(Overlay(buf, t, s))) <= Cardinality(Ends(buf)) + Cardinality(Ends(s))
    BY <1>2, <2>3, <2>4, EndsOverlay
  <2>6. Cardinality(Ends(s)) \in Nat
    BY <2>4, EndsFinite
  <2>7. /\ Cardinality(Ends(line')) = Cardinality(Ends(r))
        /\ Cardinality(Ends(buf')) = Cardinality(Ends(Overlay(buf, t, s)))
    BY <2>1
  <2>8. Cardinality(Ends(line')) + Cardinality(Ends(buf'))
           <= Cardinality(Ends(line)) + Cardinality(Ends(buf))
    BY <1>4, <2>4, <2>5, <2>6, <2>7
  <2> QED
    BY <1>1, <1>2, <1>3, <1>5, <2>8, CoveredStays
<1>7. CASE ReadNothing \/ ReadHungUp
  <2>1. line' = line /\ buf' = buf
    BY <1>7 DEF ReadNothing, ReadHungUp, lineVars
  <2>2. /\ Cardinality(Ends(line')) = Cardinality(Ends(line))
        /\ Cardinality(Ends(buf')) = Cardinality(Ends(buf))
    BY <2>1
  <2>3. Cardinality(Ends(line')) + Cardinality(Ends(buf'))
           <= Cardinality(Ends(line)) + Cardinality(Ends(buf))
    BY <1>4, <2>2
  <2> QED
    BY <1>1, <1>2, <1>3, <1>5, <2>3, CoveredStays
<1> QED
  BY <1>1, <1>6, <1>7 DEF ReadStep

(* A command that returns FX650_OK has found one in resp, and takes it     *)
(* away unless resp is kept for setip.                                     *)
LEMMA CoveredLook ==
    ASSUME SerialIInv, ModemInv, OksCovered, Look
    PROVE  OksCovered'
<1>1. /\ apc = "read" /\ line' = line
      /\ \/ /\ HasOk(Resp) /\ credit' = credit - 1
            /\ AfterCommand("OK", Resp) /\ buf' = Kept(Resp)
         \/ /\ ~HasOk(Resp) /\ credit' = credit
            /\ AfterCommand("ERR_AT_ERROR", Resp) /\ buf' = Kept(Resp)
         \/ credit' = credit /\ mpc' = mpc /\ buf' = Resp
  BY LookIs DEF lineVars
<1>2. line \in Seq(Sayable) /\ buf \in Seq(Sayable)
  BY DEF ModemInv, TrueToSim
<1>3. /\ Resp \in Seq(Sayable) /\ Len(Resp) <= Len(buf)
      /\ \A i \in 1 .. Len(Resp) : Resp[i] = buf[i]
  BY <1>2, RespIs DEF ModemInv
<1> DEFINE a == Cardinality(Ends(line))
           b == Cardinality(Ends(buf))
           r == Cardinality(Ends(Resp))
           c == Cardinality(Ends(buf'))
<1>4. r <= b
  BY <1>2, <1>3, EndsBeginning
<1>5. a \in Nat /\ b \in Nat /\ r \in Nat
  BY <1>2, <1>3, EndsFinite
<1>6. a + b <= credit + Slack /\ credit \in Int /\ Slack \in Int /\ Slack' \in Int
  BY FxTypes DEF OksCovered, ModemInv, Slack
<1>7. buf' \in Seq(Sayable) => c \in Nat
  BY EndsFinite
<1>8. Cardinality(Ends(line')) = a
  BY <1>1
<1>9. SUFFICES a + c <= credit' + Slack'
  BY <1>8 DEF OksCovered
<1>10. CASE HasOk(Resp) /\ credit' = credit - 1
            /\ AfterCommand("OK", Resp) /\ buf' = Kept(Resp)
  <2>1. buf' \in Seq(Sayable) /\ c <= r /\ (mpc' # "setip" => c = 0)
    BY <1>3, <1>10, KeptCovers
  <2>2. Slack <= Slack' /\ (mpc' = "setip" => Slack = 0 /\ Slack' = 1)
    BY <1>1, <1>10, SlackStays DEF Codes
  <2>3. r >= 1
    BY <1>3, <1>10, EndsSome
  <2>6. c \in Nat /\ credit' = credit - 1
    BY <1>7, <1>10, <2>1
  <2> HIDE DEF a, b, c, r
  <2>4. CASE mpc' = "setip"
    BY <1>4, <1>5, <1>6, <2>1, <2>2, <2>4, <2>6
  <2>5. CASE mpc' # "setip"
    <3>1. a + 1 <= credit + Slack /\ c = 0
      BY <1>4, <1>5, <1>6, <2>1, <2>3, <2>5
    <3>2. Slack' = Slack \/ (Slack = 0 /\ Slack' = 1)
      BY <2>2 DEF Slack
    <3>3. CASE Slack' = Slack
      BY <1>5, <1>6, <2>6, <3>1, <3>3 DEF Slack
    <3>4. CASE Slack = 0 /\ Slack' = 1
      BY <1>5, <1>6, <2>6, <3>1, <3>4
    <3> QED
      BY <3>2, <3>3, <3>4
  <2> QED
    BY <2>4, <2>5
<1>11. CASE ~HasOk(Resp) /\ credit' = credit
            /\ AfterCommand("ERR_AT_ERROR", Resp) /\ buf' = Kept(Resp)
  <2>1. buf' \in Seq(Sayable) /\ c <= r
    BY <1>3, <1>11, KeptCovers
  <2>2. Slack <= Slack'
    BY <1>1, <1>11, SlackStays DEF Codes
  <2> HIDE DEF a, b, c, r
  <2> QED
    BY <1>4, <1>5, <1>6, <1>7, <1>11, <2>1, <2>2
<1>12. CASE credit' = credit /\ mpc' = mpc /\ buf' = Resp
  <2>1. c = r /\ Slack' = Slack
    BY <1>12 DEF Slack
  <2> HIDE DEF a, b, c, r
  <2> QED
    BY <1>4, <1>5, <1>6, <1>12, <2>1
<1> QED
  BY <1>1, <1>10, <1>11, <1>12

(* Every end of an OK that comes over the line is credited as it comes.    *)
LEMMA CoveredSends ==
    ASSUME SerialIInv, ModemInv, OksCovered, ModemSends
    PROVE  OksCovered'
<1>1. mpc' = mpc /\ buf' = buf
  BY Zenon DEF ModemSends
<1>2. line \in Seq(Sayable) /\ buf \in Seq(Sayable) /\ owed \in Seq(Sayable)
  BY DEF ModemInv, TrueToSim
<1>3. PICK n \in 1 .. Len(owed) :
         /\ SubSeq(owed, 1, n) \in Seq(Sayable)
         /\ line' = line \o SubSeq(owed, 1, n)
         /\ credit' = credit + Cardinality(Ends(SubSeq(owed, 1, n)))
  BY <1>2, SendsIs
<1> DEFINE s == SubSeq(owed, 1, n)
<1> HIDE DEF s
<1>4. s \in Seq(Sayable) /\ line' = line \o s /\ credit' = credit + Cardinality(Ends(s))
  BY <1>3 DEF s
<1>5. Cardinality(Ends(line')) = Cardinality(Ends(line)) + Cardinality(Ends(s))
  BY <1>2, <1>4, EndsConcat
<1>6. /\ Cardinality(Ends(line)) \in Nat /\ Cardinality(Ends(s)) \in Nat
      /\ Cardinality(Ends(buf)) \in Nat
  BY <1>2, <1>4, EndsFinite
<1>7. Slack' = Slack /\ Slack \in Int /\ credit \in Int
  BY <1>1, FxTypes DEF Slack, ModemInv
<1>8. Cardinality(Ends(buf')) = Cardinality(Ends(buf))
  BY <1>1
<1> QED
  BY <1>4, <1>5, <1>6, <1>7, <1>8 DEF OksCovered

(* What answers nothing ends no OK.                                        *)
LEMMA CoveredTalks ==
    ASSUME SerialIInv, ModemInv, OksCovered, ModemTalks
    PROVE  OksCovered'
<1>1. /\ mpc' = mpc /\ buf' = buf /\ credit' = credit
      /\ line = <<>> /\ line' = << << "other", 0 >> >>
  BY DEF ModemTalks
<1>2. line \in Seq(Sayable) /\ buf \in Seq(Sayable)
  BY DEF ModemInv, TrueToSim
<1>3. Cardinality(Ends(line)) = 0 /\ Cardinality(Ends(line')) = 0 /\ line' \in Seq(Sayable)
  BY <1>1, EndsEmpty, TalkIs
<1>4. Cardinality(Ends(buf)) \in Nat /\ Cardinality(Ends(buf')) = Cardinality(Ends(buf))
  BY <1>1, <1>2, EndsFinite
<1>5. Slack <= Slack' /\ buf' \in Seq(Sayable)
  BY <1>1, <1>2 DEF Slack
<1> QED
  BY <1>1, <1>2, <1>3, <1>4, <1>5, CoveredStays

(* Whatever is left is dropped with the port.                              *)
LEMMA CoveredClose ==
    ASSUME SerialIInv, ModemInv, OksCovered, CloseModem
    PROVE  OksCovered'
<1>1. mpc = "close" /\ mpc' = "end" /\ line' = <<>> /\ buf' = <<>> /\ credit' = credit
  BY DEF CloseModem, Then
<1>2. line \in Seq(Sayable) /\ buf \in Seq(Sayable)
  BY DEF ModemInv, TrueToSim
<1>3. Cardinality(Ends(line)) \in Nat /\ Cardinality(Ends(buf)) \in Nat
  BY <1>2, EndsFinite
<1>4. Cardinality(Ends(line')) = 0 /\ Cardinality(Ends(buf')) = 0
  BY <1>1, EndsEmpty
<1>5. Slack' = Slack
  BY <1>1 DEF Slack
<1>6. line' \in Seq(Sayable) /\ buf' \in Seq(Sayable) /\ Slack <= Slack'
  BY <1>1, <1>5, EmptySeq DEF Slack
<1> QED
  BY <1>1, <1>2, <1>3, <1>4, <1>6, CoveredStays

(* Each step keeps the OKs covered, so that none is counted that has not   *)
(* come, but for the one.                                                  *)
LEMMA StepCovered ==
    ASSUME SerialIInv, ModemInv, OksCovered, FxStep
    PROVE  OksCovered'
BY CoveredUntouched, CoveredTimeout, CoveredReading, CoveredLook, CoveredSends,
   CoveredTalks, CoveredClose
DEF FxStep, FxProgram

(* Covered means that every OK is owed.                                    *)
LEMMA CoveredIsOwed ==
    ASSUME ModemInv, OksCovered
    PROVE  EveryOkIsOwed
<1>1. line \in Seq(Sayable) /\ buf \in Seq(Sayable)
  BY DEF ModemInv, TrueToSim
<1>2. Cardinality(Ends(line)) \in Nat /\ Cardinality(Ends(buf)) \in Nat
  BY <1>1, EndsFinite
<1>3. Slack <= 1 /\ Slack \in Int /\ credit \in Int
  BY FxTypes DEF Slack, ModemInv
<1> QED
  BY <1>2, <1>3 DEF OksCovered, EveryOkIsOwed

-----------------------------------------------------------------------------
(* hal/lane_to.c *)

(* What the receiver says, and when.                                       *)
Dated == {"P", "F", "G", "other"} \X (1 .. MaxEpoch)

(* Where the timer thread is when it is in serial_read, and when the port  *)
(* and the socket are open.                                                *)
LaneCalls ==
    /\ lpc # "off"
    /\ lpc = "reading" <=> rpc # "idle"
    /\ lpc \in {"sock", "uart"} => port = "closed" /\ sock = "none" /\ via = "none" /\ ~running
    /\ lpc \in {"idle", "reading", "blocked"} =>
          (running <=> via # "none") /\ (via = "uart" <=> port = "open")
    /\ lpc = "reading" => via = "uart"
    /\ lpc = "blocked" => via = "socket"
    /\ sock = "open" => via = "socket"
    /\ lpc = "closed" => port # "open" /\ sock # "open"

LaneInv ==
    /\ LaneTypeOK /\ LaneCalls /\ Written
    /\ line \in Seq(Dated) /\ buf \in Seq(Dated)
    /\ sent = <<early, late>>

(* The parts the receiver sends, in their order and with their epochs.     *)
LEMMA PartIs ==
    ASSUME NEW n \in Nat
    PROVE  /\ Part(n)[2] = (n \div 3) + 1
           /\ Part(n)[1] \in {"P", "F", "G"}
           /\ Part(n)[1] = "P" => n % 3 = 0
           /\ Part(n + 1)[1] = "F" <=> n % 3 = 0
           /\ n < 3 * MaxEpoch => Part(n) \in Dated
<1>0. MaxEpoch \in Nat
  BY LaneAssumption
<1>1. n % 3 \in {0, 1, 2} /\ n \div 3 \in Nat
  BY SMT
<1>2. /\ n % 3 = 0 => (n + 1) % 3 = 1
      /\ n % 3 = 1 => (n + 1) % 3 = 2
      /\ n % 3 = 2 => (n + 1) % 3 = 0
  BY SMT
<1>3. Part(n) = << <<"P", "F", "G">>[(n % 3) + 1], (n \div 3) + 1 >>
  BY Zenon DEF Part
<1>4. Part(n + 1) = << <<"P", "F", "G">>[((n + 1) % 3) + 1], ((n + 1) \div 3) + 1 >>
  BY Zenon DEF Part
<1>5. /\ n % 3 = 0 => <<"P", "F", "G">>[(n % 3) + 1] = "P"
      /\ n % 3 = 1 => <<"P", "F", "G">>[(n % 3) + 1] = "F"
      /\ n % 3 = 2 => <<"P", "F", "G">>[(n % 3) + 1] = "G"
      /\ n % 3 = 0 => <<"P", "F", "G">>[((n + 1) % 3) + 1] = "F"
      /\ n % 3 = 1 => <<"P", "F", "G">>[((n + 1) % 3) + 1] = "G"
      /\ n % 3 = 2 => <<"P", "F", "G">>[((n + 1) % 3) + 1] = "P"
  BY <1>2
<1>6. n < 3 * MaxEpoch => n \div 3 < MaxEpoch
  BY <1>0, SMT
<1>7. /\ Part(n)[1] = <<"P", "F", "G">>[(n % 3) + 1]
      /\ Part(n)[2] = (n \div 3) + 1
      /\ Part(n + 1)[1] = <<"P", "F", "G">>[((n + 1) % 3) + 1]
  BY <1>3, <1>4
<1>8. <<"P", "F", "G">>[(n % 3) + 1] \in {"P", "F", "G"}
  BY <1>1, <1>5
<1>9. n < 3 * MaxEpoch => Part(n) \in Dated
  <2> HAVE n < 3 * MaxEpoch
  <2>1. (n \div 3) + 1 \in 1 .. MaxEpoch
    BY <1>0, <1>1, <1>6
  <2> QED
    BY <1>3, <1>8, <2>1 DEF Dated
<1> QED
  BY <1>1, <1>5, <1>7, <1>8, <1>9

(* Both are items of the line.                                             *)
LEMMA DatedItems == Seq(Dated) \subseteq Seq(Item)
<1>1. Dated \subseteq Item
  <2>1. {"P", "F", "G", "other"} \subseteq Texts
    BY DEF Texts
  <2>2. 1 .. MaxEpoch \subseteq Nat
    BY LaneAssumption
  <2> QED
    BY <2>1, <2>2 DEF Dated, Item
<1> QED
  BY <1>1, SeqMonotonic

(* What is parsed out of a buffer: the last position before the first      *)
(* GNGGA, and the other fields that follow it, or of one before it, or     *)
(* none.                                                                   *)
LEMMA ParseIs ==
    ASSUME NEW S, NEW b \in Seq(S), Parse(b)
    PROVE  \/ early' = early /\ late' = late
           \/ \E p, e \in 1 .. Len(b) :
                 /\ p < e /\ b[p][1] = "P" /\ early' = b[p][2]
                 /\ b[e][1] = "G"
                 /\ \/ late' = late /\ ~ (p + 1 < e /\ b[p + 1][1] = "F")
                    \/ \E f \in 1 .. Len(b) :
                          /\ late' = b[f][2]
                          /\ p + 1 < e /\ b[p + 1][1] = "F" => f = p + 1
<1> DEFINE P == Places(b, "P")
           G == Places(b, "G")
           end == Min(G)
           ps == {i \in P : i < end}
           whole == {i \in ps : i + 1 < end /\ b[i + 1][1] = "F"}
<1>1. Len(b) \in Nat /\ DOMAIN b = 1 .. Len(b)
  BY LenProperties
<1>2. \/ /\ P # {} /\ G # {} /\ end > Min(P)
         /\ early' = b[Max(ps)][2]
         /\ late' = IF whole = {} THEN late ELSE b[Max(whole) + 1][2]
      \/ early' = early /\ late' = late
  BY DEF Parse
<1>3. SUFFICES ASSUME P # {}, G # {}, end > Min(P), early' = b[Max(ps)][2],
                      late' = IF whole = {} THEN late ELSE b[Max(whole) + 1][2]
               PROVE  \E p, e \in 1 .. Len(b) :
                 /\ p < e /\ b[p][1] = "P" /\ early' = b[p][2]
                 /\ b[e][1] = "G"
                 /\ \/ late' = late /\ ~ (p + 1 < e /\ b[p + 1][1] = "F")
                    \/ \E f \in 1 .. Len(b) :
                          /\ late' = b[f][2]
                          /\ p + 1 < e /\ b[p + 1][1] = "F" => f = p + 1
  BY <1>2
<1>4. /\ P \in SUBSET (1 .. Len(b)) /\ G \in SUBSET (1 .. Len(b))
      /\ \A i \in P : b[i][1] = "P"
      /\ \A i \in G : b[i][1] = "G"
  BY <1>1 DEF Places
<1> HIDE DEF P, G
<1>5. end \in G /\ Min(P) \in P
  BY <1>1, <1>3, <1>4, FirstAndLast
<1> HIDE DEF end
<1>6. end \in 1 .. Len(b) /\ b[end][1] = "G"
  BY <1>4, <1>5
<1>7. ps \in SUBSET (1 .. Len(b)) /\ ps # {}
  BY <1>3, <1>4, <1>5
<1>8. whole \in SUBSET ps /\ whole \in SUBSET (1 .. Len(b))
  BY <1>7
<1> DEFINE p == Max(ps)
<1>9. p \in ps /\ \A i \in ps : p >= i
  BY <1>1, <1>7, FirstAndLast
<1> HIDE DEF p
<1>10. p \in 1 .. Len(b) /\ p < end /\ b[p][1] = "P" /\ early' = b[p][2]
  <2>1. p \in P /\ p < end
    BY <1>9
  <2> QED
    BY <1>3, <1>4, <2>1 DEF p
<1>11. (p + 1 < end /\ b[p + 1][1] = "F") <=> p \in whole
  BY <1>9
<1>12. CASE whole = {}
  <2>1. late' = late /\ ~ (p + 1 < end /\ b[p + 1][1] = "F")
    BY <1>3, <1>11, <1>12
  <2> QED
    BY <1>6, <1>10, <2>1
<1>13. CASE whole # {}
  <2> DEFINE w == Max(whole)
  <2>1. w \in whole /\ \A i \in whole : w >= i
    BY <1>1, <1>8, <1>13, FirstAndLast
  <2>2. late' = b[w + 1][2]
    BY <1>3, <1>13
  <2> HIDE DEF w
  <2>3. w \in ps /\ w + 1 < end /\ w \in 1 .. Len(b) /\ w <= p
    BY <1>8, <1>9, <2>1
  <2>4. w + 1 \in 1 .. Len(b)
    BY <1>1, <1>6, <2>3
  <2>5. p \in whole => w = p
    BY <1>10, <2>1, <2>3
  <2> HIDE DEF whole
  <2>6. p + 1 < end /\ b[p + 1][1] = "F" => w + 1 = p + 1
    BY <1>11, <2>5
  <2> QED
    BY <1>6, <1>10, <2>2, <2>4, <2>6
<1> QED
  BY <1>12, <1>13

(* What is parsed is dated.                                                *)
LEMMA ParseDates ==
    ASSUME LaneTypeOK, NEW b \in Seq(Dated), Parse(b)
    PROVE  early' \in 0 .. MaxEpoch /\ late' \in 0 .. MaxEpoch
<1>1. early \in 0 .. MaxEpoch /\ late \in 0 .. MaxEpoch
  BY DEF LaneTypeOK
<1>2. \A i \in 1 .. Len(b) : b[i][2] \in 0 .. MaxEpoch
  <2> TAKE i \in 1 .. Len(b)
  <2>1. b[i] \in Dated
    BY ElementOfSeq
  <2>2. b[i][2] \in 1 .. MaxEpoch
    BY <2>1 DEF Dated
  <2> QED
    BY <2>2, LaneAssumption
<1> QED
  BY <1>1, <1>2, ParseIs

(* The types and the dates.                                                *)
LEMMA LaneTypes ==
    ASSUME LaneInv
    PROVE  /\ lpc \in {"off", "sock", "uart", "idle", "reading", "blocked", "closed"}
           /\ via \in {"none", "socket", "uart"}
           /\ sock \in {"none", "open", "closed"} /\ running \in BOOLEAN
           /\ emitted \in 0 .. 3 * MaxEpoch
           /\ early \in 0 .. MaxEpoch /\ late \in 0 .. MaxEpoch
           /\ sent[1] \in 0 .. MaxEpoch /\ sent[2] \in 0 .. MaxEpoch
  BY DEF LaneInv, LaneTypeOK

(* A frame of what is in sg_data.                                          *)
LEMMA LaneTypesStay ==
    ASSUME lpc' \in {"off", "sock", "uart", "idle", "reading", "blocked", "closed"},
           via' \in {"none", "socket", "uart"},
           sock' \in {"none", "open", "closed"}, running' \in BOOLEAN,
           emitted' \in 0 .. 3 * MaxEpoch,
           early' \in 0 .. MaxEpoch, late' \in 0 .. MaxEpoch,
           sent' = <<early', late'>>
    PROVE  LaneTypeOK'
<1>1. sent'[1] = early' /\ sent'[2] = late'
  OBVIOUS
<1>2. {early', late', sent'[1], sent'[2]} \subseteq 0 .. MaxEpoch
  BY <1>1
<1> QED
  BY <1>2 DEF LaneTypeOK

(* What the receiver sends is appended to the line, or lost.               *)
LEMMA StepReceiverSends ==
    ASSUME SerialIInv, LaneInv, ReceiverSends
    PROVE  LaneInv' /\ LineMoves
<1>1. /\ via # "none" /\ lpc # "closed" /\ emitted < 3 * MaxEpoch
      /\ emitted' = emitted + 1
      /\ line' = IF Len(line) < LineLen THEN Append(line, Part(emitted)) ELSE line
      /\ UNCHANGED <<port, hung, readVars, buf, lpc, via, sock, running, sgVars>>
  BY DEF ReceiverSends
<1>2. rpc' = rpc /\ t' = t /\ early' = early /\ late' = late /\ sent' = sent
  BY <1>1 DEF readVars, sgVars
<1>3. emitted \in Nat /\ emitted' \in 0 .. 3 * MaxEpoch
  BY <1>1, LaneTypes, LaneAssumption
<1>4. line' \in Seq(Dated)
  <2>1. line \in Seq(Dated)
    BY DEF LaneInv
  <2>2. Part(emitted) \in Dated
    BY <1>1, <1>3, PartIs
  <2>3. Append(line, Part(emitted)) \in Seq(Dated)
    BY <2>1, <2>2, AppendProperties
  <2> QED
    BY <1>1, <2>1, <2>3
<1>5. LaneTypeOK'
  BY <1>1, <1>2, <1>3, LaneTypes, LaneTypesStay DEF LaneInv
<1>6. LaneCalls' /\ Written'
  BY <1>1, <1>2 DEF LaneInv, LaneCalls, Written
<1>7. LineMoves
  <2>1. line' \in Seq(Item)
    BY <1>4, DatedItems
  <2> QED
    BY <1>1, <2>1 DEF LineMoves, SerialIInv, SerialTypeOK
<1> QED
  BY <1>1, <1>2, <1>4, <1>5, <1>6, <1>7 DEF LaneInv

(* A sentence nobody looks for, of the epoch that is going on.             *)
LEMMA OtherIs ==
    ASSUME emitted \in Nat, emitted < 3 * MaxEpoch
    PROVE  LET x == << "other", (emitted \div 3) + 1 >>
           IN  x \in Dated /\ << x >> \in Seq(Dated)
<1> DEFINE e == (emitted \div 3) + 1
           x == << "other", e >>
<1>1. Part(emitted) \in Dated /\ Part(emitted)[2] = e
  BY PartIs
<1> HIDE DEF e
<1>2. e \in 1 .. MaxEpoch
  BY <1>1 DEF Dated
<1>3. x \in Dated
  BY <1>2 DEF Dated
<1> HIDE DEF x
<1>4. << x >> \in Seq(Dated)
  BY <1>3
<1> QED
  BY <1>3, <1>4 DEF x, e

(* The receiver says it.                                                   *)
LEMMA StepReceiverTalks ==
    ASSUME SerialIInv, LaneInv, ReceiverTalks
    PROVE  LaneInv' /\ LineMoves
<1>1. /\ emitted < 3 * MaxEpoch /\ line' = << << "other", (emitted \div 3) + 1 >> >>
      /\ UNCHANGED <<port, hung, readVars, buf, laneVars>>
  BY DEF ReceiverTalks
<1>2. /\ rpc' = rpc /\ t' = t /\ buf' = buf /\ port' = port
      /\ UNCHANGED <<lpc, via, sock, running, emitted, early, late, sent>>
  BY <1>1 DEF readVars, laneVars
<1>3. line' \in Seq(Dated)
  <2>1. emitted \in Nat
    BY LaneTypes, LaneAssumption
  <2> QED
    BY <1>1, <2>1, OtherIs
<1>4. LaneInv'
  BY <1>2, <1>3 DEF LaneInv, LaneTypeOK, LaneCalls, Written
<1>5. line' \in Seq(Item)
  BY <1>3, DatedItems
<1> QED
  BY <1>1, <1>4, <1>5 DEF LineMoves, SerialIInv, SerialTypeOK

(* The other end goes away.                                                *)
LEMMA StepReceiverLeaves ==
    ASSUME SerialIInv, LaneInv, ReceiverLeaves
    PROVE  LaneInv' /\ LineMoves
<1>1. hung' = TRUE /\ UNCHANGED <<port, line, readVars, buf, laneVars>>
  BY DEF ReceiverLeaves
<1>2. /\ rpc' = rpc /\ t' = t /\ line' = line /\ buf' = buf /\ port' = port
      /\ UNCHANGED <<lpc, via, sock, running, emitted, early, late, sent>>
  BY <1>1 DEF readVars, laneVars
<1>3. LaneInv'
  BY <1>2 DEF LaneInv, LaneTypeOK, LaneCalls, Written
<1> QED
  BY <1>1, <1>3 DEF LineMoves, SerialIInv, SerialTypeOK

(* init_shm_data_sock.                                                     *)
LEMMA StepConnectSock ==
    ASSUME SerialIInv, LaneInv, ConnectSock
    PROVE  LaneInv' /\ UNCHANGED serialVars
<1>1. /\ lpc = "sock" /\ UNCHANGED <<serialVars, emitted, sgVars>>
      /\ \/ sock' = "open" /\ via' = "socket" /\ running' = TRUE /\ lpc' = "idle"
         \/ lpc' = "uart" /\ UNCHANGED <<sock, via, running>>
  BY DEF ConnectSock
<1>2. /\ rpc' = rpc /\ t' = t /\ line' = line /\ buf' = buf /\ port' = port
      /\ early' = early /\ late' = late /\ sent' = sent
  BY <1>1 DEF serialVars, sgVars
<1>3. LaneTypeOK'
  BY <1>1, <1>2, LaneTypes, LaneTypesStay DEF LaneInv
<1>4. LaneCalls'
  BY <1>1, <1>2 DEF LaneInv, LaneCalls
<1> QED
  BY <1>1, <1>2, <1>3, <1>4 DEF LaneInv, Written

(* init_serial: the port is opened once, if there is no socket.            *)
LEMMA StepOpenReceiver ==
    ASSUME SerialIInv, LaneInv, OpenReceiver
    PROVE  LaneInv' /\ Open
<1>1. /\ lpc = "uart" /\ lpc' = "idle"
      /\ UNCHANGED <<lineVars, readVars, buf, sock, emitted, sgVars>>
  BY DEF OpenReceiver
<1>2. PICK r \in OpenResults :
         OpenPort(r) /\ running' = (r = "ok") /\ via' = IF r = "ok" THEN "uart" ELSE "none"
  BY DEF OpenReceiver
<1>3. /\ rpc' = rpc /\ t' = t /\ line' = line /\ buf' = buf
      /\ early' = early /\ late' = late /\ sent' = sent
  BY <1>1 DEF lineVars, readVars, sgVars
<1>4. /\ r = "ok" => port' = "open"
      /\ r = "open failed" => port' = "closed"
      /\ r = "configure failed" => port' = "leaked"
  BY <1>2, Zenon DEF OpenPort
<1>5. port = "closed" /\ rpc = "idle" /\ sock = "none"
  BY <1>1, LaneTypes DEF LaneInv, LaneCalls, SerialIInv, SerialTypeOK
<1>6. Open
  BY <1>1, <1>2, <1>5 DEF Open
<1>7. running' \in BOOLEAN /\ (running' <=> via' # "none")
      /\ via' \in {"none", "uart"} /\ (via' = "uart" <=> port' = "open")
  BY <1>2, <1>4 DEF OpenResults
<1>8. LaneTypeOK'
  BY <1>1, <1>3, <1>7, LaneTypes, LaneTypesStay DEF LaneInv
<1>9. LaneCalls'
  BY <1>1, <1>3, <1>5, <1>7 DEF LaneInv, LaneCalls
<1> QED
  BY <1>1, <1>3, <1>6, <1>8, <1>9 DEF LaneInv, Written

(* laneTo_uninit closes what is open.                                      *)
LEMMA StepUninit ==
    ASSUME SerialIInv, LaneInv, Uninit
    PROVE  LaneInv' /\ (Close \/ UNCHANGED serialVars)
<1>1. /\ lpc = "idle" /\ lpc' = "closed" /\ running' = FALSE
      /\ port' = IF via = "uart" THEN "closed" ELSE port
      /\ sock' = IF sock = "open" THEN "closed" ELSE sock
      /\ UNCHANGED <<lineVars, readVars, buf, via, emitted, sgVars>>
  BY DEF Uninit
<1>2. /\ rpc' = rpc /\ t' = t /\ count' = count /\ line' = line /\ hung' = hung /\ buf' = buf
      /\ via' = via /\ emitted' = emitted
      /\ early' = early /\ late' = late /\ sent' = sent
  BY <1>1 DEF lineVars, readVars, sgVars
<1>3. rpc = "idle" /\ (via = "uart" <=> port = "open") /\ port' # "open" /\ sock' # "open"
  BY <1>1 DEF LaneInv, LaneCalls
<1>4. LaneTypeOK'
  BY <1>1, <1>2, LaneTypes, LaneTypesStay DEF LaneInv
<1>5. LaneCalls'
  BY <1>1, <1>2, <1>3 DEF LaneInv, LaneCalls
<1>6. Close \/ UNCHANGED serialVars
  BY <1>1, <1>2, <1>3 DEF Close, ClosePort, readVars, serialVars
<1> QED
  BY <1>2, <1>4, <1>5, <1>6 DEF LaneInv, Written

(* The tick begins: with a read, or with a frame of what is there.         *)
LEMMA StepTick ==
    ASSUME SerialIInv, LaneInv, Tick
    PROVE  /\ LaneInv' /\ (Read \/ UNCHANGED serialVars)
           /\ early' = early /\ late' = late
<1>1. lpc = "idle" /\ UNCHANGED <<port, lineVars, via, sock, running, emitted>>
  BY DEF Tick
<1>2. \/ /\ ~running /\ UNCHANGED <<early, late, readVars, buf>>
         /\ sent' = <<early', late'>> /\ lpc' = "idle"
      \/ /\ running /\ via = "uart" /\ lpc' = "reading" /\ ReadStart(NavLen, buf)
         /\ UNCHANGED sgVars
      \/ /\ running /\ via # "uart" /\ lpc' = "blocked"
         /\ UNCHANGED <<sgVars, readVars, buf>>
  BY DEF Tick, SendFrame
<1>3. /\ port' = port /\ line' = line /\ hung' = hung /\ via' = via /\ sock' = sock
      /\ running' = running /\ emitted' = emitted /\ rpc = "idle"
  BY <1>1 DEF lineVars, LaneInv, LaneCalls
<1>4. sent = <<early, late>>
  BY DEF LaneInv
<1>5. early' = early /\ late' = late /\ sent' = <<early', late'>>
  BY <1>2, <1>4 DEF sgVars
<1>6. LaneTypeOK'
  <2>1. lpc' \in {"idle", "reading", "blocked"}
    BY <1>2
  <2> QED
    BY <1>3, <1>5, <2>1, LaneTypes, LaneTypesStay
<1>7. CASE ~running /\ UNCHANGED <<early, late, readVars, buf>> /\ lpc' = "idle"
  <2>1. rpc' = rpc /\ t' = t /\ buf' = buf /\ UNCHANGED serialVars
    BY <1>3, <1>7 DEF readVars, serialVars
  <2>2. LaneCalls' /\ Written'
    BY <1>1, <1>3, <1>7, <2>1 DEF LaneInv, LaneCalls, Written
  <2> QED
    BY <1>3, <1>5, <1>6, <2>1, <2>2 DEF LaneInv
<1>8. CASE running /\ via = "uart" /\ lpc' = "reading" /\ ReadStart(NavLen, buf)
  <2>1. Read
    <3>1. NavLen \in 1 .. MaxCount
      BY LaneAssumption
    <3> QED
      BY <1>1, <1>8, <3>1 DEF Read
  <2>2. rpc' # "idle" /\ t' = 0 /\ buf' = buf
    BY <1>8 DEF ReadStart
  <2>3. LaneCalls'
    BY <1>1, <1>3, <1>8, <2>2 DEF LaneInv, LaneCalls
  <2>4. Written'
    BY <2>2, LenProperties DEF LaneInv, Written
  <2> QED
    BY <1>3, <1>5, <1>6, <2>1, <2>2, <2>3, <2>4 DEF LaneInv
<1>9. CASE running /\ via # "uart" /\ lpc' = "blocked" /\ UNCHANGED <<sgVars, readVars, buf>>
  <2>1. rpc' = rpc /\ t' = t /\ buf' = buf /\ UNCHANGED serialVars
    BY <1>3, <1>9 DEF readVars, serialVars
  <2>2. LaneCalls' /\ Written'
    BY <1>1, <1>3, <1>9, <2>1, LaneTypes DEF LaneInv, LaneCalls, Written
  <2> QED
    BY <1>3, <1>5, <1>6, <2>1, <2>2 DEF LaneInv
<1> QED
  BY <1>2, <1>5, <1>7, <1>8, <1>9

(* What was read from the socket is taken from the line.                   *)
LEMMA SockIs ==
    ASSUME LaneInv, ReadSock
    PROVE  \E n \in 0 .. Len(line) :
              /\ n = Least(NavLen, Len(line))
              /\ line' = SubSeq(line, n + 1, Len(line)) /\ line' \in Seq(Dated)
              /\ SubSeq(line, 1, n) \in Seq(Dated)
              /\ Parse(SubSeq(line, 1, n))
              /\ lpc = "blocked" /\ lpc' = "idle" /\ sent' = <<early', late'>>
              /\ UNCHANGED <<port, hung, rpc, count, t, buf, via, sock, running, emitted>>
<1> DEFINE n == Least(NavLen, Len(line))
<1>1. /\ line' = SubSeq(line, n + 1, Len(line)) /\ Parse(SubSeq(line, 1, n))
      /\ lpc = "blocked" /\ lpc' = "idle" /\ sent' = <<early', late'>>
      /\ UNCHANGED <<port, hung, readVars, buf, via, sock, running, emitted>>
  BY DEF ReadSock, SendFrame
<1>2. line \in Seq(Dated) /\ Len(line) \in Nat
  BY LenProperties DEF LaneInv
<1>3. n \in 0 .. Len(line)
  BY <1>2, LaneAssumption DEF Least
<1> HIDE DEF n
<1>4. SubSeq(line, 1, n) \in Seq(Dated) /\ SubSeq(line, n + 1, Len(line)) \in Seq(Dated)
  BY <1>2, <1>3, Cut
<1>5. UNCHANGED <<rpc, count, t>>
  BY <1>1 DEF readVars
<1> QED
  BY <1>1, <1>3, <1>4, <1>5 DEF n

(* A read of the socket.                                                   *)
LEMMA StepReadSock ==
    ASSUME SerialIInv, LaneInv, ReadSock
    PROVE  LaneInv' /\ LineMoves
<1>1. PICK n \in 0 .. Len(line) :
         /\ line' \in Seq(Dated) /\ SubSeq(line, 1, n) \in Seq(Dated)
         /\ Parse(SubSeq(line, 1, n))
         /\ lpc = "blocked" /\ lpc' = "idle" /\ sent' = <<early', late'>>
         /\ UNCHANGED <<port, hung, rpc, count, t, buf, via, sock, running, emitted>>
  BY SockIs
<1>2. early' \in 0 .. MaxEpoch /\ late' \in 0 .. MaxEpoch
  BY <1>1, ParseDates DEF LaneInv
<1>3. LaneTypeOK'
  BY <1>1, <1>2, LaneTypes, LaneTypesStay
<1>4. LaneCalls' /\ Written'
  BY <1>1 DEF LaneInv, LaneCalls, Written
<1>5. LineMoves
  <2>1. line' \in Seq(Item)
    BY <1>1, DatedItems
  <2> QED
    BY <1>1, <2>1 DEF LineMoves, SerialIInv, SerialTypeOK, readVars
<1> QED
  BY <1>1, <1>3, <1>4, <1>5 DEF LaneInv

(* Inside serial_read.                                                     *)
LEMMA StepReadingPort ==
    ASSUME SerialIInv, LaneInv, ReadingPort
    PROVE  LaneInv' /\ ReadStep
<1>1. ReadStep /\ lpc = "reading"
      /\ UNCHANGED <<lpc, via, sock, running, emitted, early, late, sent>>
  BY DEF ReadingPort, laneVars
<1>2. /\ line' \in Seq(Dated) /\ buf' \in Seq(Dated) /\ Written'
      /\ rpc = "reading" /\ rpc' \in {"reading", "back"} /\ port' = port
  BY <1>1, ReadKeeps DEF LaneInv
<1>3. LaneTypeOK'
  BY <1>1 DEF LaneInv, LaneTypeOK
<1>4. LaneCalls'
  BY <1>1, <1>2 DEF LaneInv, LaneCalls
<1> QED
  BY <1>1, <1>2, <1>3, <1>4 DEF LaneInv

(* What serial_read has left in the buffer.                                *)
LEMMA PortIs ==
    ASSUME SerialIInv, LaneInv, ReadPort
    PROVE  /\ lpc = "reading" /\ rpc = "back" /\ rpc' = "idle" /\ t' = 0 /\ lpc' = "idle"
           /\ sent' = <<early', late'>>
           /\ UNCHANGED <<port, line, hung, count, buf, via, sock, running, emitted>>
           /\ \/ early' = early /\ late' = late
              \/ /\ t \in 0 .. Len(buf) /\ t # Word - 1 /\ SubSeq(buf, 1, t) \in Seq(Dated)
                 /\ Len(SubSeq(buf, 1, t)) = t
                 /\ \A i \in 1 .. t : SubSeq(buf, 1, t)[i] = buf[i]
                 /\ Parse(SubSeq(buf, 1, t))
<1>1. /\ lpc = "reading" /\ rpc = "back" /\ rpc' = "idle" /\ t' = 0 /\ lpc' = "idle"
      /\ sent' = <<early', late'>>
      /\ UNCHANGED <<port, lineVars, count, buf, via, sock, running, emitted>>
      /\ IF t # Word - 1 THEN Parse(SubSeq(buf, 1, t)) ELSE UNCHANGED <<early, late>>
  BY DEF ReadPort, SendFrame
<1>2. UNCHANGED <<line, hung>>
  BY <1>1 DEF lineVars
<1>3. t # Word - 1 => t \in 0 .. Len(buf)
  BY LenProperties DEF LaneInv, Written, SerialIInv, SerialTypeOK
<1>4. t # Word - 1 => /\ SubSeq(buf, 1, t) \in Seq(Dated)
                      /\ Len(SubSeq(buf, 1, t)) = t
                      /\ \A i \in 1 .. t : SubSeq(buf, 1, t)[i] = buf[i]
  <2>1. buf \in Seq(Dated)
    BY DEF LaneInv
  <2> QED
    BY <1>3, <2>1, Cut
<1> QED
  BY <1>1, <1>2, <1>3, <1>4

(* After serial_read.                                                      *)
LEMMA StepReadPort ==
    ASSUME SerialIInv, LaneInv, ReadPort
    PROVE  LaneInv' /\ Return
<1>1. /\ lpc = "reading" /\ rpc = "back" /\ rpc' = "idle" /\ t' = 0 /\ lpc' = "idle"
      /\ sent' = <<early', late'>>
      /\ UNCHANGED <<port, line, hung, count, buf, via, sock, running, emitted>>
      /\ \/ early' = early /\ late' = late
         \/ SubSeq(buf, 1, t) \in Seq(Dated) /\ Parse(SubSeq(buf, 1, t))
  BY PortIs
<1>2. early' \in 0 .. MaxEpoch /\ late' \in 0 .. MaxEpoch
  BY <1>1, ParseDates, LaneTypes DEF LaneInv
<1>3. LaneTypeOK'
  BY <1>1, <1>2, LaneTypes, LaneTypesStay
<1>4. LaneCalls'
  BY <1>1 DEF LaneInv, LaneCalls
<1>5. Written'
  BY <1>1, LenProperties DEF LaneInv, Written
<1>6. Return
  BY <1>1 DEF Return, lineVars
<1> QED
  BY <1>1, <1>3, <1>4, <1>5, <1>6 DEF LaneInv

(* The timer thread and the receiver keep the invariant, and the order of  *)
(* calls.                                                                  *)
LEMMA StepReceiver ==
    ASSUME SerialIInv, LaneInv, LaneStep
    PROVE  LaneInv' /\ [SerialNext]_serialVars
<1>1. CASE ReceiverSends
  BY <1>1, StepReceiverSends DEF SerialNext
<1>2. CASE ReceiverLeaves
  BY <1>2, StepReceiverLeaves DEF SerialNext
<1>3. CASE ConnectSock
  BY <1>3, StepConnectSock
<1>4. CASE OpenReceiver
  BY <1>4, StepOpenReceiver DEF SerialNext
<1>5. CASE Uninit
  BY <1>5, StepUninit DEF SerialNext
<1>6. CASE Tick
  BY <1>6, StepTick DEF SerialNext
<1>7. CASE ReadSock
  BY <1>7, StepReadSock DEF SerialNext
<1>8. CASE ReadingPort
  BY <1>8, StepReadingPort DEF SerialNext
<1>9. CASE ReadPort
  BY <1>9, StepReadPort DEF SerialNext
<1>10. CASE ReceiverTalks
  BY <1>10, StepReceiverTalks DEF SerialNext
<1> QED
  BY <1>1, <1>2, <1>3, <1>4, <1>5, <1>6, <1>7, <1>8, <1>9, <1>10 DEF LaneStep, LaneProgram

(* Nothing that is still to come is older than what has been parsed: not   *)
(* on the line, and not in the buffer as far as it has been read.          *)
Now == (emitted \div 3) + 1

LineOrder ==
    /\ early <= Now /\ late <= Now
    /\ \A i \in 1 .. Len(line) :
          /\ early <= line[i][2] /\ late <= line[i][2] /\ line[i][2] <= Now
          /\ \A j \in 1 .. Len(line) : i <= j => line[i][2] <= line[j][2]

BufferOrder ==
    rpc # "idle" /\ t # Word - 1 =>
       \A i \in 1 .. t :
          /\ early <= buf[i][2] /\ late <= buf[i][2] /\ buf[i][2] <= Now
          /\ \A j \in 1 .. Len(line) : buf[i][2] <= line[j][2]

(* Over the socket nothing is lost, and a read takes P and F together or   *)
(* the solution is not complete.                                           *)
Parts == [n \in Nat |-> Part(n)]

SockOrder ==
    via # "uart" =>
       /\ early = late
       /\ Len(line) <= emitted
       /\ \A i \in 1 .. Len(line) : line[i] = Parts[emitted - Len(line) + i - 1]

OrderInv == LaneInv /\ LineOrder /\ BufferOrder /\ SockOrder

(* Epochs are numbers.                                                     *)
LEMMA Epochs ==
    ASSUME LaneInv
    PROVE  /\ Len(line) \in Nat /\ Len(buf) \in Nat /\ emitted \in Nat /\ Now \in Nat
           /\ early \in Nat /\ late \in Nat
           /\ \A i \in 1 .. Len(line) : line[i][2] \in Nat
           /\ \A i \in 1 .. Len(buf) : buf[i][2] \in Nat
<1>1. line \in Seq(Dated) /\ buf \in Seq(Dated)
  BY DEF LaneInv
<1>2. Len(line) \in Nat /\ Len(buf) \in Nat
  BY <1>1, LenProperties
<1>3. \A x \in Dated : x[2] \in Nat
  BY LaneAssumption DEF Dated
<1>4. /\ \A i \in 1 .. Len(line) : line[i] \in Dated
      /\ \A i \in 1 .. Len(buf) : buf[i] \in Dated
  BY <1>1, ElementOfSeq
<1>5. emitted \in Nat /\ early \in Nat /\ late \in Nat
  BY LaneTypes, LaneAssumption
<1>6. Now \in Nat
  BY <1>5 DEF Now
<1> QED
  BY <1>2, <1>3, <1>4, <1>5, <1>6

(* What the receiver adds is of the newest epoch.                          *)
LEMMA OrderSends ==
    ASSUME SerialIInv, OrderInv, ReceiverSends
    PROVE  LineOrder' /\ BufferOrder' /\ SockOrder'
<1>1. /\ via # "none" /\ emitted' = emitted + 1
      /\ Len(line) < LineLen \/ via = "uart"
      /\ line' = IF Len(line) < LineLen THEN Append(line, Part(emitted)) ELSE line
      /\ UNCHANGED <<port, hung, readVars, buf, lpc, via, sock, running, sgVars>>
  BY DEF ReceiverSends
<1>2. /\ rpc' = rpc /\ t' = t /\ buf' = buf /\ via' = via /\ early' = early /\ late' = late
  BY <1>1 DEF readVars, sgVars
<1>3. /\ Len(line) \in Nat /\ Len(buf) \in Nat /\ emitted \in Nat /\ Now \in Nat
      /\ early \in Nat /\ late \in Nat
      /\ \A i \in 1 .. Len(line) : line[i][2] \in Nat
      /\ \A i \in 1 .. Len(buf) : buf[i][2] \in Nat
  BY Epochs DEF OrderInv
<1>4. Now' \in Nat /\ Now <= Now'
  BY <1>1, <1>3, SMT DEF Now
<1> DEFINE n == Len(line)
<1>5. /\ n \in Nat /\ Part(emitted)[2] = Now
      /\ \/ line' = line
         \/ /\ Len(line') = n + 1
            /\ \A i \in 1 .. n : line'[i] = line[i]
            /\ line'[n + 1] = Part(emitted)
  <2>1. Part(emitted)[2] = Now
    BY <1>3, PartIs DEF Now
  <2>2. line \in Seq(Dated)
    BY DEF OrderInv, LaneInv
  <2>3. LET a == Append(line, Part(emitted)) IN
        Len(a) = n + 1 /\ (\A i \in 1 .. n : a[i] = line[i]) /\ a[n + 1] = Part(emitted)
    <3>1. Part(emitted) \in Dated
      BY <1>3, PartIs DEF ReceiverSends
    <3> QED
      BY <2>2, <3>1, AppendProperties
  <2> QED
    BY <1>1, <1>3, <2>1, <2>3
<1>6. \A i \in 1 .. Len(line') :
         /\ line'[i][2] \in Nat /\ line'[i][2] <= Now
         /\ early <= line'[i][2] /\ late <= line'[i][2]
         /\ (i <= n /\ line'[i] = line[i]) \/ line'[i][2] = Now
         /\ ~ (i <= n) => \A j \in 1 .. Len(line') : i <= j => line'[j][2] = Now
  <2>1. CASE line' = line
    BY <1>3, <2>1 DEF OrderInv, LineOrder
  <2>2. CASE /\ Len(line') = n + 1
             /\ \A i \in 1 .. n : line'[i] = line[i]
             /\ line'[n + 1] = Part(emitted)
    <3> TAKE i \in 1 .. Len(line')
    <3>1. CASE i \in 1 .. n
      <4>1. line'[i] = line[i]
        BY <2>2, <3>1
      <4> QED
        BY <1>3, <3>1, <4>1 DEF OrderInv, LineOrder
    <3>2. CASE i = n + 1
      <4>1. line'[i][2] = Now
        BY <1>5, <2>2, <3>2
      <4>2. \A j \in 1 .. Len(line') : i <= j => j = i
        BY <1>5, <2>2, <3>2
      <4> QED
        BY <1>3, <1>5, <3>2, <4>1, <4>2 DEF OrderInv, LineOrder
    <3> QED
      BY <1>5, <2>2, <3>1, <3>2
  <2> QED
    BY <1>5, <2>1, <2>2
<1>7. LineOrder'
  <2>1. \A i \in 1 .. Len(line') : \A j \in 1 .. Len(line') :
           i <= j => line'[i][2] <= line'[j][2]
    <3> TAKE i \in 1 .. Len(line')
    <3> TAKE j \in 1 .. Len(line')
    <3> HAVE i <= j
    <3>1. CASE line'[j][2] = Now
      BY <1>3, <1>6, <3>1
    <3>2. CASE j <= n /\ line'[j] = line[j]
      <4>1. i <= n /\ i \in 1 .. n /\ j \in 1 .. n
        BY <1>5, <3>2
      <4>2. line'[i] = line[i]
        BY <1>5, <4>1
      <4> QED
        BY <3>2, <4>1, <4>2 DEF OrderInv, LineOrder
    <3> QED
      BY <1>6, <3>1, <3>2
  <2>2. \A i \in 1 .. Len(line') : line'[i][2] <= Now'
    BY <1>3, <1>4, <1>6
  <2>3. early' <= Now' /\ late' <= Now'
    BY <1>2, <1>3, <1>4 DEF OrderInv, LineOrder
  <2> QED
    BY <1>2, <1>6, <2>1, <2>2, <2>3 DEF LineOrder
<1>8. BufferOrder'
  <2> SUFFICES ASSUME rpc # "idle", t # Word - 1, NEW i \in 1 .. t
               PROVE  /\ early <= buf[i][2] /\ late <= buf[i][2] /\ buf[i][2] <= Now'
                      /\ \A j \in 1 .. Len(line') : buf[i][2] <= line'[j][2]
    BY <1>2 DEF BufferOrder
  <2>1. /\ early <= buf[i][2] /\ late <= buf[i][2] /\ buf[i][2] <= Now
        /\ \A j \in 1 .. Len(line) : buf[i][2] <= line[j][2]
    BY DEF OrderInv, BufferOrder
  <2>2. i \in 1 .. Len(buf)
    BY <1>3 DEF OrderInv, LaneInv, Written, SerialIInv, SerialTypeOK
  <2>3. \A j \in 1 .. Len(line') : buf[i][2] <= line'[j][2]
    <3> TAKE j \in 1 .. Len(line')
    <3>1. CASE line'[j][2] = Now
      BY <2>1, <3>1
    <3>2. CASE j <= n /\ line'[j] = line[j]
      <4>1. j \in 1 .. Len(line)
        BY <1>3, <3>2
      <4> QED
        BY <2>1, <3>2, <4>1
    <3> QED
      BY <1>6, <3>1, <3>2
  <2>4. buf[i][2] <= Now'
    <3>1. buf[i][2] \in Nat /\ buf[i][2] <= Now
      BY <1>3, <2>1, <2>2
    <3> QED
      BY <1>3, <1>4, <3>1
  <2> QED
    BY <2>1, <2>3, <2>4
<1>9. SockOrder'
  <2> SUFFICES ASSUME via # "uart"
               PROVE  /\ early = late /\ Len(line') <= emitted'
                      /\ \A i \in 1 .. Len(line') : line'[i] = Parts[emitted' - Len(line') + i - 1]
    BY <1>2 DEF SockOrder
  <2>1. /\ early = late /\ n <= emitted
        /\ \A i \in 1 .. n : line[i] = Parts[emitted - n + i - 1]
    BY DEF OrderInv, SockOrder
  <2>2. /\ Len(line') = n + 1
        /\ \A i \in 1 .. n : line'[i] = line[i]
        /\ line'[n + 1] = Part(emitted)
    <3>1. line' = Append(line, Part(emitted))
      BY <1>1
    <3>2. line \in Seq(Dated) /\ Part(emitted) \in Dated
      BY <1>3, PartIs DEF OrderInv, LaneInv, ReceiverSends
    <3> QED
      BY <3>1, <3>2, AppendProperties
  <2>3. emitted' - Len(line') = emitted - n
    BY <1>1, <1>3, <2>2
  <2>4. \A i \in 1 .. Len(line') : line'[i] = Parts[emitted' - Len(line') + i - 1]
    <3> TAKE i \in 1 .. Len(line')
    <3>1. emitted' - Len(line') + i - 1 = emitted - n + i - 1
      BY <2>3
    <3>2. CASE i \in 1 .. n
      <4>1. line'[i] = Parts[emitted - n + i - 1]
        BY <2>1, <2>2, <3>2
      <4> QED
        BY <3>1, <4>1
    <3>3. CASE i = n + 1
      <4>1. emitted - n + i - 1 = emitted
        BY <1>3, <1>5, <3>3
      <4>2. Part(emitted) = Parts[emitted]
        BY <1>3 DEF Parts
      <4> QED
        BY <2>2, <3>1, <3>3, <4>1, <4>2
    <3> QED
      BY <1>5, <2>2, <3>2, <3>3
  <2>5. Len(line') <= emitted'
    BY <1>1, <1>3, <1>5, <2>1, <2>2
  <2> QED
    BY <2>1, <2>4, <2>5
<1> QED
  BY <1>7, <1>8, <1>9

(* Inside serial_read items go from the line to the buffer, oldest first.  *)
LEMMA OrderReading ==
    ASSUME SerialIInv, OrderInv, ReadingPort
    PROVE  LineOrder' /\ BufferOrder' /\ SockOrder'
<1>1. ReadStep /\ lpc = "reading"
      /\ UNCHANGED <<lpc, via, sock, running, emitted, early, late, sent>>
  BY DEF ReadingPort, laneVars
<1>2. /\ Len(line) \in Nat /\ Len(buf) \in Nat /\ emitted \in Nat /\ Now \in Nat
      /\ early \in Nat /\ late \in Nat
      /\ \A i \in 1 .. Len(line) : line[i][2] \in Nat
      /\ \A i \in 1 .. Len(buf) : buf[i][2] \in Nat
  BY Epochs DEF OrderInv
<1>3. Now' = Now /\ via = "uart" /\ via' = via /\ early' = early /\ late' = late
  BY <1>1 DEF Now, OrderInv, LaneInv, LaneCalls
<1>4. SockOrder'
  BY <1>3 DEF SockOrder
<1>5. CASE ReadSome
  <2> DEFINE k == Taken
  <2>1. line \in Seq(Dated) /\ buf \in Seq(Dated) /\ Written
    BY DEF OrderInv, LaneInv
  <2>2. /\ k \in 1 .. Len(line) /\ t \in Nat /\ t < count - 1 /\ t' = t + k /\ rpc = "reading"
        /\ Len(line') = Len(line) - k
        /\ \A i \in 1 .. Len(line) - k : line'[i] = line[k + i]
        /\ \A i \in 1 .. t : buf'[i] = buf[i]
        /\ \A i \in 1 .. k : buf'[t + i] = line[i]
    BY <1>5, <2>1, SomeIsTaken
  <2> HIDE DEF k
  <2>3. \A i \in 1 .. Len(line') : /\ line'[i] = line[k + i]
                                   /\ k + i \in 1 .. Len(line)
    BY <1>2, <2>2
  <2>4. LineOrder'
    <3>1. \A i \in 1 .. Len(line') :
             /\ early <= line'[i][2] /\ late <= line'[i][2] /\ line'[i][2] <= Now
             /\ \A j \in 1 .. Len(line') : i <= j => line'[i][2] <= line'[j][2]
      <4> TAKE i \in 1 .. Len(line')
      <4>1. /\ line'[i] = line[k + i] /\ k + i \in 1 .. Len(line)
        BY <2>3
      <4>2. \A j \in 1 .. Len(line') : i <= j => line'[i][2] <= line'[j][2]
        <5> TAKE j \in 1 .. Len(line')
        <5> HAVE i <= j
        <5>1. /\ line'[j] = line[k + j] /\ k + j \in 1 .. Len(line) /\ k + i <= k + j
          BY <1>2, <2>2, <2>3
        <5>2. line[k + i][2] <= line[k + j][2]
          BY <4>1, <5>1 DEF OrderInv, LineOrder
        <5> QED
          BY <4>1, <5>1, <5>2
      <4>3. early <= line[k + i][2] /\ late <= line[k + i][2] /\ line[k + i][2] <= Now
        BY <4>1 DEF OrderInv, LineOrder
      <4> QED
        BY <4>1, <4>2, <4>3
    <3> QED
      BY <1>3, <3>1 DEF LineOrder, OrderInv
  <2>5. BufferOrder'
    <3>1. t # Word - 1
      BY <2>2, SerialAssumption DEF SerialIInv, SerialTypeOK
    <3> SUFFICES ASSUME NEW i \in 1 .. t'
                 PROVE  /\ early <= buf'[i][2] /\ late <= buf'[i][2] /\ buf'[i][2] <= Now
                        /\ \A j \in 1 .. Len(line') : buf'[i][2] <= line'[j][2]
      BY <1>3 DEF BufferOrder
    <3>2. CASE i \in 1 .. t
      <4>1. buf'[i] = buf[i]
        BY <2>2, <3>2
      <4>2. /\ early <= buf[i][2] /\ late <= buf[i][2] /\ buf[i][2] <= Now
            /\ \A j \in 1 .. Len(line) : buf[i][2] <= line[j][2]
        BY <2>2, <3>1, <3>2 DEF OrderInv, BufferOrder
      <4>3. \A j \in 1 .. Len(line') : buf[i][2] <= line'[j][2]
        BY <2>3, <4>2
      <4> QED
        BY <4>1, <4>2, <4>3
    <3>3. CASE ~ (i \in 1 .. t)
      <4> DEFINE m == i - t
      <4>1. m \in 1 .. k /\ i = t + m /\ m \in 1 .. Len(line)
        BY <1>2, <2>2, <3>3
      <4> HIDE DEF m
      <4>2. buf'[i] = line[m]
        BY <2>2, <4>1
      <4>3. early <= line[m][2] /\ late <= line[m][2] /\ line[m][2] <= Now
        BY <4>1 DEF OrderInv, LineOrder
      <4>4. \A j \in 1 .. Len(line') : line[m][2] <= line'[j][2]
        <5> TAKE j \in 1 .. Len(line')
        <5>1. m <= k + j /\ k + j \in 1 .. Len(line) /\ line'[j] = line[k + j]
          BY <1>2, <2>2, <2>3, <4>1
        <5>2. line[m][2] <= line[k + j][2]
          BY <4>1, <5>1 DEF OrderInv, LineOrder
        <5> QED
          BY <5>1, <5>2
      <4> QED
        BY <4>2, <4>3, <4>4
    <3> QED
      BY <3>2, <3>3
  <2> QED
    BY <1>4, <2>4, <2>5
<1>6. CASE ReadNothing \/ ReadHungUp
  <2>1. /\ line' = line /\ buf' = buf /\ rpc = "reading"
        /\ t' = t \/ t' = Word - 1 \/ (t # 0 /\ t' = t - 1)
    BY <1>6 DEF ReadNothing, ReadHungUp, lineVars
  <2>2. t \in Nat /\ t # Word - 1
    BY <2>1, SerialAssumption DEF SerialIInv, SerialTypeOK, Looping
  <2>3. t' # Word - 1 => 1 .. t' \subseteq 1 .. t
    BY <2>1, <2>2
  <2>4. LineOrder'
    BY <1>3, <2>1 DEF OrderInv, LineOrder
  <2>5. BufferOrder'
    <3> SUFFICES ASSUME t' # Word - 1, NEW i \in 1 .. t'
                 PROVE  /\ early <= buf[i][2] /\ late <= buf[i][2] /\ buf[i][2] <= Now
                        /\ \A j \in 1 .. Len(line) : buf[i][2] <= line[j][2]
      BY <1>3, <2>1 DEF BufferOrder
    <3>1. i \in 1 .. t
      BY <2>3
    <3> QED
      BY <2>1, <2>2, <3>1 DEF OrderInv, BufferOrder
  <2> QED
    BY <1>4, <2>4, <2>5
<1> QED
  BY <1>1, <1>5, <1>6 DEF ReadStep

(* What it says besides is of the newest epoch, too.                       *)
LEMMA OrderTalks ==
    ASSUME SerialIInv, OrderInv, ReceiverTalks
    PROVE  /\ LineOrder' /\ BufferOrder' /\ SockOrder'
           /\ early' = early /\ late' = late /\ sent' = sent
<1> DEFINE x == << "other", Now >>
<1>1. /\ via = "uart" /\ line' = << x >>
      /\ UNCHANGED <<port, hung, readVars, buf, laneVars>>
  BY DEF ReceiverTalks, Now
<1>2. /\ rpc' = rpc /\ t' = t /\ buf' = buf /\ via' = via /\ emitted' = emitted
      /\ early' = early /\ late' = late /\ sent' = sent
  BY <1>1 DEF readVars, laneVars
<1>3. Now' = Now /\ Now \in Nat /\ early \in Nat /\ late \in Nat
  BY <1>2, Epochs DEF Now, OrderInv
<1>4. /\ Len(line') = 1
      /\ \A i \in 1 .. Len(line') : i = 1 /\ line'[i][2] = Now
  <2> x[2] = Now
    OBVIOUS
  <2> HIDE DEF x
  <2>1. Len(<< x >>) = 1 /\ << x >>[1] = x
    OBVIOUS
  <2> QED
    BY <1>1, <2>1
<1>5. LineOrder'
  BY <1>2, <1>3, <1>4 DEF OrderInv, LineOrder
<1>6. BufferOrder'
  BY <1>2, <1>3, <1>4 DEF OrderInv, BufferOrder
<1>7. SockOrder'
  BY <1>1, <1>2 DEF SockOrder
<1> QED
  BY <1>2, <1>5, <1>6, <1>7

(* The steps that only begin or end something.                             *)
LEMMA OrderUntouched ==
    ASSUME SerialIInv, OrderInv,
           ReceiverLeaves \/ ConnectSock \/ OpenReceiver \/ Uninit \/ Tick
    PROVE  /\ LineOrder' /\ BufferOrder' /\ SockOrder'
           /\ early' = early /\ late' = late /\ sent' = sent
<1>1. /\ line' = line /\ emitted' = emitted /\ early' = early /\ late' = late
      /\ sent' = sent
      /\ (via' = via \/ via = "none")
      /\ (rpc' = rpc /\ t' = t /\ buf' = buf) \/ t' = 0
  <2>1. CASE ReceiverLeaves
    BY <2>1 DEF ReceiverLeaves, laneVars, readVars
  <2>2. CASE ConnectSock
    <3>1. /\ lpc = "sock" /\ UNCHANGED <<serialVars, emitted, sgVars>>
      BY <2>2 DEF ConnectSock
    <3> QED
      BY <3>1 DEF serialVars, sgVars, OrderInv, LaneInv, LaneCalls
  <2>3. CASE OpenReceiver
    <3>1. /\ lpc = "uart" /\ UNCHANGED <<lineVars, readVars, buf, sock, emitted, sgVars>>
      BY <2>3 DEF OpenReceiver
    <3> QED
      BY <3>1 DEF lineVars, readVars, sgVars, OrderInv, LaneInv, LaneCalls
  <2>4. CASE Uninit
    BY <2>4 DEF Uninit, lineVars, readVars, sgVars
  <2>5. CASE Tick
    <3>1. UNCHANGED <<port, lineVars, via, sock, running, emitted>>
      BY <2>5 DEF Tick
    <3>2. early' = early /\ late' = late /\ sent' = <<early', late'>>
      BY <2>5, StepTick DEF OrderInv, LaneInv
    <3>3. sent' = sent
      BY <3>2 DEF OrderInv, LaneInv
    <3>4. (rpc' = rpc /\ t' = t /\ buf' = buf) \/ t' = 0
      BY <2>5 DEF Tick, ReadStart, readVars
    <3> QED
      BY <3>1, <3>2, <3>3, <3>4 DEF lineVars
  <2> QED
    BY <2>1, <2>2, <2>3, <2>4, <2>5
<1>2. Now' = Now
  BY <1>1 DEF Now
<1>3. LineOrder'
  BY <1>1, <1>2 DEF OrderInv, LineOrder
<1>4. BufferOrder'
  <2>1. CASE rpc' = rpc /\ t' = t /\ buf' = buf
    BY <1>1, <1>2, <2>1 DEF OrderInv, BufferOrder
  <2>2. CASE t' = 0
    BY <2>2 DEF BufferOrder
  <2> QED
    BY <1>1, <2>1, <2>2
<1>5. SockOrder'
  BY <1>1 DEF OrderInv, SockOrder
<1> QED
  BY <1>1, <1>3, <1>4, <1>5

(* What ReadPort parses is not older than what was parsed before, nor      *)
(* newer than what is to come.                                             *)
LEMMA OrderPort ==
    ASSUME SerialIInv, OrderInv, ReadPort
    PROVE  /\ LineOrder' /\ BufferOrder' /\ SockOrder'
           /\ early <= early' /\ late <= late' /\ via' = via
<1>1. /\ lpc = "reading" /\ rpc = "back" /\ rpc' = "idle"
      /\ UNCHANGED <<line, buf, via, emitted>>
      /\ \/ early' = early /\ late' = late
         \/ /\ t \in 0 .. Len(buf) /\ t # Word - 1 /\ SubSeq(buf, 1, t) \in Seq(Dated)
            /\ Len(SubSeq(buf, 1, t)) = t
            /\ \A i \in 1 .. t : SubSeq(buf, 1, t)[i] = buf[i]
            /\ Parse(SubSeq(buf, 1, t))
  BY PortIs DEF OrderInv
<1>2. /\ Len(line) \in Nat /\ Len(buf) \in Nat /\ emitted \in Nat /\ Now \in Nat
      /\ early \in Nat /\ late \in Nat
      /\ \A i \in 1 .. Len(line) : line[i][2] \in Nat
      /\ \A i \in 1 .. Len(buf) : buf[i][2] \in Nat
  BY Epochs DEF OrderInv
<1>3. Now' = Now /\ via = "uart"
  BY <1>1 DEF Now, OrderInv, LaneInv, LaneCalls
<1>4. /\ early <= early' /\ early' <= Now
      /\ late <= late' /\ late' <= Now
      /\ \A j \in 1 .. Len(line) : early' <= line[j][2] /\ late' <= line[j][2]
  <2>1. CASE early' = early /\ late' = late
    BY <1>2, <2>1 DEF OrderInv, LineOrder
  <2>2. CASE ~ (early' = early /\ late' = late)
    <3> DEFINE b == SubSeq(buf, 1, t)
    <3>1. /\ t \in 0 .. Len(buf) /\ t # Word - 1 /\ b \in Seq(Dated) /\ Len(b) = t
          /\ \A i \in 1 .. t : b[i] = buf[i]
          /\ Parse(b)
      BY <1>1, <2>2
    <3> HIDE DEF b
    <3>2. /\ \E p \in 1 .. t : early' = b[p][2]
          /\ late' = late \/ \E f \in 1 .. t : late' = b[f][2]
      BY <2>2, <3>1, ParseIs
    <3>3. \A i \in 1 .. t :
             /\ early <= b[i][2] /\ late <= b[i][2] /\ b[i][2] <= Now
             /\ \A j \in 1 .. Len(line) : b[i][2] <= line[j][2]
      BY <1>1, <3>1 DEF OrderInv, BufferOrder
    <3>4. /\ late <= Now
          /\ \A j \in 1 .. Len(line) : late <= line[j][2]
      BY DEF OrderInv, LineOrder
    <3> QED
      BY <1>2, <3>2, <3>3, <3>4
  <2> QED
    BY <2>1, <2>2
<1>5. LineOrder'
  BY <1>1, <1>3, <1>4 DEF OrderInv, LineOrder
<1>6. BufferOrder'
  BY <1>1 DEF BufferOrder
<1>7. SockOrder'
  BY <1>1, <1>3 DEF SockOrder
<1> QED
  BY <1>1, <1>4, <1>5, <1>6, <1>7

(* What ReadSock parses is of one epoch.                                   *)
LEMMA OrderSock ==
    ASSUME SerialIInv, OrderInv, ReadSock
    PROVE  /\ LineOrder' /\ BufferOrder' /\ SockOrder'
           /\ early <= early' /\ late <= late' /\ via' = via
<1>1. PICK n \in 0 .. Len(line) :
         /\ line' = SubSeq(line, n + 1, Len(line))
         /\ SubSeq(line, 1, n) \in Seq(Dated)
         /\ Parse(SubSeq(line, 1, n))
         /\ lpc = "blocked" /\ lpc' = "idle"
         /\ UNCHANGED <<port, hung, rpc, count, t, buf, via, sock, running, emitted>>
  BY SockIs DEF OrderInv
<1>2. /\ Len(line) \in Nat /\ Len(buf) \in Nat /\ emitted \in Nat /\ Now \in Nat
      /\ early \in Nat /\ late \in Nat
      /\ \A i \in 1 .. Len(line) : line[i][2] \in Nat
      /\ \A i \in 1 .. Len(buf) : buf[i][2] \in Nat
  BY Epochs DEF OrderInv
<1>3. Now' = Now /\ via = "socket" /\ rpc' = rpc /\ rpc = "idle"
  BY <1>1 DEF Now, OrderInv, LaneInv, LaneCalls
<1> DEFINE b == SubSeq(line, 1, n)
           L == Len(line)
<1>4. /\ b \in Seq(Dated) /\ Len(b) = n /\ \A i \in 1 .. n : b[i] = line[i]
      /\ Len(line') = L - n
      /\ \A i \in 1 .. L - n : line'[i] = line[n + i]
  <2>1. line \in Seq(Dated)
    BY DEF OrderInv, LaneInv
  <2> QED
    BY <1>1, <2>1, Cut
<1>5. Parse(b)
  BY <1>1
<1> HIDE DEF b
<1>6. /\ n \in Nat /\ n <= L
      /\ \A i \in 1 .. Len(line') : line'[i] = line[n + i] /\ n + i \in 1 .. L
  BY <1>2, <1>4
<1>7. /\ early = late /\ L <= emitted
      /\ \A i \in 1 .. L : line[i] = Parts[emitted - L + i - 1]
  BY <1>3 DEF OrderInv, SockOrder
<1>8. \/ early' = early /\ late' = late
      \/ \E p \in 1 .. n : early' = line[p][2] /\ late' = line[p][2]
  <2> SUFFICES ASSUME ~ (early' = early /\ late' = late)
               PROVE  \E p \in 1 .. n : early' = line[p][2] /\ late' = line[p][2]
    OBVIOUS
  <2>1. PICK p, e \in 1 .. n :
           /\ p < e /\ b[p][1] = "P" /\ early' = b[p][2]
           /\ b[e][1] = "G"
           /\ \/ late' = late /\ ~ (p + 1 < e /\ b[p + 1][1] = "F")
              \/ \E f \in 1 .. n :
                    /\ late' = b[f][2]
                    /\ p + 1 < e /\ b[p + 1][1] = "F" => f = p + 1
    BY <1>4, <1>5, ParseIs
  <2> DEFINE m == emitted - L + p - 1
  <2>2. m \in Nat /\ p + 1 \in 1 .. n /\ emitted - L + (p + 1) - 1 = m + 1
        /\ p \in 1 .. L /\ p + 1 \in 1 .. L
    BY <1>2, <1>6, <1>7, <2>1
  <2>3. b[p] = Parts[m] /\ b[p + 1] = Parts[m + 1]
    BY <1>4, <1>7, <2>2
  <2> HIDE DEF m
  <2>4. b[p] = Part(m) /\ b[p + 1] = Part(m + 1)
    BY <2>2, <2>3 DEF Parts
  <2>5. m % 3 = 0 /\ b[p + 1][1] = "F"
    <3>1. m \in Nat /\ Part(m)[1] = "P"
      BY <2>1, <2>2, <2>4
    <3>2. m % 3 = 0 /\ Part(m + 1)[1] = "F"
      BY <3>1, PartIs
    <3> QED
      BY <2>4, <3>2
  <2>6. b[p + 1][2] = b[p][2]
    <3>0. m \in Nat /\ m + 1 \in Nat
      BY <2>2
    <3>1. b[p][2] = (m \div 3) + 1 /\ b[p + 1][2] = ((m + 1) \div 3) + 1
      <4>1. Part(m)[2] = (m \div 3) + 1
        BY <3>0, PartIs
      <4>2. Part(m + 1)[2] = ((m + 1) \div 3) + 1
        BY <3>0, PartIs
      <4> QED
        BY <2>4, <4>1, <4>2
    <3>2. (m + 1) \div 3 = m \div 3
      BY <2>2, <2>5, SMT
    <3> QED
      BY <3>1, <3>2
  <2>7. p + 1 < e
    <3>1. p + 1 # e
      BY <2>1, <2>5
    <3> QED
      BY <1>6, <2>1, <3>1
  <2>8. late' = b[p][2]
    BY <2>1, <2>5, <2>6, <2>7
  <2>9. b[p] = line[p]
    BY <1>4, <2>1
  <2> QED
    BY <2>1, <2>8, <2>9
<1>9. /\ early <= early' /\ early' <= Now /\ late <= late' /\ late' <= Now
      /\ early' = late'
      /\ \A j \in 1 .. Len(line') : early' <= line'[j][2] /\ late' <= line'[j][2]
  <2>1. CASE early' = early /\ late' = late
    <3>1. \A j \in 1 .. Len(line') : early <= line'[j][2] /\ late <= line'[j][2]
      BY <1>6 DEF OrderInv, LineOrder
    <3>2. early <= Now /\ late <= Now
      BY DEF OrderInv, LineOrder
    <3>3. early <= early' /\ early' <= Now /\ late <= late' /\ late' <= Now
      <4>1. early <= early /\ late <= late
        BY <1>2
      <4> QED
        BY <2>1, <3>2, <4>1
    <3>4. early' = late' /\ \A j \in 1 .. Len(line') : early' <= line'[j][2] /\ late' <= line'[j][2]
      BY <1>7, <2>1, <3>1
    <3> QED
      BY <3>3, <3>4
  <2>2. CASE \E p \in 1 .. n : early' = line[p][2] /\ late' = line[p][2]
    <3>1. PICK p \in 1 .. n : early' = line[p][2] /\ late' = line[p][2]
      BY <2>2
    <3>2. p \in 1 .. L /\ \A j \in 1 .. Len(line') : p <= n + j
      BY <1>2, <1>4, <1>6
    <3>3. \A j \in 1 .. Len(line') : line[p][2] <= line'[j][2]
      BY <1>6, <3>2 DEF OrderInv, LineOrder
    <3>4. early <= line[p][2] /\ late <= line[p][2] /\ line[p][2] <= Now
      BY <3>2 DEF OrderInv, LineOrder
    <3> QED
      BY <3>1, <3>3, <3>4
  <2> QED
    BY <1>8, <2>1, <2>2
<1>10. LineOrder'
  <2>1. \A i \in 1 .. Len(line') :
           /\ line'[i][2] <= Now
           /\ \A j \in 1 .. Len(line') : i <= j => line'[i][2] <= line'[j][2]
    <3> TAKE i \in 1 .. Len(line')
    <3>1. line'[i] = line[n + i] /\ n + i \in 1 .. L
      BY <1>6
    <3>2. \A j \in 1 .. Len(line') : i <= j => line'[i][2] <= line'[j][2]
      <4> TAKE j \in 1 .. Len(line')
      <4> HAVE i <= j
      <4>1. line'[j] = line[n + j] /\ n + j \in 1 .. L /\ n + i <= n + j
        BY <1>2, <1>4, <1>6
      <4>2. line[n + i][2] <= line[n + j][2]
        BY <3>1, <4>1 DEF OrderInv, LineOrder
      <4> QED
        BY <3>1, <4>1, <4>2
    <3>3. line[n + i][2] <= Now
      BY <3>1 DEF OrderInv, LineOrder
    <3> QED
      BY <3>1, <3>2, <3>3
  <2> QED
    BY <1>3, <1>9, <2>1 DEF LineOrder
<1>11. BufferOrder'
  BY <1>3 DEF BufferOrder
<1>12. SockOrder'
  <2>1. \A i \in 1 .. Len(line') : line'[i] = Parts[emitted' - Len(line') + i - 1]
    <3> TAKE i \in 1 .. Len(line')
    <3>1. line'[i] = line[n + i] /\ n + i \in 1 .. L
      BY <1>6
    <3>2. emitted - L + (n + i) - 1 = emitted' - Len(line') + i - 1
      BY <1>1, <1>2, <1>4, <1>6
    <3>3. line[n + i] = Parts[emitted - L + (n + i) - 1]
      BY <1>7, <3>1
    <3> QED
      BY <3>1, <3>2, <3>3
  <2>2. Len(line') <= emitted'
    BY <1>1, <1>2, <1>4, <1>6, <1>7
  <2> QED
    BY <1>9, <2>1, <2>2 DEF SockOrder
<1> QED
  BY <1>1, <1>9, <1>10, <1>11, <1>12

(* No step takes sg_data back, and what is sent keeps its order.           *)
LEMMA StepOrder ==
    ASSUME SerialIInv, OrderInv, LaneStep
    PROVE  /\ OrderInv'
           /\ sent' # sent => /\ sent'[1] >= sent[1] /\ sent'[2] >= sent[2]
                              /\ sent'[1] # sent'[2] => via = "uart"
<1>1. LaneInv'
  BY StepReceiver DEF OrderInv
<1>2. /\ early \in Nat /\ late \in Nat /\ sent = <<early, late>> /\ sent' = <<early', late'>>
  BY <1>1, Epochs DEF OrderInv, LaneInv
<1>3. /\ LineOrder' /\ BufferOrder' /\ SockOrder'
      /\ \/ sent' = sent
         \/ early <= early' /\ late <= late' /\ via' = via
  <2>1. CASE ReceiverSends
    <3>1. sent' = sent
      BY <2>1 DEF ReceiverSends, sgVars
    <3> QED
      BY <2>1, <3>1, OrderSends
  <2>2. CASE ReadingPort
    <3>1. sent' = sent
      BY <2>2 DEF ReadingPort, laneVars
    <3> QED
      BY <2>2, <3>1, OrderReading
  <2>3. CASE ReceiverLeaves \/ ConnectSock \/ OpenReceiver \/ Uninit \/ Tick
    BY <2>3, OrderUntouched
  <2>4. CASE ReadPort
    BY <2>4, OrderPort
  <2>5. CASE ReadSock
    BY <2>5, OrderSock
  <2>6. CASE ReceiverTalks
    BY <2>6, OrderTalks
  <2> QED
    BY <2>1, <2>2, <2>3, <2>4, <2>5, <2>6 DEF LaneStep, LaneProgram
<1>4. early' \in Nat /\ late' \in Nat
  BY <1>1, LaneAssumption DEF LaneInv, LaneTypeOK
<1>5. sent' # sent => /\ sent'[1] >= sent[1] /\ sent'[2] >= sent[2]
                      /\ sent'[1] # sent'[2] => via = "uart"
  <2> HAVE sent' # sent
  <2>1. early <= early' /\ late <= late' /\ via' = via
    BY <1>3
  <2>2. via # "uart" => early' = late'
    BY <1>3, <2>1 DEF SockOrder
  <2> QED
    BY <1>2, <1>4, <2>1, <2>2
<1> QED
  BY <1>1, <1>3, <1>5 DEF OrderInv

-----------------------------------------------------------------------------
(* hal/fx650.c on a line where nothing is late, cut or refused *)

(* The whole answer to the command, and what it says before OK.            *)
Short == {"at", "setip", "apn", "rndis"}

Said ==
    IF mpc = "dhcpcfg" THEN IF segment THEN "42." ELSE "42x"
    ELSE IF mpc = "cpin" THEN IF sim THEN "READY" ELSE "PIN"
    ELSE IF mpc = "rndis?" THEN IF dialled THEN "RNDIS: 1,1" ELSE "RNDIS: 0"
    ELSE "CCID"

Answered ==
    IF mpc \in Short THEN << <<"OK", 0>>, <<"eol", 0>> >>
    ELSE << <<Said, 0>>, <<"OK", 0>>, <<"eol", 0>> >>

(* The answer is still with the modem, or on the line, or the first k      *)
(* parts of it are in resp.                                                *)
InResp(k) ==
    /\ Len(line) = Len(Answered) - k
    /\ \A i \in 1 .. Len(line) : line[i] = Answered[k + i]
    /\ k <= Len(buf) /\ (mpc # "setip" => Len(buf) = k)
    /\ \A i \in 1 .. k : buf[i] = Answered[i]
    /\ t = k \/ (k = Len(Answered) /\ (t < k \/ t = Word - 1))

CalmLine ==
    calm =>
       /\ ~hung
       /\ apc \in {"idle", "select"} /\ mpc # "setip" => buf = <<>>
       /\ apc = "idle" => owed = <<>> /\ line = <<>>
       /\ apc = "select" => \/ owed = Answered /\ line = <<>>
                            \/ owed = <<>> /\ line = Answered
       /\ apc = "read" => owed = <<>> /\ count = RespLen
                          /\ \E k \in 0 .. Len(Answered) : InResp(k)

(* What fx650_init has found out, and the modem has done, at each step.    *)
CalmDone ==
    calm =>
       /\ mpc \in {"cpin", "apn", "rndis?", "rndis", "dhcp"}
          \/ (mpc = "setip" /\ apc # "idle") => ~segment
       /\ mpc = "dhcp" \/ (mpc = "rndis" /\ apc # "idle") => dialled
       /\ mpc \in {"ccid", "close", "end"} /\ modem = "OK" /\ ~online => ~segment /\ dialled
       /\ mpc \in {"close", "end"} /\ modem = "OK" => simId = "CCID"

CalmInv == ModemInv /\ CalmLine /\ CalmDone

(* The whole answer.                                                       *)
LEMMA AnsweredIs ==
    ASSUME mpc \in Commands
    PROVE  /\ Answered \in Seq(Item) /\ Len(Answered) \in {2, 3}
           /\ Answered[Len(Answered) - 1] = <<"OK", 0>>
           /\ Answered[Len(Answered)] = <<"eol", 0>>
           /\ mpc \notin Short => Len(Answered) = 3 /\ Answered[1] = <<Said, 0>>
           /\ mpc \in Short => Len(Answered) = 2
           /\ Answered = Text(mpc) \o << <<"OK", 0>>, <<"eol", 0>> >>
<1> DEFINE x == <<"OK", 0>>
           y == <<"eol", 0>>
           z == <<Said, 0>>
<1>1. x \in Item /\ y \in Item
  BY ModemTexts DEF Sayable
<1>2. z \in Item
  <2>1. Said \in Texts
    BY DEF Said, Texts
  <2> QED
    BY <2>1 DEF Item
<1>3. CASE mpc \in Short
  <2>1. Answered = << x, y >>
    BY <1>3 DEF Answered
  <2>2. Full(mpc) = << x, y >>
    BY <1>3, FullIs DEF Short
  <2> HIDE DEF x, y
  <2>3. << x, y >> \in Seq(Item) /\ Len(<< x, y >>) = 2 /\ << x, y >>[1] = x /\ << x, y >>[2] = y
    BY <1>1
  <2>4. Full(mpc) = Text(mpc) \o << x, y >>
    BY DEF Full, x, y
  <2>5. Len(Answered) - 1 = 1 /\ Len(Answered) = 2
    BY <2>1, <2>3
  <2> QED
    BY <1>3, <2>1, <2>2, <2>3, <2>4, <2>5 DEF x, y
<1>4. CASE mpc \notin Short
  <2>1. Answered = << z, x, y >>
    BY <1>4 DEF Answered
  <2>2. Text(mpc) = << z >>
    <3>1. mpc \in {"dhcpcfg", "cpin", "rndis?", "ccid"}
      BY <1>4 DEF Commands, Short
    <3>2. CASE mpc = "dhcpcfg"
      BY <3>2, TextIs DEF Said
    <3>3. CASE mpc = "cpin"
      BY <3>3, TextIs DEF Said
    <3>4. CASE mpc = "rndis?"
      BY <3>4, TextIs DEF Said
    <3>5. CASE mpc = "ccid"
      BY <3>5, TextIs DEF Said
    <3> QED
      BY <3>1, <3>2, <3>3, <3>4, <3>5
  <2> HIDE DEF x, y, z
  <2>3. << z >> \o << x, y >> = << z, x, y >>
    BY <1>1, <1>2, OneAndTwo
  <2>4. LET w == << z, x, y >>
        IN  w \in Seq(Item) /\ Len(w) = 3 /\ w[1] = z /\ w[2] = x /\ w[3] = y
    BY <1>1, <1>2
  <2>5. Len(Answered) - 1 = 2 /\ Len(Answered) = 3
    BY <2>1, <2>4
  <2> QED
    BY <1>4, <2>1, <2>2, <2>3, <2>4, <2>5 DEF x, y, z
<1> QED
  BY <1>3, <1>4

(* It is the same as long as the command is.                               *)
LEMMA AnsweredStays ==
    ASSUME mpc' = mpc, sim' = sim, mpc = "dhcpcfg" => segment' = segment,
           mpc = "rndis?" => dialled' = dialled
    PROVE  Answered' = Answered
<1>1. Said' = Said
  <2>1. CASE mpc = "dhcpcfg"
    <3>1. /\ mpc' = "dhcpcfg" /\ (segment' <=> segment)
          /\ Said = IF segment THEN "42." ELSE "42x"
      BY <2>1 DEF Said
    <3>2. Said' = IF segment' THEN "42." ELSE "42x"
      BY <3>1 DEF Said
    <3> QED
      BY <3>1, <3>2
  <2>2. CASE mpc = "cpin"
    BY <2>2, Zenon DEF Said
  <2>3. CASE mpc = "rndis?"
    <3>1. /\ mpc' = "rndis?" /\ (dialled' <=> dialled)
          /\ Said = IF dialled THEN "RNDIS: 1,1" ELSE "RNDIS: 0"
      BY <2>3 DEF Said
    <3>2. Said' = IF dialled' THEN "RNDIS: 1,1" ELSE "RNDIS: 0"
      BY <3>1 DEF Said
    <3> QED
      BY <3>1, <3>2
  <2>4. CASE mpc \notin {"dhcpcfg", "cpin", "rndis?"}
    BY <2>4 DEF Said
  <2> QED
    BY <2>1, <2>2, <2>3, <2>4
<1> QED
  BY <1>1 DEF Answered

(* Calm is not regained.                                                   *)
LEMMA CalmStays == ASSUME FxTypeOK, FxStep, calm' PROVE calm
<1>0. calm \in BOOLEAN
  BY FxTypes
<1>1. CASE ModemSends
  BY <1>1, Zenon DEF ModemSends
<1>2. CASE Send
  BY <1>2, Zenon DEF Send, Answer
<1>3. CASE ModemUnplugged \/ ModemTalks \/ Timeout
  BY <1>3 DEF ModemUnplugged, ModemTalks, Timeout
<1>4. CASE FindInterface \/ OpenModem \/ CheckConnection \/ RunDhcp \/ CloseModem \/ Readable
           \/ Reading
  BY <1>4 DEF FindInterface, OpenModem, CheckConnection, RunDhcp, CloseModem, Readable,
              Reading, fxVars
<1>5. CASE Look
  BY <1>5, LookIs
<1> QED
  BY <1>1, <1>2, <1>3, <1>4, <1>5 DEF FxStep, FxProgram

(* The steps without a command.                                            *)
LEMMA CalmOthers ==
    ASSUME SerialIInv, CalmInv, calm,
           FindInterface \/ OpenModem \/ CheckConnection \/ RunDhcp \/ CloseModem
    PROVE  CalmLine' /\ CalmDone'
<1>1. /\ mpc \in {"find", "open", "curl", "dhcp", "close"} /\ apc' = apc
      /\ hung' = hung /\ segment' = segment /\ dialled' = dialled
      /\ simId' = simId
      /\ (line' = line /\ owed' = owed /\ buf' = buf)
         \/ (line' = <<>> /\ owed' = <<>> /\ buf' = <<>>)
  BY DEF FindInterface, OpenModem, CheckConnection, RunDhcp, CloseModem, Then, serialVars,
         lineVars, modemVars
<1>2. apc = "idle"
  BY <1>1, FxTypes DEF CalmInv, ModemInv, ModemCalls, Commands
<1>3. ~hung /\ owed = <<>> /\ line = <<>> /\ buf = <<>>
  BY <1>1, <1>2 DEF CalmInv, CalmLine
<1>4. CalmLine'
  BY <1>1, <1>2, <1>3 DEF CalmLine
<1>5. /\ mpc = "find" => mpc' = "open" \/ (mpc' = "end" /\ modem' = "ERR_INIT")
      /\ mpc = "open" => mpc' = "at" \/ (mpc' = "end" /\ modem' = "ERR_INIT")
      /\ mpc = "curl" => (mpc' = "ccid" /\ online') \/ mpc' \in {"dhcpcfg", "stuck"}
      /\ mpc = "dhcp" => mpc' = "ccid"
      /\ mpc = "close" => mpc' = "end" /\ modem' = modem /\ online' = online
  <2>1. CASE FindInterface
    BY <2>1 DEF FindInterface, Then
  <2>2. CASE OpenModem
    BY <2>2 DEF OpenModem, Then
  <2>3. CASE CheckConnection
    BY <2>3 DEF CheckConnection
  <2>4. CASE RunDhcp
    BY <2>4 DEF RunDhcp, Then
  <2>5. CASE CloseModem
    BY <2>5 DEF CloseModem, Then
  <2> QED
    BY <2>1, <2>2, <2>3, <2>4, <2>5
<1>6. CalmDone'
  BY <1>1, <1>2, <1>5 DEF CalmInv, CalmDone
<1> QED
  BY <1>4, <1>6

(* The command goes out, and the modem will answer it.                     *)
LEMMA CalmSend ==
    ASSUME SerialIInv, CalmInv, calm, calm', Send
    PROVE  CalmLine' /\ CalmDone'
<1>1. /\ mpc \in Commands /\ apc = "idle" /\ apc' = "select" /\ UNCHANGED serialVars
      /\ mpc' = mpc /\ sim' = sim /\ online' = online /\ modem' = modem /\ simId' = simId
      /\ ~hung /\ owed' = owed \o Text(mpc) \o << <<"OK", 0>>, <<"eol", 0>> >>
      /\ dialled' = (dialled \/ mpc = "rndis")
      /\ segment' = (segment /\ mpc # "setip")
  BY SendAnswers DEF CalmInv, ModemInv, TrueToSim
<1>2. line' = line /\ buf' = buf /\ hung' = hung
  BY <1>1 DEF serialVars
<1>3. segment \in BOOLEAN /\ dialled \in BOOLEAN
  BY FxTypes DEF CalmInv, ModemInv
<1>4. /\ mpc # "setip" => segment' = segment
      /\ mpc = "setip" => ~segment'
      /\ mpc # "rndis" => dialled' = dialled
      /\ mpc = "rndis" => dialled'
  BY <1>1, <1>3, Zenon
<1>5. Answered' = Answered
  BY <1>1, <1>4, AnsweredStays
<1>6. owed' = Answered
  <2>1. owed = <<>> /\ Text(mpc) \in Seq(Sayable)
    BY <1>1, FullIs DEF CalmInv, CalmLine
  <2>2. owed \o Text(mpc) = Text(mpc)
    BY <2>1, ConcatEmptySeq
  <2>3. Answered = Text(mpc) \o << <<"OK", 0>>, <<"eol", 0>> >>
    BY <1>1, AnsweredIs
  <2> QED
    BY <1>1, <2>2, <2>3
<1>7. CalmLine'
  BY <1>1, <1>2, <1>5, <1>6 DEF CalmInv, CalmLine
<1>8. CalmDone'
  <2>1. /\ mpc \in {"cpin", "apn", "rndis?", "rndis", "dhcp"} => ~segment'
        /\ mpc = "setip" => ~segment'
        /\ mpc = "dhcp" \/ mpc = "rndis" => dialled'
        /\ mpc \in {"ccid", "close", "end"} /\ modem = "OK" /\ ~online => ~segment' /\ dialled'
    BY <1>1, <1>4 DEF CalmInv, CalmDone
  <2> QED
    BY <1>1, <2>1 DEF CalmInv, CalmDone
<1> QED
  BY <1>7, <1>8

(* The answer comes as a whole.                                            *)
LEMMA CalmSends ==
    ASSUME SerialIInv, CalmInv, calm, calm', ModemSends
    PROVE  CalmLine' /\ CalmDone'
<1>1. /\ owed # <<>> /\ UNCHANGED <<port, hung, readVars, buf>>
      /\ mpc' = mpc /\ apc' = apc /\ sim' = sim /\ segment' = segment
      /\ dialled' = dialled /\ online' = online /\ modem' = modem /\ simId' = simId
  BY Zenon DEF ModemSends
<1>2. owed \in Seq(Sayable) /\ line \in Seq(Sayable) /\ Len(owed) \in Nat
  BY LenProperties DEF CalmInv, ModemInv, TrueToSim
<1>3. PICK n \in 1 .. Len(owed) :
         /\ line' = line \o SubSeq(owed, 1, n)
         /\ owed' = SubSeq(owed, n + 1, Len(owed))
         /\ calm' = (calm /\ n = Len(owed))
  BY <1>2, SendsIs
<1>4. n = Len(owed)
  BY <1>3
<1>5. apc = "select" /\ owed = Answered /\ line = <<>>
  BY <1>1, FxTypes DEF CalmInv, ModemInv, CalmLine
<1>6. line' = Answered
  <2>1. SubSeq(owed, 1, n) = owed
    BY <1>2, <1>4, SubSeqFull
  <2>2. <<>> \o owed = owed
    BY <1>2, ConcatEmptySeq
  <2> QED
    BY <1>3, <1>5, <2>1, <2>2
<1>7. owed' = <<>>
  <2>1. n + 1 \in Nat /\ n + 1 > Len(owed)
    BY <1>2, <1>4
  <2> QED
    BY <1>2, <1>3, <2>1, Behind
<1>8. Answered' = Answered
  BY <1>1, AnsweredStays
<1>9. CalmLine'
  BY <1>1, <1>5, <1>6, <1>7, <1>8 DEF CalmInv, CalmLine
<1>10. CalmDone'
  BY <1>1 DEF CalmInv, CalmDone
<1> QED
  BY <1>9, <1>10

(* Readable finds the answer whole, and serial_read takes it piece by      *)
(* piece.                                                                  *)
LEMMA CalmReadable ==
    ASSUME SerialIInv, CalmInv, calm, Readable
    PROVE  CalmLine' /\ CalmDone'
<1>1. /\ apc = "select" /\ (line # <<>> \/ hung) /\ apc' = "read"
      /\ count' = RespLen /\ t' = 0 /\ buf' = buf
      /\ UNCHANGED <<port, lineVars, mpc, modemVars, online, modem, simId, calm, credit>>
  BY DEF Readable, ReadStart
<1>2. /\ line' = line /\ hung' = hung /\ owed' = owed /\ sim' = sim
      /\ segment' = segment /\ dialled' = dialled
  BY <1>1 DEF lineVars, modemVars
<1>3. ~hung /\ line = Answered /\ owed = <<>> /\ (mpc # "setip" => buf = <<>>)
  BY <1>1 DEF CalmInv, CalmLine
<1>4. Answered' = Answered
  BY <1>1, <1>2, AnsweredStays
<1>5. Len(Answered) \in Nat /\ Len(buf) \in Nat
  <2>1. mpc \in Commands
    BY <1>1 DEF CalmInv, ModemInv, ModemCalls
  <2> QED
    BY <2>1, AnsweredIs, LenProperties DEF CalmInv, ModemInv, TrueToSim
<1>6. InResp(0)'
  BY <1>1, <1>2, <1>3, <1>4, <1>5, EmptySeq DEF InResp
<1>7. CalmLine'
  BY <1>1, <1>2, <1>3, <1>4, <1>5, <1>6 DEF CalmLine
<1>8. CalmDone'
  BY <1>1, <1>2 DEF CalmInv, CalmDone
<1> QED
  BY <1>7, <1>8

(* As above.                                                               *)
LEMMA CalmReading ==
    ASSUME SerialIInv, CalmInv, calm, Reading
    PROVE  CalmLine' /\ CalmDone'
<1>1. ReadStep /\ apc = "read" /\ mpc' = mpc /\ apc' = apc /\ owed' = owed /\ sim' = sim
      /\ segment' = segment /\ dialled' = dialled /\ online' = online /\ modem' = modem
      /\ simId' = simId
  BY DEF Reading, fxVars
<1>2. Answered' = Answered
  BY <1>1, AnsweredStays
<1>3. PICK k \in 0 .. Len(Answered) : InResp(k)
  BY <1>1 DEF CalmInv, CalmLine
<1>4. ~hung /\ owed = <<>> /\ count = RespLen /\ mpc \in Commands
  BY <1>1 DEF CalmInv, CalmLine, ModemInv, ModemCalls
<1>5. Len(Answered) \in {2, 3}
  BY <1>4, AnsweredIs
<1>6. line \in Seq(Sayable) /\ buf \in Seq(Sayable) /\ Written
      /\ Len(line) \in Nat /\ Len(buf) \in Nat
  BY LenProperties DEF CalmInv, ModemInv, TrueToSim
<1>7. hung' = hung /\ count' = count
  BY <1>1, <1>6, ReadKeeps
<1> DEFINE A == Answered
           n == Len(A)
<1>8. /\ n \in Nat /\ k \in Nat /\ k <= n /\ Len(line) = n - k
      /\ k <= Len(buf) /\ (mpc # "setip" => Len(buf) = k)
      /\ t = k \/ (k = n /\ (t < k \/ t = Word - 1))
  BY <1>3, <1>5 DEF InResp
<1>9. \A i \in 1 .. n - k : line[i] = A[k + i]
  BY <1>3, <1>8 DEF InResp
<1>10. \A i \in 1 .. k : buf[i] = A[i]
  BY <1>3 DEF InResp
<1>11. ASSUME NEW j \in 0 .. n, Len(line') = n - j,
              \A i \in 1 .. Len(line') : line'[i] = A[j + i],
              j <= Len(buf'), mpc # "setip" => Len(buf') = j,
              \A i \in 1 .. j : buf'[i] = A[i],
              t' = j \/ (j = n /\ (t' < j \/ t' = Word - 1))
       PROVE  InResp(j)'
  BY <1>1, <1>2, <1>11 DEF InResp
<1>12. \E j \in 0 .. n : InResp(j)'
  <2>1. CASE ReadSome
    <3>1. PICK m \in 1 .. Len(line) :
             /\ t \in Nat /\ t' = t + m
             /\ Len(line') = Len(line) - m
             /\ \A i \in 1 .. Len(line) - m : line'[i] = line[m + i]
             /\ Len(buf') = IF t + m <= Len(buf) THEN Len(buf) ELSE t + m
             /\ \A i \in 1 .. t : buf'[i] = buf[i]
             /\ \A i \in 1 .. m : buf'[t + i] = line[i]
      BY <1>6, <2>1, SomeIsTaken
    <3>2. t = k /\ m \in Nat /\ m >= 1 /\ m <= n - k
      <4>1. m \in Nat /\ m >= 1 /\ m <= Len(line)
        BY <1>6
      <4>2. k # n
        BY <1>8, <4>1
      <4> QED
        BY <1>8, <4>1, <4>2
    <3>3. PICK j \in 0 .. n : j = k + m
      BY <1>8, <3>2
    <3> HIDE DEF A, n
    <3>4. Len(line') = n - j /\ t' = j
      BY <1>8, <3>1, <3>2, <3>3
    <3>5. \A i \in 1 .. Len(line') : line'[i] = A[j + i]
      <4> TAKE i \in 1 .. Len(line')
      <4>1. i \in 1 .. Len(line) - m /\ m + i \in 1 .. n - k /\ k + (m + i) = j + i
        BY <1>8, <3>1, <3>2, <3>3, <3>4
      <4>2. line'[i] = line[m + i]
        BY <3>1, <4>1
      <4>3. line[m + i] = A[k + (m + i)]
        BY <1>9, <4>1
      <4> QED
        BY <4>1, <4>2, <4>3
    <3>6. j <= Len(buf') /\ (mpc # "setip" => Len(buf') = j)
      BY <1>6, <1>8, <3>1, <3>2, <3>3
    <3>7. \A i \in 1 .. j : buf'[i] = A[i]
      <4> TAKE i \in 1 .. j
      <4>1. CASE i \in 1 .. k
        <5>1. buf'[i] = buf[i]
          BY <3>1, <3>2, <4>1
        <5> QED
          BY <1>10, <4>1, <5>1
      <4>2. CASE ~ (i \in 1 .. k)
        <5> DEFINE e == i - k
        <5>1. e \in 1 .. m /\ i = k + e /\ e \in 1 .. n - k
          BY <1>8, <3>2, <3>3, <4>2
        <5> HIDE DEF e
        <5>2. buf'[k + e] = line[e]
          BY <3>1, <3>2, <5>1
        <5>3. line[e] = A[k + e]
          BY <1>9, <5>1
        <5> QED
          BY <5>1, <5>2, <5>3
      <4> QED
        BY <4>1, <4>2
    <3>8. InResp(j)'
      BY <1>11, <3>4, <3>5, <3>6, <3>7
    <3> QED
      BY <3>8
  <2>2. CASE ReadNothing
    <3>1. /\ line = <<>> /\ line' = line /\ buf' = buf /\ rpc = "reading"
          /\ t' = IF t = 0 THEN Word - 1 ELSE t - 1
      BY <2>2 DEF ReadNothing, lineVars
    <3>2. k = n /\ Len(line) = 0
      BY <1>8, <3>1, EmptySeq
    <3>3. t \in Nat /\ t # Word - 1
      BY <3>1, SerialAssumption DEF SerialIInv, SerialTypeOK, Looping
    <3>4. t' = Word - 1 \/ t' < k
      BY <1>8, <3>1, <3>2, <3>3
    <3>5. \A i \in 1 .. Len(line') : line'[i] = A[k + i]
      BY <3>1, <3>2
    <3>6. Len(line') = n - k /\ k <= Len(buf') /\ (mpc # "setip" => Len(buf') = k)
          /\ k \in 0 .. n
      BY <1>8, <3>1
    <3>7. \A i \in 1 .. k : buf'[i] = A[i]
      BY <1>10, <3>1
    <3>8. InResp(k)'
      <4> HIDE DEF A, n
      <4> QED
        BY <1>11, <3>2, <3>4, <3>5, <3>6, <3>7
    <3> QED
      BY <3>6, <3>8
  <2>3. CASE ReadHungUp
    BY <1>4, <2>3 DEF ReadHungUp
  <2> QED
    BY <1>1, <2>1, <2>2, <2>3 DEF ReadStep
<1>13. CalmLine'
  BY <1>1, <1>2, <1>4, <1>7, <1>12 DEF CalmLine
<1>14. CalmDone'
  BY <1>1 DEF CalmInv, CalmDone
<1> QED
  BY <1>13, <1>14

(* When serial_read returns the answer is in resp, from its beginning.     *)
LEMMA CalmResp ==
    ASSUME SerialIInv, CalmInv, calm, apc = "read", rpc = "back"
    PROVE  /\ line = <<>> /\ owed = <<>> /\ mpc \in Commands
           /\ HasOk(Resp) /\ Has(Resp, "OK")
           /\ mpc \notin Short => Resp[1][1] = Said
           /\ mpc \notin Short => \A w : w # "OK" /\ w # "eol" => (Has(Resp, w) <=> Said = w)
<1> DEFINE A == Answered
           n == Len(A)
<1>1. PICK k \in 0 .. n : InResp(k)
  BY DEF CalmInv, CalmLine
<1>2. ~hung /\ owed = <<>> /\ count = RespLen /\ mpc \in Commands /\ port = "open"
  BY DEF CalmInv, CalmLine, ModemInv, ModemCalls
<1>3. /\ n \in {2, 3} /\ A[n - 1] = <<"OK", 0>> /\ A[n] = <<"eol", 0>>
      /\ mpc \notin Short => n = 3 /\ A[1] = <<Said, 0>>
  BY <1>2, AnsweredIs
<1>4. /\ Len(line) = n - k /\ k <= Len(buf) /\ (mpc # "setip" => Len(buf) = k)
      /\ \A i \in 1 .. k : buf[i] = A[i]
      /\ t = k \/ (k = n /\ (t < k \/ t = Word - 1))
  BY <1>1 DEF InResp
<1>5. /\ Resp \in Seq(Sayable) /\ Len(Resp) <= Len(buf)
      /\ \A i \in 1 .. Len(Resp) : Resp[i] = buf[i]
      /\ t = Word - 1 => Resp = buf
      /\ t # Word - 1 => Len(Resp) = t
  BY RespIs DEF CalmInv, ModemInv, TrueToSim
<1>6. Len(Resp) \in Nat /\ Len(buf) \in Nat /\ DOMAIN Resp = 1 .. Len(Resp) /\ line \in Seq(Sayable)
  BY <1>5, LenProperties DEF CalmInv, ModemInv, TrueToSim
<1>7. t \in Nat /\ (t = Word - 1 \/ t >= RespLen - 1) /\ RespLen \in Nat /\ RespLen >= 4
      /\ Word \in Nat /\ Word > 4
  <2>1. t = Word - 1 \/ t >= count - 1
    BY <1>2 DEF SerialIInv, ShortReadsAreLost
  <2>2. t \in Nat /\ Word \in Nat
    BY SerialAssumption DEF SerialIInv, SerialTypeOK
  <2>3. RespLen \in Nat /\ RespLen >= 4 /\ RespLen <= MaxCount /\ MaxCount \in Nat
    BY RespAssumption, SerialAssumption
  <2>4. Word > 4
    BY <2>3, SerialAssumption
  <2> QED
    BY <1>2, <2>1, <2>2, <2>3, <2>4
<1> HIDE DEF A, n
<1>8. n \in Nat /\ k \in Nat /\ k <= n /\ n >= 2 /\ n <= 3
  BY <1>1, <1>3
<1>9. k = n /\ (t = Word - 1 \/ t = n)
  BY <1>4, <1>7, <1>8
<1>10. /\ n <= Len(Resp) /\ (mpc # "setip" => Len(Resp) = n)
       /\ \A i \in 1 .. n : Resp[i] = A[i]
  <2>1. n <= Len(Resp) /\ (mpc # "setip" => Len(Resp) = n)
    BY <1>4, <1>5, <1>9
  <2> QED
    BY <1>4, <1>5, <1>6, <1>8, <1>9, <2>1
<1>11. line = <<>>
  BY <1>4, <1>6, <1>8, <1>9, EmptySeq
<1>12. Resp[n - 1] = <<"OK", 0>> /\ Resp[n] = <<"eol", 0>>
  BY <1>3, <1>8, <1>10
<1>13. HasOk(Resp)
  <2>1. n - 1 \in 1 .. Len(Resp) - 1 /\ (n - 1) + 1 = n
    <3>1. n <= Len(Resp) /\ Len(Resp) \in Nat
      BY <1>6, <1>10
    <3> QED
      BY <1>8, <3>1
  <2>2. Resp[n - 1][1] = "OK" /\ Resp[(n - 1) + 1][1] = "eol"
    BY <1>12, <2>1
  <2> QED
    BY <2>1, <2>2 DEF HasOk
<1>14. Has(Resp, "OK")
  <2>1. n - 1 \in DOMAIN Resp
    <3>1. n <= Len(Resp) /\ Len(Resp) \in Nat /\ DOMAIN Resp = 1 .. Len(Resp)
      BY <1>6, <1>10
    <3> QED
      BY <1>8, <3>1
  <2> QED
    BY <1>12, <2>1 DEF Has
<1>15. ASSUME mpc \notin Short
       PROVE  /\ Resp[1][1] = Said
              /\ \A w : w # "OK" /\ w # "eol" => (Has(Resp, w) <=> Said = w)
  <2>1. n = 3 /\ Len(Resp) = 3
    BY <1>3, <1>10, <1>15 DEF Short
  <2>2. Resp[1][1] = Said /\ Resp[2][1] = "OK" /\ Resp[3][1] = "eol"
    BY <1>3, <1>10, <1>12, <1>15, <2>1
  <2>3. DOMAIN Resp = {1, 2, 3}
    BY <1>6, <2>1
  <2> QED
    BY <2>2, <2>3 DEF Has
<1> QED
  BY <1>2, <1>11, <1>13, <1>14, <1>15

(* send_at_command returns FX650_OK, and fx650_init goes by the answer.    *)
LEMMA CalmLook ==
    ASSUME SerialIInv, CalmInv, calm, Look
    PROVE  CalmLine' /\ CalmDone'
<1>1. /\ apc = "read" /\ rpc = "back"
      /\ UNCHANGED <<port, lineVars, count, modemVars, online, calm>>
  BY LookIs
<1>2. /\ line' = line /\ hung' = hung /\ owed' = owed
      /\ segment' = segment /\ dialled' = dialled /\ online' = online
  BY <1>1 DEF lineVars, modemVars
<1>3. /\ line = <<>> /\ owed = <<>> /\ mpc \in Commands
      /\ HasOk(Resp) /\ Has(Resp, "OK")
      /\ mpc \notin Short => Resp[1][1] = Said
      /\ mpc \notin Short => \A w : w # "OK" /\ w # "eol" => (Has(Resp, w) <=> Said = w)
  BY <1>1, CalmResp
<1>4. apc' = "idle" /\ AfterCommand("OK", Resp) /\ buf' = Kept(Resp)
  BY <1>3, LookIs
<1>5. ~hung
  BY DEF CalmInv, CalmLine
<1>6. mpc' # "setip" => buf' = <<>>
  BY <1>4 DEF Kept
<1>7. CalmLine'
  BY <1>2, <1>3, <1>4, <1>5, <1>6 DEF CalmLine
<1>8. CASE mpc = "at"
  <2>1. mpc' = "curl"
    BY <1>4, <1>8, AfterEach DEF Then
  <2> QED
    BY <1>7, <2>1 DEF CalmDone
<1>9. CASE mpc = "dhcpcfg"
  <2>1. mpc' = IF Has(Resp, "42.") THEN "setip" ELSE "cpin"
    BY <1>4, <1>9, AfterEach DEF Then
  <2>2. Has(Resp, "42.") <=> Said = "42."
    BY <1>3, <1>9 DEF Short
  <2>3. mpc' = "cpin" => ~segment
    BY <1>9, <2>1, <2>2 DEF Said
  <2> QED
    BY <1>2, <1>4, <1>7, <2>1, <2>3 DEF CalmDone
<1>10. CASE mpc = "setip"
  <2>1. mpc' = "cpin"
    BY <1>4, <1>10, AfterEach DEF Then
  <2>2. ~segment
    BY <1>1, <1>10 DEF CalmInv, CalmDone
  <2> QED
    BY <1>2, <1>7, <2>1, <2>2 DEF CalmDone
<1>11. CASE mpc = "cpin"
  <2>1. mpc' = "apn" \/ (mpc' = "ccid" /\ modem' # "OK")
    <3>1. IF Has(Resp, "READY") THEN Then("apn") ELSE Fail("ERR_SIM_NOT_READY")
      BY <1>4, <1>11, AfterEach DEF CheckSim
    <3> QED
      BY <1>11, <3>1 DEF Then, Fail
  <2>2. ~segment
    BY <1>11 DEF CalmInv, CalmDone
  <2> QED
    BY <1>2, <1>7, <2>1, <2>2 DEF CalmDone
<1>12. CASE mpc = "apn"
  <2>1. mpc' = "rndis?"
    <3>1. Then("rndis?")
      BY <1>3, <1>4, <1>12, AfterEach
    <3> QED
      BY <3>1 DEF Then
  <2>2. ~segment
    BY <1>12 DEF CalmInv, CalmDone
  <2> QED
    BY <1>2, <1>7, <2>1, <2>2 DEF CalmDone
<1>13. CASE mpc = "rndis?"
  <2>1. mpc' = IF Has(Resp, "RNDIS: 0") THEN "rndis" ELSE "dhcp"
    BY <1>4, <1>13, AfterEach DEF QueryDial, Then
  <2>2. Has(Resp, "RNDIS: 0") <=> Said = "RNDIS: 0"
    BY <1>3, <1>13 DEF Short
  <2>3. mpc' = "dhcp" => dialled
    BY <1>13, <2>1, <2>2 DEF Said
  <2>4. ~segment
    BY <1>13 DEF CalmInv, CalmDone
  <2> QED
    BY <1>2, <1>4, <1>7, <2>1, <2>3, <2>4 DEF CalmDone
<1>14. CASE mpc = "rndis"
  <2>1. mpc' = "dhcp"
    <3>1. Then("dhcp")
      BY <1>3, <1>4, <1>14, AfterEach
    <3> QED
      BY <3>1 DEF Then
  <2>2. ~segment /\ dialled
    BY <1>1, <1>14 DEF CalmInv, CalmDone
  <2> QED
    BY <1>2, <1>7, <2>1, <2>2 DEF CalmDone
<1>15. CASE mpc = "ccid"
  <2>1. Resp[1][1] = "CCID"
    BY <1>3, <1>15 DEF Short, Said
  <2>2. mpc' = "close" /\ modem' = modem /\ simId' = "CCID"
    BY <1>3, <1>4, <1>15, <2>1, AfterEach
  <2>3. modem = "OK" /\ ~online => ~segment /\ dialled
    BY <1>15 DEF CalmInv, CalmDone
  <2> QED
    BY <1>2, <1>7, <2>2, <2>3 DEF CalmDone
<1> QED
  BY <1>3, <1>8, <1>9, <1>10, <1>11, <1>12, <1>13, <1>14, <1>15 DEF Commands

(* On a calm line each step leaves what the step before has found true.    *)
LEMMA StepCalm ==
    ASSUME SerialIInv, CalmInv, FxStep
    PROVE  CalmInv'
<1>1. ModemInv'
  BY StepModem DEF CalmInv
<1>2. CASE ~calm'
  BY <1>1, <1>2 DEF CalmInv, CalmLine, CalmDone
<1>3. CASE calm'
  <2>1. calm
    BY <1>3, CalmStays DEF CalmInv, ModemInv
  <2>2. ~ (ModemUnplugged \/ ModemTalks \/ Timeout)
    BY <1>3 DEF ModemUnplugged, ModemTalks, Timeout
  <2>3. CalmLine' /\ CalmDone'
    BY <1>3, <2>1, <2>2, CalmOthers, CalmSend, CalmSends, CalmReadable, CalmReading, CalmLook
    DEF FxStep, FxProgram
  <2> QED
    BY <1>1, <2>3 DEF CalmInv
<1> QED
  BY <1>2, <1>3

-----------------------------------------------------------------------------
(* Peripherals: each unit against its line *)

(* The units that are not used stay as they were; the one that is used     *)
(* keeps its own invariant.                                                *)
Resting ==
    /\ unit # "modem" => mpc = "off" /\ credit = 0
    /\ unit # "receiver" => lpc = "off" /\ sock = "none"

PeripheralsInv ==
    /\ unit \in {"ssh", "modem", "receiver"}
    /\ IInv /\ SerialIInv /\ FxTypeOK /\ LaneTypeOK /\ Resting
    /\ unit = "modem" => CalmInv /\ OksCovered
    /\ unit = "receiver" => OrderInv

(* fx650_init begins with nothing asked and nothing on the line.           *)
LEMMA ModemBegins ==
    ASSUME SerialInit, FxInit
    PROVE  /\ FxTypeOK
           /\ mpc = "find" => CalmInv /\ OksCovered
<1>1. FxTypeOK
  <2>1. /\ mpc \in Commands \union {"off", "find", "open", "curl", "stuck", "dhcp", "close", "end"}
        /\ apc \in {"idle", "select", "read"}
        /\ modem \in Failures \union {"none", "OK"}
        /\ simId \in {"none", "CCID", "other"}
        /\ credit \in Int
    BY DEF FxInit
  <2>2. {sim, segment, dialled, online, calm} \subseteq BOOLEAN
    BY Zenon DEF FxInit
  <2> QED
    BY <2>1, <2>2 DEF FxTypeOK
<1>2. ASSUME mpc = "find" PROVE CalmInv /\ OksCovered
  <2>1. ModemCalls /\ SimKnown
    BY <1>2 DEF ModemCalls, SimKnown, Commands, FxInit, SerialInit
  <2>2. Written
    BY SerialAssumption, EmptySeq DEF Written, SerialInit
  <2>3. TrueToSim
    BY EmptySeq DEF TrueToSim, FxInit, SerialInit
  <2>4. CalmLine
    BY <1>2 DEF CalmLine, FxInit, SerialInit
  <2>5. CalmDone
    BY <1>2 DEF CalmDone, FxInit
  <2>6. OksCovered
    BY <1>2, EndsEmpty DEF OksCovered, Slack, FxInit, SerialInit
  <2> QED
    BY <1>1, <2>1, <2>2, <2>3, <2>4, <2>5, <2>6 DEF CalmInv, ModemInv
<1> QED
  BY <1>1, <1>2

(* The ticks begin with the receiver somewhere in its first epoch, and an  *)
(* empty line.                                                             *)
LEMMA ReceiverBegins ==
    ASSUME SerialInit, LaneInit
    PROVE  /\ LaneTypeOK
           /\ lpc = "sock" => OrderInv
<1> USE LaneAssumption
<1>1. LaneTypeOK
  <2>1. emitted \in 0 .. 3 * MaxEpoch
    BY DEF LaneInit
  <2>2. early = 0 /\ late = 0 /\ sent[1] = 0 /\ sent[2] = 0 /\ 0 \in 0 .. MaxEpoch
    BY DEF LaneInit
  <2> QED
    BY <2>1, <2>2 DEF LaneInit, LaneTypeOK
<1>2. ASSUME lpc = "sock" PROVE OrderInv
  <2>1. LaneCalls
    BY <1>2 DEF LaneCalls, LaneInit, SerialInit
  <2>2. Written
    BY SerialAssumption, EmptySeq DEF Written, SerialInit
  <2>3. line \in Seq(Dated) /\ buf \in Seq(Dated) /\ sent = <<early, late>>
    BY EmptySeq DEF LaneInit, SerialInit
  <2>4. LineOrder
    BY EmptySeq DEF LineOrder, Now, LaneInit, SerialInit
  <2>5. BufferOrder
    BY DEF BufferOrder, SerialInit
  <2>6. SockOrder
    BY EmptySeq DEF SockOrder, LaneInit, SerialInit
  <2> QED
    BY <1>1, <2>1, <2>2, <2>3, <2>4, <2>5, <2>6 DEF OrderInv, LaneInv
<1> QED
  BY <1>1, <1>2

(* So the invariant holds whichever unit is used.                          *)
LEMMA PeripheralsInit == Init => PeripheralsInv
<1> SUFFICES ASSUME Init PROVE PeripheralsInv
  OBVIOUS
<1>1. /\ unit \in {"ssh", "modem", "receiver"}
      /\ SshInit /\ SerialInit /\ FxInit /\ LaneInit
      /\ unit = "modem" => mpc = "find"
      /\ unit # "modem" => mpc = "off"
      /\ unit = "receiver" => lpc = "sock"
      /\ unit # "receiver" => lpc = "off"
  BY DEF Init
<1>2. IInv /\ SerialIInv
  BY <1>1, InitInvariant, SerialInitInvariant
<1>3. Resting
  BY <1>1 DEF Resting, FxInit, LaneInit
<1> QED
  BY <1>1, <1>2, <1>3, ModemBegins, ReceiverBegins DEF PeripheralsInv

(* A unit that is not used keeps its types.                                *)
LEMMA UnusedStay ==
    /\ UNCHANGED sshVars /\ IInv => IInv'
    /\ UNCHANGED serialVars /\ SerialIInv => SerialIInv'
    /\ UNCHANGED fxVars /\ FxTypeOK => FxTypeOK'
    /\ UNCHANGED laneVars /\ LaneTypeOK => LaneTypeOK'
<1>1. UNCHANGED sshVars /\ IInv => IInv'
  BY StepInvariant
<1>2. UNCHANGED serialVars /\ SerialIInv => SerialIInv'
  BY SerialStepInvariant
<1>3. UNCHANGED fxVars /\ FxTypeOK => FxTypeOK'
  BY DEF fxVars, FxTypeOK
<1>4. UNCHANGED laneVars /\ LaneTypeOK => LaneTypeOK'
  BY DEF laneVars, LaneTypeOK
<1> QED
  BY <1>1, <1>2, <1>3, <1>4

(* A step of a function that uses an SSH client.                           *)
LEMMA SshMoves ==
    ASSUME PeripheralsInv, unit = "ssh", unit' = unit, SshStep,
           UNCHANGED <<serialVars, fxVars, laneVars>>
    PROVE  PeripheralsInv'
<1>1. UNCHANGED serialVars /\ UNCHANGED fxVars /\ UNCHANGED laneVars
  OBVIOUS
<1>2. IInv'
  BY StepInvariant DEF PeripheralsInv
<1>3. Resting'
  BY <1>1 DEF Resting, PeripheralsInv, fxVars, laneVars
<1>4. SerialIInv' /\ FxTypeOK' /\ LaneTypeOK'
  BY <1>1, UnusedStay DEF PeripheralsInv
<1> QED
  BY <1>2, <1>3, <1>4 DEF PeripheralsInv

(* A step of fx650_init or of the modem.                                   *)
LEMMA ModemMoves ==
    ASSUME PeripheralsInv, unit = "modem", unit' = unit, FxStep,
           UNCHANGED <<sshVars, laneVars>>
    PROVE  PeripheralsInv' /\ [SerialNext]_serialVars
<1>1. SerialIInv /\ CalmInv /\ ModemInv /\ OksCovered
  BY DEF PeripheralsInv, CalmInv
<1>2. ModemInv' /\ [SerialNext]_serialVars
  BY <1>1, StepModem
<1>3. SerialIInv'
  BY <1>1, <1>2, SerialStepInvariant
<1>4. CalmInv' /\ OksCovered'
  BY <1>1, StepCalm, StepCovered
<1>5. Resting'
  BY DEF Resting, PeripheralsInv, laneVars
<1>6. IInv' /\ LaneTypeOK'
  BY UnusedStay DEF PeripheralsInv
<1>7. FxTypeOK'
  BY <1>2 DEF ModemInv
<1> QED
  BY <1>2, <1>3, <1>4, <1>5, <1>6, <1>7 DEF PeripheralsInv

(* A step of the timer thread or of the receiver.                          *)
LEMMA ReceiverMoves ==
    ASSUME PeripheralsInv, unit = "receiver", unit' = unit, LaneStep,
           UNCHANGED <<sshVars, fxVars>>
    PROVE  PeripheralsInv' /\ [SerialNext]_serialVars
<1>1. SerialIInv /\ OrderInv /\ LaneInv
  BY DEF PeripheralsInv, OrderInv
<1>2. LaneInv' /\ [SerialNext]_serialVars
  BY <1>1, StepReceiver
<1>3. SerialIInv'
  BY <1>1, <1>2, SerialStepInvariant
<1>4. OrderInv'
  BY <1>1, StepOrder
<1>5. Resting'
  BY DEF Resting, PeripheralsInv, fxVars
<1>6. IInv' /\ FxTypeOK'
  BY UnusedStay DEF PeripheralsInv
<1>7. LaneTypeOK'
  BY <1>2 DEF LaneInv
<1> QED
  BY <1>2, <1>3, <1>4, <1>5, <1>6, <1>7 DEF PeripheralsInv

(* Nothing moves.                                                          *)
LEMMA NothingMoves ==
    ASSUME PeripheralsInv, UNCHANGED vars
    PROVE  PeripheralsInv'
<1>1. /\ unit' = unit
      /\ UNCHANGED sshVars /\ UNCHANGED serialVars /\ UNCHANGED fxVars /\ UNCHANGED laneVars
  BY DEF vars
<1>2. Resting'
  BY <1>1 DEF Resting, PeripheralsInv, fxVars, laneVars
<1>3. IInv' /\ SerialIInv' /\ FxTypeOK' /\ LaneTypeOK'
  BY <1>1, UnusedStay DEF PeripheralsInv
<1>4. CalmInv /\ OksCovered => CalmInv' /\ OksCovered'
  <2> USE <1>1 DEF fxVars, serialVars
  <2>1. FxTypeOK /\ ModemCalls /\ Written /\ SimKnown =>
          FxTypeOK' /\ ModemCalls' /\ Written' /\ SimKnown'
    BY DEF FxTypeOK, ModemCalls, Written, SimKnown
  <2>2. Sayable' = Sayable
    BY DEF Sayable
  <2>3. TrueToSim => TrueToSim'
    BY <2>2 DEF TrueToSim
  <2>4. Answered' = Answered
    BY DEF Answered, Said
  <2>5. CalmLine => CalmLine'
    BY <2>4 DEF CalmLine, InResp
  <2>6. CalmDone => CalmDone'
    BY DEF CalmDone
  <2>7. OksCovered => OksCovered'
    BY DEF OksCovered, Slack
  <2> QED
    BY <2>1, <2>3, <2>5, <2>6, <2>7 DEF CalmInv, ModemInv
<1>5. OrderInv => OrderInv'
  BY <1>1 DEF OrderInv, LaneInv, LaneTypeOK, LaneCalls, Written, LineOrder, Now, BufferOrder,
    SockOrder, laneVars, serialVars
<1> QED
  BY <1>1, <1>2, <1>3, <1>4, <1>5 DEF PeripheralsInv

(* Every step, whichever unit takes it, keeps the invariant, and the port  *)
(* is used in the order of calls SerialPort allows.                        *)
LEMMA PeripheralsStep ==
    ASSUME PeripheralsInv, [Next]_vars
    PROVE  PeripheralsInv' /\ [SerialNext]_serialVars
<1>1. CASE UNCHANGED vars
  BY <1>1, NothingMoves DEF vars
<1>2. CASE Next
  <2>1. CASE unit = "ssh" /\ SshStep /\ UNCHANGED <<serialVars, fxVars, laneVars>>
    BY <1>2, <2>1, SshMoves DEF Next
  <2>2. CASE unit = "modem" /\ FxStep /\ UNCHANGED <<sshVars, laneVars>>
    BY <1>2, <2>2, ModemMoves DEF Next
  <2>3. CASE unit = "receiver" /\ LaneStep /\ UNCHANGED <<sshVars, fxVars>>
    BY <1>2, <2>3, ReceiverMoves DEF Next
  <2> QED
    BY <1>2, <2>1, <2>2, <2>3 DEF Next
<1> QED
  BY <1>1, <1>2

(* A frame that goes out is sent by the timer thread.                      *)
LEMMA FrameStep ==
    ASSUME PeripheralsInv, [Next]_vars, sent' # sent
    PROVE  /\ sent'[1] >= sent[1] /\ sent'[2] >= sent[2]
           /\ sent'[1] # sent'[2] => via = "uart"
<1>1. ~ UNCHANGED laneVars
  BY DEF laneVars
<1>2. unit = "receiver" /\ LaneStep
  BY <1>1 DEF Next, vars
<1> QED
  BY <1>2, StepOrder DEF PeripheralsInv

-----------------------------------------------------------------------------
(* The invariant holds whichever unit is used.                             *)
LEMMA PeripheralsInvariant == Spec => []PeripheralsInv
<1> QED
  BY PeripheralsInit, PeripheralsStep, PTL DEF Spec

(* Type correctness of all the units together.                             *)
THEOREM AllTypesCorrect == Spec => []TypeOK
<1>1. PeripheralsInv => TypeOK
  BY DEF PeripheralsInv, TypeOK, IInv, SerialIInv
<1> QED
  BY PeripheralsInvariant, <1>1, PTL

(* fx650_init and the thread that reads the receiver open, read and close  *)
(* the port in the order of calls of SerialPort: they implement it, so     *)
(* that what is proved of it holds of them.                                *)
THEOREM UsersKeepOrder == Spec => SerialSpec
<1>1. Init => SerialInit
  BY DEF Init
<1>2. PeripheralsInv /\ [Next]_vars => [SerialNext]_serialVars
  BY PeripheralsStep
<1> QED
  BY <1>1, <1>2, PeripheralsInvariant, PTL DEF Spec, SerialSpec

(* What was proved of clients and of the port by themselves holds of them  *)
(* in the hands of these users.                                            *)
THEOREM PartsStayTrue == Spec => [](ClientsReleased /\ SuccessIsTrue /\ ReadsAreFull)
<1>1. PeripheralsInv => ClientsReleased
  BY DEF PeripheralsInv, IInv, ClientsReleased
<1>2. PeripheralsInv => SuccessIsTrue
  <2>1. IInv => AddressKnown
    BY DEF IInv, BootKnows, AddressKnown
  <2>2. IInv => ScriptIntact
    BY DEF IInv
  <2>3. IInv => ToldWhole
    BY DEF IInv, FileKnown, WaveSpoiled, ToldWhole
  <2>4. PeripheralsInv => IInv
    BY DEF PeripheralsInv
  <2> QED
    BY <2>1, <2>2, <2>3, <2>4 DEF SuccessIsTrue
<1>3. PeripheralsInv => ReadsAreFull
  BY DEF PeripheralsInv, SerialIInv, ReadsAreFull
<1> QED
  BY PeripheralsInvariant, <1>1, <1>2, <1>3, PTL

(* After fx650_init and after laneTo_uninit neither the port nor the       *)
(* socket is open, on every way out of them.                               *)
THEOREM PortsStayClosed == Spec => []PortsClosed
<1>1. PeripheralsInv => PortsClosed
  <2> SUFFICES ASSUME PeripheralsInv PROVE PortsClosed
    OBVIOUS
  <2>1. mpc = "end" => port = "closed" /\ sock = "none"
    <3> HAVE mpc = "end"
    <3>1. unit = "modem"
      BY DEF PeripheralsInv, Resting
    <3> QED
      BY <3>1 DEF PeripheralsInv, Resting, CalmInv, ModemInv, ModemCalls
  <2>2. lpc = "closed" => port # "open" /\ sock # "open"
    BY DEF PeripheralsInv, Resting, OrderInv, LaneInv, LaneCalls
  <2> QED
    BY <2>1, <2>2 DEF PortsClosed
<1> QED
  BY PeripheralsInvariant, <1>1, PTL

(* send_at_command returns FX650_OK for no more commands than the modem    *)
(* has ended with OK, and one, however late and in whatever pieces the     *)
(* answers come.                                                           *)
THEOREM OksAreOwed == Spec => []EveryOkIsOwed
<1>1. PeripheralsInv => EveryOkIsOwed
  <2> SUFFICES ASSUME PeripheralsInv PROVE EveryOkIsOwed
    OBVIOUS
  <2>1. CASE unit = "modem"
    BY <2>1, CoveredIsOwed DEF PeripheralsInv, CalmInv
  <2>2. CASE unit # "modem"
    BY <2>2 DEF PeripheralsInv, Resting, EveryOkIsOwed
  <2> QED
    BY <2>1, <2>2
<1> QED
  BY PeripheralsInvariant, <1>1, PTL

(* fx650_init reports that it has connected only with a SIM card that is   *)
(* ready; on a line where nothing is late, cut or refused only when it has *)
(* reached the internet or the modem has dialled, off its own segment.     *)
THEOREM OkStaysTrue == Spec => []OkIsTrue
<1>1. PeripheralsInv => OkIsTrue
  <2> SUFFICES ASSUME PeripheralsInv, mpc = "end", modem = "OK"
               PROVE  /\ ~online => sim
                      /\ calm => simId = "CCID" /\ (online \/ (dialled /\ ~segment))
    BY DEF OkIsTrue, ReadyWasSaid, CleanLineConnects
  <2>1. unit = "modem"
    BY DEF PeripheralsInv, Resting
  <2>2. SimKnown /\ CalmDone
    BY <2>1 DEF PeripheralsInv, CalmInv, ModemInv
  <2> QED
    BY <2>2 DEF SimKnown, CalmDone
<1> QED
  BY PeripheralsInvariant, <1>1, PTL

(* No frame is older than the one before it, in either part, and one with  *)
(* fields of two epochs comes from the serial line only.                   *)
THEOREM FramesStayInOrder == Spec => FramesInOrder
<1>1. PeripheralsInv /\ [Next]_vars =>
        [ /\ sent'[1] >= sent[1] /\ sent'[2] >= sent[2]
          /\ sent'[1] # sent'[2] => via = "uart" ]_sent
  BY FrameStep
<1> QED
  BY <1>1, PeripheralsInvariant, PTL DEF Spec, FramesInOrder


-----------------------------------------------------------------------------
(* The numbers in the messages (Codec), for every argument *)

(* The two decimal digits of a number, and its BCD. *)
LEMMA Digits ==
    ASSUME NEW x \in 0 .. 99
    PROVE  /\ x \div 10 \in 0 .. 9 /\ x % 10 \in 0 .. 9
           /\ x = (x \div 10) * 10 + (x % 10)
           /\ byte_to_bcd(x) = (x \div 10) * 16 + (x % 10)
  BY DEF byte_to_bcd, U8

(* A byte with two decimal digits, month or minute, say, survives the way  *)
(* into a message and out of it.                                           *)
THEOREM ByteRoundTrip == \A x \in 0 .. 99 : bcd_to_byte(byte_to_bcd(x)) = x
<1> TAKE x \in 0 .. 99
<1>1. PICK h \in 0 .. 9, l \in 0 .. 9 : x = h * 10 + l /\ byte_to_bcd(x) = h * 16 + l
  BY Digits
<1>2. ((h * 16 + l) \div 16) % 16 = h /\ (h * 16 + l) % 16 = l
  OBVIOUS
<1> QED
  BY <1>1, <1>2 DEF bcd_to_byte

(* What the two bytes of a number of four digits become, h its hundreds.   *)
LEMMA Numbers ==
    ASSUME NEW h \in 0 .. 99, NEW l \in 0 .. 99
    PROVE  bcd_to_db(U16(byte_to_bcd(h) * 256 + byte_to_bcd(l))) = h * 100 + l
<1>1. PICK a \in 0 .. 9, b \in 0 .. 9 : h = a * 10 + b /\ byte_to_bcd(h) = a * 16 + b
  BY Digits
<1>2. PICK c \in 0 .. 9, d \in 0 .. 9 : l = c * 10 + d /\ byte_to_bcd(l) = c * 16 + d
  BY Digits
<1> DEFINE y == a * 4096 + b * 256 + c * 16 + d
<1>3. U16(byte_to_bcd(h) * 256 + byte_to_bcd(l)) = y
  BY <1>1, <1>2 DEF U16
<1>4. (y \div 4096) % 16 = a
  OBVIOUS
<1>5. (y \div 256) % 16 = b
  <2>1. y \div 256 = a * 16 + b
    OBVIOUS
  <2> QED
    BY <2>1
<1>6. (y \div 16) % 16 = c
  <2>1. y \div 16 = (a * 16 + b) * 16 + c
    OBVIOUS
  <2> QED
    BY <2>1
<1>7. y % 16 = d
  OBVIOUS
<1>8. bcd_to_db(y) = a * 1000 + b * 100 + c * 10 + d
  BY <1>4, <1>5, <1>6, <1>7 DEF bcd_to_db
<1> QED
  BY <1>1, <1>2, <1>3, <1>8

(* A device number of four digits, written here with its hundreds h, does  *)
(* too.                                                                    *)
THEOREM NumberRoundTrip ==
    ASSUME NEW h \in 0 .. 99, NEW l \in 0 .. 99
    PROVE  bcd_to_db(db_to_bcd(h * 100 + l)) = h * 100 + l
<1>1. (h * 100 + l) \div 100 = h /\ (h * 100 + l) % 100 = l /\ h % 256 = h
  OBVIOUS
<1>2. db_to_bcd(h * 100 + l) = U16(byte_to_bcd(h) * 256 + byte_to_bcd(l))
  BY <1>1 DEF db_to_bcd, U8
<1> QED
  BY <1>2, Numbers

(* The age of the differential correction never reaches the cloud: the     *)
(* swap of two bytes moves it out of the one byte it is then put into.     *)
THEOREM TimeDiffIsLost == \A x \in 0 .. 255 : TimeDiff(x) = 0
  BY DEF TimeDiff, bswap_16, U8

(* Checksums held in a signed variable and compared with an unsigned one   *)
(* agree below 32768 only: the event thread drops every frame above.       *)
THEOREM ChecksumsAgreeBelow ==
    ASSUME NEW x \in Nat, x < 65536
    PROVE  Int16(x) = x <=> x < 32768
<1>1. CASE x < 32768
  BY <1>1 DEF Int16
<1>2. CASE ~(x < 32768)
  BY <1>2 DEF Int16
<1> QED
  BY <1>1, <1>2
=============================================================================
