--------------------------- MODULE TlogRingProofs ----------------------------
(***************************************************************************)
(* Theorems about the ring buffer of the log for every number of threads   *)
(* that log, every size of the ring that tlog_init accepts and every line  *)
(* that fits it.                                                           *)
(*                                                                         *)
(* That the ring holds what is pending is shown place by place: the k-th   *)
(* unread byte has a place in the buffer, an append adds places behind the *)
(* last one and overwrites none, and a release takes away as many at the   *)
(* front as were written out.                                              *)
(***************************************************************************)
EXTENDS TlogRing, SequenceTheorems, TLAPS

\* The last offset at which a line may begin.
Last == BuffSize - MaxLineSize

\* The ring: without ext_end the unread bytes are in one piece; with it the
\* writers have wrapped and stay strictly behind the reader, so that end and
\* start are equal only where both are at the front.
Shape ==
    /\ start \in 0 .. Last /\ end \in 0 .. Last
    /\ ext_end = 0 \/ ext_end \in Last + 1 .. BuffSize
    /\ ext_end = 0 => start <= end
    /\ ext_end > 0 => end < start \/ (end = 0 /\ start = 0)

\* What _tlog_work may rely on while it has given up the lock: what it saw is
\* a part of what is there.
Seen ==
    rpc \in {"write", "writeext", "release"} =>
        /\ snap.log_end \in 0 .. Last /\ snap.log_len \in Nat /\ snap.log_extlen \in Nat
        /\ \/ /\ snap.log_extend = 0
              /\ snap.log_len = snap.log_end - start /\ snap.log_extlen = 0
              /\ start < snap.log_end
              /\ ext_end = 0 => snap.log_end <= end
           \/ /\ snap.log_extend = ext_end /\ ext_end > 0
              /\ snap.log_len = ext_end - start
              /\ snap.log_extlen = snap.log_end /\ snap.log_end <= end

\* The lengths of the two pieces of unread bytes, and the place of the k-th.
First == IF ext_end > 0 THEN ext_end - start ELSE end - start
Second == IF ext_end > 0 THEN end ELSE 0
Place(k) == IF k <= First THEN start + k - 1 ELSE k - First - 1

\* The bytes that have been written out and not released.
Done == IF rpc = "writeext" THEN snap.log_len
        ELSE IF rpc = "release" THEN snap.log_len + snap.log_extlen ELSE 0

\* The pending bytes are those in the ring, in the order of their places.
Matches ==
    /\ Len(pending) + Done = First + Second
    /\ \A i \in 1 .. Len(pending) : pending[i] = buff[Place(i + Done)]

Types ==
    /\ buff \in [0 .. BuffSize - 1 -> Nat]
    /\ pending \in Seq(Nat) /\ stamp \in Nat

\* The inductive invariant.
IInv == Types /\ Shape /\ Seen /\ Matches

----------------------------------------------------------------------------
(* Sequences and sizes                                                      *)

USE BuffAssumption, LineAssumption, StampAssumption

\* A function on 1 .. n is a sequence of length n.
LEMMA FunctionIsSeq ==
    ASSUME NEW n \in Nat, NEW S, NEW f \in [1 .. n -> S]
    PROVE  f \in Seq(S) /\ Len(f) = n
OBVIOUS

\* There is room for two lines.
LEMMA LastOffset == /\ Last \in Nat /\ Last >= MaxLineSize /\ Last < BuffSize
                    /\ BuffSize - Last = MaxLineSize
BY DEF Last

\* The pieces of the ring as _tlog_work computes them.
LEMMA Pieces ==
    ASSUME Shape
    PROVE  /\ First \in Nat /\ Second \in Nat /\ ext_end \in Nat
           /\ First = IF end > start THEN end - start
                      ELSE IF ext_end > 0 THEN ext_end - start ELSE 0
           /\ Second = IF end < start THEN end ELSE 0
           /\ \A k \in 1 .. First + Second : Place(k) \in 0 .. BuffSize - 1
<1>1. ext_end \in Nat /\ start \in Nat /\ end \in Nat
  BY LastOffset DEF Shape
<1>2. QED
  BY <1>1, LastOffset DEF Shape, First, Second, Place

----------------------------------------------------------------------------
(* The steps                                                                *)

\* _tlog_work has a snapshot.
Busy == {"write", "writeext", "release"}

\* A step that touches neither the ring nor the snapshot.
LEMMA QuietStep ==
    ASSUME IInv, UNCHANGED <<ring, history>>,
           (rpc' = rpc /\ snap' = snap) \/ (rpc \notin Busy /\ rpc' \notin Busy)
    PROVE  IInv'
<1>1. UNCHANGED <<start, end, ext_end, buff, stamp, pending>>
  BY DEF ring, history
<1>2. Types' /\ Shape'
  BY <1>1 DEF IInv, Types, Shape
<1>3. Seen'
  BY <1>1 DEF IInv, Seen, Busy
<1>4. Done' = Done
  BY DEF Done, Busy
<1>5. Matches'
  BY <1>1, <1>4 DEF IInv, Matches, First, Second, Place
<1>6. QED
  BY <1>2, <1>3, <1>5 DEF IInv

\* The snapshot is all there is.
LEMMA SnapshotStep ==
    ASSUME IInv, HasData, rpc \notin Busy, rpc' = "write", Snapshot, UNCHANGED <<ring, history>>
    PROVE  IInv'
<1>1. UNCHANGED <<start, end, ext_end, buff, stamp, pending>>
  BY DEF ring, history
<1>2. Types' /\ Shape' /\ Shape
  BY <1>1 DEF IInv, Types, Shape
<1>3. start \in Nat /\ end \in Nat /\ ext_end \in Nat
  BY <1>2, Pieces, LastOffset DEF Shape
<1>4. /\ snap'.log_len = First /\ snap'.log_extlen = Second
      /\ snap'.log_end = end /\ snap'.log_extend = ext_end
  BY <1>2, Pieces DEF Snapshot
<1>5. Seen'
  <2>1. /\ snap'.log_end \in 0 .. Last /\ snap'.log_len \in Nat /\ snap'.log_extlen \in Nat
    BY <1>2, <1>4, Pieces DEF Shape
  <2>2. CASE ext_end = 0
    <3>1. start < end
      BY <1>2, <1>3, <2>2 DEF HasData, Shape
    <3>2. First = end - start /\ Second = 0
      BY <2>2 DEF First, Second
    <3>3. QED
      BY <1>1, <1>3, <1>4, <2>1, <2>2, <3>1, <3>2 DEF Seen
  <2>3. CASE ext_end > 0
    <3>1. First = ext_end - start /\ Second = end
      BY <2>3 DEF First, Second
    <3>2. QED
      BY <1>1, <1>3, <1>4, <2>1, <2>3, <3>1 DEF Seen
  <2>4. QED
    BY <1>3, <2>2, <2>3
<1>6. Done' = Done
  BY DEF Done, Busy
<1>7. Matches'
  BY <1>1, <1>6 DEF IInv, Matches, First, Second, Place
<1>8. QED
  BY <1>2, <1>5, <1>7 DEF IInv

\* An append keeps the places of the unread bytes and adds those of the line.
LEMMA AppendPlaces ==
    ASSUME Shape, Room >= MaxLineSize, NEW n \in LineSizes, CopyIn(n)
    PROVE  /\ Shape' /\ First' + Second' = First + Second + n /\ end + n <= BuffSize
           /\ \A k \in 1 .. First + Second :
                Place(k)' = Place(k) /\ Place(k) \notin end .. end + n - 1
           /\ \A k \in First + Second + 1 .. First + Second + n :
                Place(k)' = end + (k - First - Second) - 1
           /\ ext_end' = 0 => end <= end' /\ ext_end = 0
           /\ ext_end > 0 => end <= end' /\ ext_end' = ext_end
<1>1. start \in Nat /\ end \in Nat /\ ext_end \in Nat /\ n \in 1 .. MaxLineSize - 1
  BY Pieces, LastOffset DEF Shape
<1>0. end + n <= BuffSize
  BY <1>1, LastOffset DEF Shape
<1>2. CASE ext_end = 0
  <2>1. First = end - start /\ Second = 0 /\ start <= end
    BY <1>2 DEF First, Second, Shape
  <2>2. CASE end + n > Last
    <3>1. ext_end' = end + n /\ end' = 0 /\ start' = start
      BY <2>2 DEF CopyIn, Last
    <3>2. First' = end + n - start /\ Second' = 0
      BY <1>1, <3>1 DEF First, Second
    <3>3. Shape'
      BY <1>1, <1>2, <2>1, <2>2, <3>1, LastOffset DEF Shape
    <3>4. /\ \A k \in 1 .. First + Second :
               Place(k)' = Place(k) /\ Place(k) \notin end .. end + n - 1
          /\ \A k \in First + Second + 1 .. First + Second + n :
               Place(k)' = end + (k - First - Second) - 1
      BY <1>1, <2>1, <3>1, <3>2, LastOffset DEF Place, Shape
    <3>5. QED
      BY <1>0, <1>1, <1>2, <2>1, <3>1, <3>2, <3>3, <3>4
  <2>3. CASE ~ (end + n > Last)
    <3>1. ext_end' = ext_end /\ end' = end + n /\ start' = start
      BY <2>3 DEF CopyIn, Last
    <3>2. First' = end + n - start /\ Second' = 0
      BY <1>1, <1>2, <3>1 DEF First, Second
    <3>3. Shape'
      BY <1>1, <1>2, <2>1, <2>3, <3>1, LastOffset DEF Shape
    <3>4. /\ \A k \in 1 .. First + Second :
               Place(k)' = Place(k) /\ Place(k) \notin end .. end + n - 1
          /\ \A k \in First + Second + 1 .. First + Second + n :
               Place(k)' = end + (k - First - Second) - 1
      BY <1>1, <2>1, <3>1, <3>2, LastOffset DEF Place, Shape
    <3>5. QED
      BY <1>0, <1>1, <1>2, <2>1, <3>1, <3>2, <3>3, <3>4
  <2>4. QED
    BY <2>2, <2>3
<1>3. CASE ext_end > 0
  <2>1. First = ext_end - start /\ Second = end
    BY <1>3 DEF First, Second
  <2>2. start - end >= MaxLineSize /\ end < start
    BY <1>1, <1>3 DEF Room, Shape
  <2>3. ~ (end + n > Last)
    BY <1>1, <2>2, LastOffset DEF Shape
  <2>4. ext_end' = ext_end /\ end' = end + n /\ start' = start
    BY <2>3 DEF CopyIn, Last
  <2>5. First' = First /\ Second' = end + n
    BY <1>3, <2>1, <2>4 DEF First, Second
  <2>6. Shape'
    BY <1>1, <1>3, <2>2, <2>3, <2>4, LastOffset DEF Shape
  <2>7. ext_end > Last /\ start <= Last
    BY <1>1, <1>3, LastOffset DEF Shape
  <2>8. \A k \in 1 .. First + Second :
          Place(k)' = Place(k) /\ Place(k) \notin end .. end + n - 1
    BY <1>1, <2>1, <2>2, <2>4, <2>5, <2>7, LastOffset DEF Place
  <2>9. \A k \in First + Second + 1 .. First + Second + n :
          Place(k)' = end + (k - First - Second) - 1
    BY <1>1, <2>1, <2>2, <2>4, <2>5, <2>7, LastOffset DEF Place
  <2>10. QED
    BY <1>0, <1>1, <1>3, <2>1, <2>4, <2>5, <2>6, <2>8, <2>9
<1>4. QED
  BY <1>1, <1>2, <1>3

\* _tlog_vprintf: the line is behind what was pending, in the ring as in the
\* history, and _tlog_work's snapshot is still good.
LEMMA AppendStep ==
    ASSUME IInv, Room >= MaxLineSize, NEW n \in LineSizes, CopyIn(n), snap' = snap,
           rpc' = rpc \/ (rpc \notin Busy /\ rpc' \notin Busy)
    PROVE  IInv'
<1> DEFINE line == [i \in 1 .. n |-> stamp]
<1>1. /\ Types /\ Shape /\ Seen /\ Matches /\ n \in 1 .. MaxLineSize - 1
  BY DEF IInv
<1>2. /\ Shape' /\ First' + Second' = First + Second + n /\ end + n <= BuffSize
      /\ \A k \in 1 .. First + Second :
           Place(k)' = Place(k) /\ Place(k) \notin end .. end + n - 1
      /\ \A k \in First + Second + 1 .. First + Second + n :
           Place(k)' = end + (k - First - Second) - 1
      /\ ext_end' = 0 => end <= end' /\ ext_end = 0
      /\ ext_end > 0 => end <= end' /\ ext_end' = ext_end
  BY <1>1, AppendPlaces
<1>3. line \in Seq(Nat) /\ Len(line) = n /\ \A i \in 1 .. n : line[i] = stamp
  <2>1. line \in [1 .. n -> Nat] /\ n \in Nat
    BY <1>1 DEF Types
  <2>2. QED
    BY <2>1, FunctionIsSeq
<1>4. /\ pending' = pending \o line /\ start' = start
      /\ buff' = [i \in DOMAIN buff |->
                    IF i \in end .. end + n - 1 THEN stamp ELSE buff[i]]
      /\ stamp' = (stamp % Stamps) + 1
  BY DEF CopyIn
<1> HIDE DEF line
<1>5. /\ pending' \in Seq(Nat) /\ Len(pending) \in Nat /\ Len(pending') = Len(pending) + n
      /\ \A i \in 1 .. Len(pending) + n :
           pending'[i] = IF i <= Len(pending) THEN pending[i] ELSE stamp
  <2>1. pending \in Seq(Nat) /\ Len(pending) \in Nat
    BY <1>1, LenProperties DEF Types
  <2>2. /\ pending \o line \in Seq(Nat) /\ Len(pending \o line) = Len(pending) + Len(line)
        /\ \A i \in 1 .. Len(pending) + Len(line) : (pending \o line)[i] =
             IF i <= Len(pending) THEN pending[i] ELSE line[i - Len(pending)]
    BY <1>3, <2>1, ConcatProperties
  <2>3. QED
    BY <1>1, <1>3, <1>4, <2>1, <2>2
<1>6. Types'
  <2>1. buff' \in [0 .. BuffSize - 1 -> Nat]
    BY <1>1, <1>4 DEF Types
  <2>2. stamp' \in Nat
    BY <1>1, <1>4 DEF Types
  <2>3. QED
    BY <1>5, <2>1, <2>2 DEF Types
<1>7. Seen'
  <2>1. CASE rpc \notin Busy /\ rpc' \notin Busy
    BY <2>1 DEF Seen, Busy
  <2>2. CASE rpc' = rpc /\ rpc \in Busy
    <3>1. start \in Nat /\ end \in Nat /\ ext_end \in Nat /\ end' \in Nat /\ ext_end' \in Nat
      BY <1>1, <1>2, LastOffset DEF Shape
    <3>2. /\ snap.log_end \in 0 .. Last /\ snap.log_len \in Nat /\ snap.log_extlen \in Nat
          /\ \/ /\ snap.log_extend = 0
                /\ snap.log_len = snap.log_end - start /\ snap.log_extlen = 0
                /\ start < snap.log_end
                /\ ext_end = 0 => snap.log_end <= end
             \/ /\ snap.log_extend = ext_end /\ ext_end > 0
                /\ snap.log_len = ext_end - start
                /\ snap.log_extlen = snap.log_end /\ snap.log_end <= end
      BY <1>1, <2>2 DEF Seen, Busy
    <3>3. QED
      BY <1>2, <1>4, <3>1, <3>2, LastOffset, SMTT(20) DEF Seen
  <2>3. QED
    BY <2>1, <2>2
<1>8. Done' = Done /\ Done \in Nat
  BY <1>1 DEF Done, Busy, Seen
<1>9. First \in Nat /\ Second \in Nat
  BY <1>1, Pieces
<1>10. Len(pending) + Done = First + Second
  BY <1>1 DEF Matches
<1>11. ASSUME NEW i \in 1 .. Len(pending')  PROVE pending'[i] = buff'[Place(i + Done)']
  <2> DEFINE k == i + Done
  <2>1. k \in 1 .. First + Second + n /\ (i <= Len(pending) <=> k <= First + Second)
    BY <1>1, <1>5, <1>8, <1>9, <1>10
  <2>2. Place(i + Done)' = (IF k <= First' THEN start' + k - 1 ELSE k - First' - 1)
    BY <1>8 DEF Place
  <2>3. CASE i <= Len(pending)
    <3>1. pending'[i] = buff[Place(k)]
      BY <1>1, <1>5, <2>3 DEF Matches
    <3>2. Place(k) \in 0 .. BuffSize - 1 /\ Place(k) \notin end .. end + n - 1
      BY <1>1, <1>2, <1>9, <2>1, <2>3, Pieces
    <3>3. (IF k <= First' THEN start' + k - 1 ELSE k - First' - 1) = Place(k)
      <4>1. \A kk \in 1 .. First + Second :
              (IF kk <= First' THEN start' + kk - 1 ELSE kk - First' - 1) = Place(kk)
        BY <1>2 DEF Place
      <4>2. QED
        BY <1>9, <2>1, <2>3, <4>1
    <3>4. buff'[Place(k)] = buff[Place(k)]
      BY <1>1, <1>4, <3>2 DEF Types
    <3>5. QED
      BY <2>2, <3>1, <3>3, <3>4
  <2>4. CASE i > Len(pending)
    <3>1. pending'[i] = stamp
      BY <1>5, <2>4
    <3>2. (IF k <= First' THEN start' + k - 1 ELSE k - First' - 1) = end + (k - First - Second) - 1
      <4>1. \A kk \in First + Second + 1 .. First + Second + n :
              (IF kk <= First' THEN start' + kk - 1 ELSE kk - First' - 1)
                = end + (kk - First - Second) - 1
        BY <1>2 DEF Place
      <4>2. QED
        BY <1>5, <1>8, <1>9, <1>10, <2>1, <2>4, <4>1
    <3>3. end + (k - First - Second) - 1 \in end .. end + n - 1
      BY <1>1, <1>5, <1>8, <1>9, <1>10, <2>1, <2>4, LastOffset DEF Shape
    <3>4. end .. end + n - 1 \subseteq 0 .. BuffSize - 1
      BY <1>1, <1>2, LastOffset DEF Shape
    <3>5. buff'[end + (k - First - Second) - 1] = stamp
      BY <1>1, <1>4, <3>3, <3>4 DEF Types
    <3>6. QED
      BY <2>2, <3>1, <3>2, <3>5
  <2>5. QED
    BY <1>5, <2>3, <2>4
<1>12. Len(pending') + Done' = First' + Second'
  <2>1. First' + Second' = (First + Second) + n
    BY <1>2
  <2>2. Len(pending') = Len(pending) + n /\ Len(pending) \in Nat /\ n \in Nat
    BY <1>1, <1>5
  <2>3. (Len(pending) + n) + Done = (Len(pending) + Done) + n
    BY <1>8, <2>2
  <2>4. QED
    BY <1>8, <1>10, <2>1, <2>2, <2>3
<1>13. Matches'
  BY <1>8, <1>11, <1>12 DEF Matches
<1>14. QED
  BY <1>2, <1>6, <1>7, <1>13 DEF IInv

\* The facts about the snapshot that a step of _tlog_work uses.
LEMMA SnapshotFits ==
    ASSUME Shape, Seen, rpc \in Busy
    PROVE  /\ snap.log_len \in Nat /\ snap.log_extlen \in Nat /\ snap.log_end \in Nat
           /\ snap.log_len <= First
           /\ snap.log_extlen > 0 => snap.log_len = First
           /\ snap.log_len + snap.log_extlen <= First + Second
<1>1. start \in Nat /\ end \in Nat /\ ext_end \in Nat /\ start <= Last
  BY Pieces, LastOffset DEF Shape
<1>2. /\ snap.log_end \in 0 .. Last /\ snap.log_len \in Nat /\ snap.log_extlen \in Nat
      /\ \/ /\ snap.log_extend = 0
            /\ snap.log_len = snap.log_end - start /\ snap.log_extlen = 0
            /\ start < snap.log_end
            /\ ext_end = 0 => snap.log_end <= end
         \/ /\ snap.log_extend = ext_end /\ ext_end > 0
            /\ snap.log_len = ext_end - start
            /\ snap.log_extlen = snap.log_end /\ snap.log_end <= end
  BY DEF Seen, Busy
<1>3. ext_end > 0 => ext_end > Last
  BY LastOffset DEF Shape
<1>4. QED
  BY <1>1, <1>2, <1>3, LastOffset DEF First, Second

\* Handing n bytes to the output function takes them off what is pending.
LEMMA OutputStep ==
    ASSUME IInv, NEW n \in Nat, Output(n), UNCHANGED <<ring, snap>>, rpc \in Busy, rpc' \in Busy,
           Done' = Done + n, Done \in Nat, Done + n <= First + Second
    PROVE  IInv'
<1>1. UNCHANGED <<start, end, ext_end, buff, stamp>> /\ Types /\ Shape /\ Seen /\ Matches
  BY DEF ring, Output, IInv
<1>2. pending \in Seq(Nat) /\ Len(pending) \in Nat
  BY <1>1, LenProperties DEF Types
<1>3. Len(pending) + Done = First + Second /\ First \in Nat /\ Second \in Nat
  BY <1>1, Pieces DEF Matches
<1>4. n <= Len(pending)
  BY <1>2, <1>3
<1>5. /\ pending' \in Seq(Nat) /\ Len(pending') = Len(pending) - n
      /\ \A i \in 1 .. Len(pending) - n : pending'[i] = pending[n + i]
  <2>1. \A i \in n + 1 .. Len(pending) : pending[i] \in Nat
    BY <1>2, ElementOfSeq
  <2>2. /\ SubSeq(pending, n + 1, Len(pending)) \in Seq(Nat)
        /\ Len(SubSeq(pending, n + 1, Len(pending))) =
             IF n + 1 <= Len(pending) THEN Len(pending) - (n + 1) + 1 ELSE 0
        /\ \A i \in 1 .. Len(pending) - (n + 1) + 1 :
             SubSeq(pending, n + 1, Len(pending))[i] = pending[(n + 1) + i - 1]
    BY <1>2, <2>1, SubSeqProperties
  <2>3. pending' = SubSeq(pending, n + 1, Len(pending))
    BY DEF Output
  <2>4. /\ Len(pending) - (n + 1) + 1 = Len(pending) - n
        /\ (IF n + 1 <= Len(pending) THEN Len(pending) - (n + 1) + 1 ELSE 0) = Len(pending) - n
    BY <1>2, <1>4
  <2>5. ASSUME NEW i \in 1 .. Len(pending) - n  PROVE pending'[i] = pending[n + i]
    <3>1. i \in Int /\ (n + 1) + i - 1 = n + i
      BY <1>2
    <3>2. QED
      BY <2>2, <2>3, <2>4, <3>1
  <2>6. QED
    BY <2>2, <2>3, <2>4, <2>5
<1>6. Types' /\ Shape' /\ Seen'
  BY <1>1, <1>5 DEF Types, Shape, Seen, Busy
<1>7. First' = First /\ Second' = Second /\ \A k : Place(k)' = Place(k)
  BY <1>1 DEF First, Second, Place
<1>8. Len(pending') + Done' = First' + Second'
  <2>1. (Len(pending) - n) + (Done + n) = Len(pending) + Done
    BY <1>2
  <2>2. QED
    BY <1>3, <1>5, <1>7, <2>1
<1>9. ASSUME NEW i \in 1 .. Len(pending')  PROVE pending'[i] = buff'[Place(i + Done)']
  <2>1. n + i \in 1 .. Len(pending) /\ pending'[i] = pending[n + i]
    BY <1>2, <1>4, <1>5, SMTT(20)
  <2>2. pending[n + i] = buff[Place((n + i) + Done)]
    BY <1>1, <2>1 DEF Matches
  <2>3. (n + i) + Done = i + Done'
    BY <1>5, <1>2, <1>4
  <2>4. Place(i + Done)' = Place((n + i) + Done)
    BY <1>1, <1>7, <2>3 DEF Place
  <2>5. QED
    BY <1>1, <2>1, <2>2, <2>4
<1>10. Matches'
  BY <1>8, <1>9 DEF Matches
<1>11. QED
  BY <1>6, <1>10 DEF IInv

\* _tlog_write_buff_log writes the first piece, then the second.
LEMMA WriteStep ==
    ASSUME IInv, Write \/ WriteExt
    PROVE  IInv'
<1>1. rpc \in Busy /\ rpc' \in Busy /\ UNCHANGED <<ring, snap>> /\ Shape /\ Seen
  BY DEF Write, WriteExt, RGoto, Busy, IInv
<1>2. /\ snap.log_len \in Nat /\ snap.log_extlen \in Nat /\ snap.log_len <= First
      /\ snap.log_len + snap.log_extlen <= First + Second
  BY <1>1, SnapshotFits
<1>3. First \in Nat /\ Second \in Nat
  BY <1>1, Pieces
<1>4. CASE Write
  <2>1. Done = 0 /\ Done' = snap.log_len /\ Output(snap.log_len)
    BY <1>1, <1>4 DEF Write, RGoto, Done
  <2>2. Done' = Done + snap.log_len /\ Done \in Nat /\ Done + snap.log_len <= First + Second
    BY <1>2, <1>3, <2>1
  <2>3. QED
    BY <1>1, <1>2, <2>1, <2>2, OutputStep
<1>5. CASE WriteExt
  <2>1. Done = snap.log_len /\ Done' = snap.log_len + snap.log_extlen /\ Output(snap.log_extlen)
    BY <1>1, <1>5 DEF WriteExt, RGoto, Done
  <2>2. QED
    BY <1>1, <1>2, <2>1, OutputStep
<1>6. QED
  BY <1>4, <1>5

\* The release takes from the front of the ring what has been written.
LEMMA ReleaseStep ==
    ASSUME IInv, Release
    PROVE  IInv'
<1>1. /\ rpc = "release" /\ rpc' = "wakeup" /\ Types /\ Shape /\ Seen /\ Matches
      /\ UNCHANGED <<end, buff, pending, stamp>> /\ start' = snap.log_end
      /\ ext_end' = IF snap.log_extend > 0 THEN 0 ELSE ext_end
  BY DEF Release, RGoto, IInv, history
<1>2. start \in Nat /\ end \in Nat /\ ext_end \in Nat /\ start <= Last
  BY <1>1, Pieces, LastOffset DEF Shape
<1>3. ext_end > 0 => ext_end > Last /\ (end < start \/ (end = 0 /\ start = 0))
  BY <1>1, <1>2, LastOffset DEF Shape
<1>4. /\ snap.log_end \in 0 .. Last /\ snap.log_len \in Nat /\ snap.log_extlen \in Nat
      /\ \/ /\ snap.log_extend = 0
            /\ snap.log_len = snap.log_end - start /\ snap.log_extlen = 0
            /\ start < snap.log_end
            /\ ext_end = 0 => snap.log_end <= end
         \/ /\ snap.log_extend = ext_end /\ ext_end > 0
            /\ snap.log_len = ext_end - start
            /\ snap.log_extlen = snap.log_end /\ snap.log_end <= end
  BY <1>1 DEF Seen
<1>5. Done = snap.log_len + snap.log_extlen /\ Done' = 0 /\ Done \in Nat
  BY <1>1, <1>4 DEF Done
<1>6. /\ Shape' /\ First' + Second' = First + Second - Done
      /\ \A k \in 1 .. First' + Second' :
           (IF k <= First' THEN start' + k - 1 ELSE k - First' - 1) = Place(k + Done)
  <2>1. CASE snap.log_extend = 0 /\ ext_end = 0
    <3>1. /\ ext_end' = 0 /\ First = end - start /\ Second = 0
          /\ First' = end - snap.log_end /\ Second' = 0
      BY <1>1, <1>2, <2>1 DEF First, Second
    <3>2. Done = snap.log_end - start /\ start < snap.log_end /\ snap.log_end <= end
      BY <1>2, <1>4, <1>5, <2>1
    <3>3. Shape'
      BY <1>1, <1>2, <1>4, <3>1, <3>2, LastOffset DEF Shape
    <3>4. \A k \in 1 .. First' + Second' :
            (IF k <= First' THEN start' + k - 1 ELSE k - First' - 1) = Place(k + Done)
      BY <1>1, <1>2, <1>4, <3>1, <3>2 DEF Place
    <3>5. QED
      BY <1>2, <1>4, <3>1, <3>2, <3>3, <3>4
  <2>2. CASE snap.log_extend = 0 /\ ext_end > 0
    <3>1. /\ ext_end' = ext_end /\ First = ext_end - start /\ Second = end
          /\ First' = ext_end - snap.log_end /\ Second' = end
      BY <1>1, <1>2, <2>2 DEF First, Second
    <3>2. Done = snap.log_end - start /\ start < snap.log_end /\ snap.log_end <= Last
      BY <1>2, <1>4, <1>5, <2>2, LastOffset
    <3>3. Shape'
      BY <1>1, <1>2, <1>3, <1>4, <2>2, <3>1, <3>2, LastOffset DEF Shape
    <3>4. \A k \in 1 .. First' + Second' :
            (IF k <= First' THEN start' + k - 1 ELSE k - First' - 1) = Place(k + Done)
      BY <1>1, <1>2, <1>3, <1>4, <2>2, <3>1, <3>2, LastOffset DEF Place
    <3>5. QED
      BY <1>2, <1>4, <3>1, <3>2, <3>3, <3>4
  <2>3. CASE snap.log_extend = ext_end /\ ext_end > 0
    <3>1. /\ ext_end' = 0 /\ First = ext_end - start /\ Second = end
          /\ First' = end - snap.log_end /\ Second' = 0
      BY <1>1, <1>2, <2>3 DEF First, Second
    <3>2. Done = First + snap.log_end /\ snap.log_end <= end /\ First \in Nat
      BY <1>2, <1>3, <1>4, <1>5, <2>3, <3>1, LastOffset
    <3>3. Shape'
      BY <1>1, <1>2, <1>4, <3>1, <3>2, LastOffset DEF Shape
    <3>4. \A k \in 1 .. First' + Second' :
            (IF k <= First' THEN start' + k - 1 ELSE k - First' - 1) = Place(k + Done)
      BY <1>1, <1>2, <1>4, <3>1, <3>2, LastOffset DEF Place
    <3>5. QED
      BY <1>2, <1>4, <3>1, <3>2, <3>3, <3>4
  <2>4. QED
    BY <1>2, <1>4, <2>1, <2>2, <2>3
<1>7. Types' /\ Seen'
  BY <1>1 DEF Types, Seen
<1>8. Len(pending) \in Nat /\ First \in Nat /\ Second \in Nat /\ First' + Second' = Len(pending)
  <2>1. Len(pending) \in Nat /\ First \in Nat /\ Second \in Nat
    BY <1>1, Pieces, LenProperties DEF Types
  <2>2. QED
    BY <1>1, <1>5, <1>6, <2>1 DEF Matches
<1>9. ASSUME NEW i \in 1 .. Len(pending')  PROVE pending'[i] = buff'[Place(i + Done)']
  <2>1. i \in 1 .. Len(pending) /\ i \in Nat
    BY <1>1, <1>8
  <2>2. pending[i] = buff[Place(i + Done)]
    BY <1>1, <2>1 DEF Matches
  <2>3. (IF i <= First' THEN start' + i - 1 ELSE i - First' - 1) = Place(i + Done)
    BY <1>6, <1>8, <2>1
  <2>4. Place(i + Done)' = (IF i <= First' THEN start' + i - 1 ELSE i - First' - 1)
    <3>1. i + Done' = i
      BY <1>5, <2>1
    <3>2. QED
      BY <3>1 DEF Place
  <2>5. QED
    BY <1>1, <2>2, <2>3, <2>4
<1>10. Len(pending') + Done' = First' + Second'
  BY <1>1, <1>5, <1>8
<1>11. Matches'
  BY <1>9, <1>10 DEF Matches
<1>12. QED
  BY <1>6, <1>7, <1>11 DEF IInv

----------------------------------------------------------------------------
(* The theorems                                                             *)

\* The invariant holds when the log has been opened.
LEMMA InitIInv == Init => IInv
<1> SUFFICES ASSUME Init PROVE IInv
  OBVIOUS
<1>1. /\ start = 0 /\ end = 0 /\ ext_end = 0 /\ pending = <<>> /\ stamp = 1 /\ rpc = "top"
      /\ buff = [i \in 0 .. BuffSize - 1 |-> 0]
  BY DEF Init, OpenLog
<1>2. Shape /\ Seen
  BY <1>1, LastOffset DEF Shape, Seen
<1>3. Types
  BY <1>1 DEF Types
<1>4. First = 0 /\ Second = 0 /\ Done = 0 /\ Len(pending) = 0
  BY <1>1 DEF First, Second, Done
<1>5. Matches
  BY <1>4 DEF Matches
<1>6. QED
  BY <1>2, <1>3, <1>5 DEF IInv

\* Every step preserves it.
LEMMA NextIInv == IInv /\ [Next]_vars => IInv'
<1> SUFFICES ASSUME IInv, [Next]_vars PROVE IInv'
  OBVIOUS
<1>1. ASSUME NEW w \in Writers, Call(w) \/ Wait(w) \/ Woken(w) \/ SpuriousWakeup(w)
      PROVE  IInv'
  <2>1. UNCHANGED <<ring, history, rpc, snap>>
    BY <1>1 DEF Call, Wait, Woken, SpuriousWakeup
  <2>2. QED
    BY <2>1, QuietStep
<1>2. ASSUME NEW w \in Writers, Full(w)  PROVE IInv'
  <2>1. /\ UNCHANGED <<ring, history, snap>>
        /\ rpc' = rpc \/ (rpc \notin Busy /\ rpc' \notin Busy)
    BY <1>2 DEF Full, Wake, Busy
  <2>2. QED
    BY <2>1, QuietStep
<1>3. ASSUME NEW w \in Writers, AppendLine(w)  PROVE IInv'
  <2>1. PICK n \in LineSizes : CopyIn(n)
    BY <1>3 DEF AppendLine
  <2>2. /\ Room >= MaxLineSize /\ snap' = snap
        /\ rpc' = rpc \/ (rpc \notin Busy /\ rpc' \notin Busy)
    BY <1>3 DEF AppendLine, Wake, Busy
  <2>3. QED
    BY <2>1, <2>2, AppendStep
<1>4. CASE \/ TopExit \/ Top \/ ScanWait \/ ScanEmpty \/ WakeupWaiters \/ WorkSpurious
           \/ StopSignal
  <2>1. UNCHANGED <<ring, history>> /\ rpc \notin Busy /\ rpc' \notin Busy
    BY <1>4 DEF TopExit, Top, ScanWait, ScanEmpty, WakeupWaiters, WorkSpurious, StopSignal,
       RGoto, Busy
  <2>2. QED
    BY <2>1, QuietStep
<1>5. CASE Stop
  <2>1. UNCHANGED <<ring, history, rpc, snap>>
    BY <1>5 DEF Stop
  <2>2. QED
    BY <2>1, QuietStep
<1>6. CASE ScanWrite
  <2>1. HasData /\ rpc \notin Busy /\ rpc' = "write" /\ Snapshot /\ UNCHANGED <<ring, history>>
    BY <1>6 DEF ScanWrite, RGoto, Busy
  <2>2. QED
    BY <2>1, SnapshotStep
<1>7. CASE WorkWoken
  <2>1. UNCHANGED <<ring, history>> /\ rpc \notin Busy
    BY <1>7 DEF WorkWoken, RGoto, Busy
  <2>2. (HasData /\ rpc' = "write" /\ Snapshot) \/ rpc' \notin Busy
    BY <1>7 DEF WorkWoken, RGoto, Busy
  <2>3. QED
    BY <2>1, <2>2, SnapshotStep, QuietStep
<1>8. CASE Write \/ WriteExt
  BY <1>8, WriteStep
<1>9. CASE Release
  BY <1>9, ReleaseStep
<1>10. CASE UNCHANGED vars
  <2>1. UNCHANGED <<ring, history, rpc, snap>>
    BY <1>10 DEF vars
  <2>2. QED
    BY <2>1, QuietStep
<1>11. QED
  BY <1>1, <1>2, <1>3, <1>4, <1>5, <1>6, <1>7, <1>8, <1>9, <1>10
     DEF Next, WriterStep, WorkStep

\* The invariant holds in every reachable state.
THEOREM Invariance == Spec => []IInv
BY InitIInv, NextIInv, PTL DEF Spec

\* The bytes at an offset are a sequence.
LEMMA BytesAreSeq ==
    ASSUME Types, NEW from \in Nat, NEW n \in Nat, from + n <= BuffSize
    PROVE  /\ Bytes(from, n) \in Seq(Nat) /\ Len(Bytes(from, n)) = n
           /\ \A i \in 1 .. n : Bytes(from, n)[i] = buff[from + i - 1]
<1>1. \A i \in 1 .. n : from + i - 1 \in 0 .. BuffSize - 1
  OBVIOUS
<1>2. Bytes(from, n) \in [1 .. n -> Nat]
  BY <1>1 DEF Bytes, Types
<1>3. QED
  BY <1>2, FunctionIsSeq DEF Bytes

\* The content of the ring, place by place.
LEMMA ContentPlaces ==
    ASSUME Types, Shape
    PROVE  /\ Content \in Seq(Nat) /\ Len(Content) = First + Second
           /\ \A k \in 1 .. First + Second : Content[k] = buff[Place(k)]
<1> DEFINE one == Bytes(start, First)
           two == Bytes(0, Second)
<1>1. First \in Nat /\ Second \in Nat /\ start \in Nat /\ ext_end \in Nat /\ end \in Nat
  BY Pieces, LastOffset DEF Shape
<1>2. start + First <= BuffSize /\ 0 + Second <= BuffSize
  BY <1>1, LastOffset DEF Shape, First, Second
<1>3. /\ one \in Seq(Nat) /\ Len(one) = First
      /\ \A i \in 1 .. First : one[i] = buff[start + i - 1]
  BY <1>1, <1>2, BytesAreSeq
<1>4. /\ two \in Seq(Nat) /\ Len(two) = Second
      /\ \A i \in 1 .. Second : two[i] = buff[0 + i - 1]
  BY <1>1, <1>2, BytesAreSeq
<1>5. Content = one \o two
  BY Pieces DEF Content
<1> HIDE DEF one, two
<1>6. /\ one \o two \in Seq(Nat) /\ Len(one \o two) = Len(one) + Len(two)
      /\ \A i \in 1 .. Len(one) + Len(two) : (one \o two)[i] =
           IF i <= Len(one) THEN one[i] ELSE two[i - Len(one)]
  BY <1>3, <1>4, ConcatProperties
<1>7. ASSUME NEW k \in 1 .. First + Second  PROVE Content[k] = buff[Place(k)]
  <2>1. CASE k <= First
    BY <1>1, <1>3, <1>4, <1>5, <1>6, <2>1 DEF Place
  <2>2. CASE k > First
    <3>1. k - First \in 1 .. Second /\ 0 + (k - First) - 1 = k - First - 1
      BY <1>1, <2>2
    <3>2. Content[k] = two[k - First]
      BY <1>1, <1>3, <1>4, <1>5, <1>6, <2>2
    <3>3. two[k - First] = buff[k - First - 1]
      BY <1>4, <3>1
    <3>4. Place(k) = k - First - 1
      BY <1>1, <2>2 DEF Place
    <3>5. QED
      BY <3>2, <3>3, <3>4
  <2>3. QED
    BY <1>1, <2>1, <2>2
<1>8. QED
  BY <1>3, <1>4, <1>5, <1>6, <1>7

\* The ring holds exactly the bytes that were accepted and not yet written,
\* in order, whatever _tlog_vprintf and _tlog_work do.
THEOREM NothingLostInRing == Spec => []RingHoldsPending
<1>1. IInv => RingHoldsPending
  <2> SUFFICES ASSUME IInv PROVE RingHoldsPending
    OBVIOUS
  <2>1. Types /\ Shape /\ Seen /\ Matches
    BY DEF IInv
  <2>2. AlreadyOutput = Done /\ Done \in Nat
    <3>1. AlreadyOutput = Done
      BY DEF AlreadyOutput, Done
    <3>2. Done \in Nat
      BY <2>1 DEF Done, Seen
    <3>3. QED
      BY <3>1, <3>2
  <2>3. /\ Content \in Seq(Nat) /\ Len(Content) = First + Second
        /\ \A k \in 1 .. First + Second : Content[k] = buff[Place(k)]
    BY <2>1, ContentPlaces
  <2>4. pending \in Seq(Nat) /\ Len(pending) \in Nat /\ First \in Nat /\ Second \in Nat
    BY <2>1, Pieces, LenProperties DEF Types
  <2>5. Len(pending) + Done = First + Second
    BY <2>1 DEF Matches
  <2> DEFINE rest == SubSeq(Content, Done + 1, Len(Content))
  <2>6. \A i \in Done + 1 .. Len(Content) : Content[i] \in Nat
    BY <2>2, <2>3, ElementOfSeq
  <2>7. /\ rest \in Seq(Nat)
        /\ Len(rest) = IF Done + 1 <= Len(Content) THEN Len(Content) - (Done + 1) + 1 ELSE 0
        /\ \A i \in 1 .. Len(Content) - (Done + 1) + 1 : rest[i] = Content[(Done + 1) + i - 1]
    BY <2>2, <2>3, <2>4, <2>6, SubSeqProperties
  <2> HIDE DEF rest
  <2>8. Len(rest) = Len(pending) /\ Len(Content) - (Done + 1) + 1 = Len(pending)
    BY <2>2, <2>3, <2>4, <2>5, <2>7
  <2>9. ASSUME NEW i \in 1 .. Len(pending)  PROVE pending[i] = rest[i]
    <3>1. (Done + 1) + i - 1 = i + Done /\ i + Done \in 1 .. First + Second
      BY <2>2, <2>4, <2>5
    <3>2. rest[i] = Content[i + Done]
      BY <2>7, <2>8, <3>1
    <3>3. QED
      BY <2>1, <2>3, <3>1, <3>2 DEF Matches
  <2>10. pending = rest
    BY <2>4, <2>7, <2>8, <2>9, SeqEqual
  <2>11. QED
    BY <2>2, <2>10 DEF RingHoldsPending, rest
<1>2. QED
  BY <1>1, Invariance, PTL

\* The bytes that _tlog_work reads without the lock are those its snapshot
\* meant, whatever the writers append meanwhile.
THEOREM SnapshotStays == Spec => []SnapshotIntact
<1>1. IInv => SnapshotIntact
  <2> SUFFICES ASSUME IInv PROVE SnapshotIntact
    OBVIOUS
  <2>1. Types /\ Shape /\ Seen /\ Matches
    BY DEF IInv
  <2>2. /\ pending \in Seq(Nat) /\ Len(pending) \in Nat /\ First \in Nat /\ Second \in Nat
        /\ start \in Nat /\ end \in Nat /\ ext_end \in Nat
    BY <2>1, Pieces, LenProperties, LastOffset DEF Types, Shape
  <2>3. start + First <= BuffSize /\ Second <= BuffSize
    BY <2>1, <2>2, LastOffset DEF Shape, First, Second
  <2>4. ASSUME NEW from \in Nat, NEW n \in Nat, from + n <= BuffSize, n <= Len(pending),
               \A i \in 1 .. n : pending[i] = buff[from + i - 1]
        PROVE  Bytes(from, n) = SubSeq(pending, 1, n)
    <3>1. /\ Bytes(from, n) \in Seq(Nat) /\ Len(Bytes(from, n)) = n
          /\ \A i \in 1 .. n : Bytes(from, n)[i] = buff[from + i - 1]
      BY <2>1, <2>4, BytesAreSeq
    <3>2. \A i \in 1 .. n : pending[i] \in Nat
      BY <2>2, <2>4, ElementOfSeq
    <3>3. /\ SubSeq(pending, 1, n) \in Seq(Nat)
          /\ Len(SubSeq(pending, 1, n)) = IF 1 <= n THEN n - 1 + 1 ELSE 0
          /\ \A i \in 1 .. n - 1 + 1 : SubSeq(pending, 1, n)[i] = pending[1 + i - 1]
      BY <3>2, SubSeqProperties
    <3>4. Len(SubSeq(pending, 1, n)) = n /\ n - 1 + 1 = n /\ \A i \in 1 .. n : 1 + i - 1 = i
      BY <3>3
    <3>5. \A i \in 1 .. n : Bytes(from, n)[i] = SubSeq(pending, 1, n)[i]
      BY <2>4, <3>1, <3>3, <3>4
    <3>6. QED
      BY <3>1, <3>3, <3>4, <3>5, SeqEqual
  <2>5. CASE rpc = "write"
    <3>1. snap.log_len \in Nat /\ snap.log_len <= First /\ Done = 0
      BY <2>1, <2>5, SnapshotFits DEF Busy, Done
    <3>2. Len(pending) = First + Second
      BY <2>1, <2>2, <3>1 DEF Matches
    <3>3. \A i \in 1 .. snap.log_len : pending[i] = buff[start + i - 1]
      <4>1. SUFFICES ASSUME NEW i \in 1 .. snap.log_len PROVE pending[i] = buff[start + i - 1]
        OBVIOUS
      <4>2. i \in 1 .. Len(pending) /\ i + Done = i /\ i <= First
        BY <2>2, <3>1, <3>2
      <4>3. pending[i] = buff[Place(i + Done)]
        BY <2>1, <4>2 DEF Matches
      <4>4. QED
        BY <4>2, <4>3 DEF Place
    <3>4. start + snap.log_len <= BuffSize /\ snap.log_len <= Len(pending)
      BY <2>2, <2>3, <3>1, <3>2
    <3>5. Bytes(start, snap.log_len) = SubSeq(pending, 1, snap.log_len)
      BY <2>2, <2>4, <3>1, <3>3, <3>4
    <3>6. QED
      BY <2>5, <3>5 DEF SnapshotIntact
  <2>6. CASE rpc = "writeext"
    <3>1. /\ snap.log_len \in Nat /\ snap.log_extlen \in Nat /\ Done = snap.log_len
          /\ snap.log_extlen > 0 => snap.log_len = First
          /\ snap.log_len + snap.log_extlen <= First + Second
          /\ snap.log_len <= First
      BY <2>1, <2>6, SnapshotFits DEF Busy, Done
    <3>2. Len(pending) + snap.log_len = First + Second
      BY <2>1, <3>1 DEF Matches
    <3>3. \A i \in 1 .. snap.log_extlen : pending[i] = buff[0 + i - 1]
      <4>1. SUFFICES ASSUME NEW i \in 1 .. snap.log_extlen PROVE pending[i] = buff[0 + i - 1]
        OBVIOUS
      <4>2. i \in 1 .. Len(pending) /\ Done = First
        BY <2>2, <3>1, <3>2
      <4>3. pending[i] = buff[Place(i + Done)]
        BY <2>1, <4>2 DEF Matches
      <4>4. Place(i + First) = 0 + i - 1
        BY <2>2, <4>2 DEF Place
      <4>5. QED
        BY <4>2, <4>3, <4>4
    <3>4. 0 + snap.log_extlen <= BuffSize /\ snap.log_extlen <= Len(pending)
      BY <2>2, <2>3, <3>1, <3>2
    <3>5. Bytes(0, snap.log_extlen) = SubSeq(pending, 1, snap.log_extlen)
      BY <2>4, <3>1, <3>3, <3>4
    <3>6. QED
      BY <2>6, <3>5 DEF SnapshotIntact
  <2>7. QED
    BY <2>5, <2>6 DEF SnapshotIntact
<1>2. QED
  BY <1>1, Invariance, PTL
=============================================================================
