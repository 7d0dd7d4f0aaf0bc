---------------------------- MODULE Stages_proofs ----------------------------
(***************************************************************************)
(* Proofs about the stages behind the first-generation camera, for any     *)
(* number of slots, buffers, workers, calls and recordings, and any        *)
(* faults. The ring (FrameQueue) is a queue whose two sides keep apart;    *)
(* the encoders (JpegMtEncoder, and V4l2Encoder for both hardware          *)
(* encoders) keep the types of their state, their slots and buffers, and   *)
(* the contract of Encoder; and since the stages share no state, what      *)
(* holds of an encoder or of the Recorder (Recorder_proofs) alone holds in *)
(* every behaviour of the stages together. Unqualified names are of the    *)
(* ring, names after Hw! of V4l2Encoder, names after Mt! of JpegMtEncoder. *)
(***************************************************************************)
EXTENDS Stages, SequenceTheorems, TLAPS

-----------------------------------------------------------------------------
(* The ring (frame_queue.h): remainders                                    *)

LEMMA DivMod ==
  ASSUME NEW n \in Nat, n > 0, NEW a \in Int
  PROVE  \E q \in Int, r \in 0..n-1 : a = n * q + r /\ a % n = r
<1>1. a % n \in 0..n-1 /\ a \div n \in Int /\ a = n * (a \div n) + (a % n)
  OBVIOUS
<1>. QED BY <1>1

LEMMA RemainderUnique ==
  ASSUME NEW n \in Nat, n > 0, NEW p \in Int, NEW q \in Int, NEW r \in 0..n-1, NEW s \in 0..n-1,
         n * p + r = n * q + s
  PROVE  r = s
<1>1. n * (p - q) = s - r
  OBVIOUS
<1>2. p - q >= 1 => n * (p - q) >= n
  OBVIOUS
<1>3. p - q <= -1 => n * (p - q) <= -n
  OBVIOUS
<1>. QED BY <1>1, <1>2, <1>3

LEMMA ModIs ==
  ASSUME NEW n \in Nat, n > 0, NEW q \in Int, NEW r \in 0..n-1
  PROVE  (n * q + r) % n = r
<1>1. n * q + r \in Int
  OBVIOUS
<1>2. PICK p \in Int, s \in 0..n-1 : n * q + r = n * p + s /\ (n * q + r) % n = s
  BY <1>1, DivMod
<1>. QED BY <1>2, RemainderUnique

LEMMA ModShift ==
  ASSUME NEW n \in Nat, n > 0, NEW a \in Int, NEW k \in Int
  PROVE  (a + n * k) % n = a % n
<1>1. PICK q \in Int, r \in 0..n-1 : a = n * q + r /\ a % n = r
  BY DivMod
<1>2. a + n * k = n * (q + k) + r
  BY <1>1
<1>. QED BY <1>1, <1>2, ModIs

LEMMA ModApart ==
  ASSUME NEW n \in Nat, n > 0, NEW a \in Int, NEW d \in 1..n-1
  PROVE  (a + d) % n # a % n
<1>1. PICK q \in Int, r \in 0..n-1 : a = n * q + r /\ a % n = r
  BY DivMod
<1>2. CASE r + d < n
  <2>1. a + d = n * q + (r + d) /\ r + d \in 0..n-1
    BY <1>1, <1>2
  <2>. QED BY <1>1, <2>1, ModIs
<1>3. CASE r + d >= n
  <2>1. a + d = n * (q + 1) + (r + d - n) /\ r + d - n \in 0..n-1
    BY <1>1, <1>3
  <2>. QED BY <1>1, <2>1, ModIs
<1>. QED BY <1>2, <1>3

-----------------------------------------------------------------------------
(* The ring: the arithmetic of the indices                                 *)

\* The values of an index.
Indices == 0..Modulus-1

\* The slot of the frame i places behind index r.
Slot(r, i) == (r + i) % N

LEMMA Sizes == N \in Nat /\ N >= 2 /\ N > 0 /\ Modulus \in Nat /\ Modulus > N
BY SizesOK

LEMMA Multiple == \E k \in Int : Modulus = N * k
<1>1. PICK k \in Int, r \in 0..N-1 : Modulus = N * k + r /\ Modulus % N = r
  BY SizesOK, DivMod
<1>. QED BY <1>1, SizesOK

LEMMA SlotType ==
  ASSUME NEW r \in Int, NEW i \in Int
  PROVE  Slot(r, i) \in 0..N-1
BY Sizes DEF Slot

LEMMA SlotsDiffer ==
  ASSUME NEW r \in Int, NEW i \in 0..N-1, NEW j \in 0..N-1, i # j
  PROVE  Slot(r, i) # Slot(r, j)
<1>1. ASSUME NEW a \in 0..N-1, NEW b \in 0..N-1, a < b PROVE Slot(r, a) # Slot(r, b)
  <2>1. r + a \in Int /\ b - a \in 1..N-1 /\ (r + a) + (b - a) = r + b
    BY <1>1, Sizes
  <2>2. ((r + a) + (b - a)) % N # (r + a) % N
    BY <2>1, Sizes, ModApart, Zenon
  <2>. QED BY <2>1, <2>2 DEF Slot
<1>. QED BY <1>1, Sizes

\* After N places the slots come round again.
LEMMA SlotsReturn ==
  ASSUME NEW r \in Int
  PROVE  Slot(r, N) = Slot(r, 0)
<1>1. 1 \in Int /\ r + N * 1 = r + N /\ r + 0 = r
  BY Sizes
<1>2. (r + N * 1) % N = r % N
  BY <1>1, Sizes, ModShift, Zenon
<1>. QED BY <1>1, <1>2 DEF Slot

\* An index that wraps round to 0 is of the slot it would be of without wrapping.
LEMMA NextSlot ==
  ASSUME NEW r \in Indices, NEW i \in Int
  PROVE  /\ (r + 1) % Modulus \in Indices
         /\ Slot((r + 1) % Modulus, i) = Slot(r, i + 1)
<1>1. CASE r + 1 < Modulus
  <2>1. (r + 1) % Modulus = r + 1 /\ (r + 1) + i = r + (i + 1)
    BY <1>1, Sizes DEF Indices
  <2>. QED BY <1>1, <2>1, Sizes DEF Indices, Slot
<1>2. CASE r + 1 = Modulus
  <2>1. (r + 1) % Modulus = 0 /\ 0 + i = i
    BY <1>2, Sizes DEF Indices
  <2>2. PICK k \in Int : Modulus = N * k
    BY Multiple
  <2>3. (i + N * k) % N = i % N
    BY Sizes, ModShift, Zenon
  <2>4. r + (i + 1) = i + N * k
    BY <1>2, <2>2, Sizes DEF Indices
  <2>5. Slot((r + 1) % Modulus, i) = Slot(r, i + 1)
    BY <2>1, <2>3, <2>4 DEF Slot
  <2>6. (r + 1) % Modulus \in Indices
    BY <2>1, Sizes DEF Indices
  <2>. QED BY <2>5, <2>6
<1>. QED BY <1>1, <1>2, Sizes DEF Indices

LEMMA SizeAt ==
  ASSUME NEW w \in Indices, NEW r \in Indices
  PROVE  /\ (w - r) % Modulus \in Indices
         /\ (w - r) % Modulus = IF w >= r THEN w - r ELSE w - r + Modulus
<1>1. CASE w >= r
  BY <1>1, Sizes DEF Indices
<1>2. CASE w < r
  BY <1>2, Sizes DEF Indices
<1>. QED BY <1>1, <1>2, Sizes DEF Indices

\* The write index is of the slot behind the last frame.
LEMMA WriteSlot ==
  ASSUME NEW w \in Indices, NEW r \in Indices
  PROVE  w % N = Slot(r, (w - r) % Modulus)
<1>1. CASE w >= r
  <2>1. r + ((w - r) % Modulus) = w
    BY <1>1, SizeAt, Sizes DEF Indices
  <2>. QED BY <2>1 DEF Slot
<1>2. CASE w < r
  <2>1. PICK k \in Int : Modulus = N * k
    BY Multiple
  <2>2. r + ((w - r) % Modulus) = w + N * k
    BY <1>2, <2>1, SizeAt, Sizes DEF Indices
  <2>3. w \in Int
    BY DEF Indices
  <2>4. (w + N * k) % N = w % N
    BY <2>3, Sizes, ModShift, Zenon
  <2>. QED BY <2>2, <2>4 DEF Slot
<1>. QED BY <1>1, <1>2, Sizes DEF Indices

LEMMA SizeIs ==
  ASSUME NEW w \in Indices, NEW r \in Indices, NEW s \in Indices,
         s = w - r \/ s = w - r + Modulus
  PROVE  (w - r) % Modulus = s
BY SizeAt, Sizes DEF Indices

LEMMA NextIndex ==
  ASSUME NEW w \in Indices
  PROVE  \E v \in Indices : v = (w + 1) % Modulus /\ (v = w + 1 \/ v = w + 1 - Modulus)
<1>1. CASE w + 1 < Modulus
  BY <1>1, Sizes DEF Indices
<1>2. CASE w + 1 = Modulus
  BY <1>2, Sizes DEF Indices
<1>. QED BY <1>1, <1>2, Sizes DEF Indices

LEMMA SizeGrows ==
  ASSUME NEW w \in Indices, NEW r \in Indices, (w - r) % Modulus < N
  PROVE  (((w + 1) % Modulus) - r) % Modulus = ((w - r) % Modulus) + 1
<1>1. PICK v \in Indices : v = (w + 1) % Modulus /\ (v = w + 1 \/ v = w + 1 - Modulus)
  BY NextIndex
<1>2. PICK s \in Indices : s = (w - r) % Modulus /\ (s = w - r \/ s = w - r + Modulus)
  BY SizeAt
<1>3. s + 1 \in Indices /\ (s + 1 = v - r \/ s + 1 = v - r + Modulus)
  BY <1>1, <1>2, Sizes DEF Indices
<1>4. (v - r) % Modulus = s + 1
  BY <1>3, SizeIs
<1>. QED BY <1>1, <1>2, <1>4

LEMMA SizeShrinks ==
  ASSUME NEW w \in Indices, NEW r \in Indices, (w - r) % Modulus > 0
  PROVE  (w - ((r + 1) % Modulus)) % Modulus = ((w - r) % Modulus) - 1
<1>1. PICK v \in Indices : v = (r + 1) % Modulus /\ (v = r + 1 \/ v = r + 1 - Modulus)
  BY NextIndex
<1>2. PICK s \in Indices : s = (w - r) % Modulus /\ (s = w - r \/ s = w - r + Modulus)
  BY SizeAt
<1>3. s - 1 \in Indices /\ (s - 1 = w - v \/ s - 1 = w - v + Modulus)
  BY <1>1, <1>2, Sizes DEF Indices
<1>4. (w - v) % Modulus = s - 1
  BY <1>3, SizeIs
<1>. QED BY <1>1, <1>2, <1>4

-----------------------------------------------------------------------------
(* The ring: types, and what it holds                                      *)

LEMMA InitType == Init => TypeOK
<1>. SUFFICES ASSUME Init PROVE TypeOK
  OBVIOUS
<1>1. pushed \in BOOLEAN
  BY DEF Init
<1>. QED BY <1>1, Sizes DEF Init, TypeOK

LEMMA StepType == TypeOK /\ [Next]_vars => TypeOK'
<1>. SUFFICES ASSUME TypeOK, [Next]_vars PROVE TypeOK'
  OBVIOUS
<1>. USE DEF TypeOK, producerVars, consumerVars
<1>1. ASSUME NEW f \in Frames, Push(f) PROVE TypeOK'
  <2>1. pushed' \in BOOLEAN
    BY <1>1 DEF Push
  <2>. QED BY <1>1, <2>1 DEF Push
<1>2. CASE Fill
  BY <1>2 DEF Fill
<1>3. CASE Publish
  <2>1. write' \in 0..Modulus-1 /\ pushed' \in BOOLEAN
    BY <1>3, NextIndex DEF Publish, Indices
  <2>. QED BY <1>3, <2>1 DEF Publish
<1>4. CASE Pop
  BY <1>4 DEF Pop
<1>5. CASE Take
  <2>1. read % N \in 0..N-1
    BY Sizes
  <2>. QED BY <1>5, <2>1 DEF Take
<1>6. CASE Return
  <2>1. read' \in 0..Modulus-1
    BY <1>6, NextIndex DEF Return, Indices
  <2>. QED BY <1>6, <2>1 DEF Return
<1>7. CASE UNCHANGED vars
  BY <1>7 DEF vars
<1>. QED BY <1>1, <1>2, <1>3, <1>4, <1>5, <1>6, <1>7 DEF Next

\* The indices, the slots and what push() and pop() hold keep their types.
THEOREM TypeCorrect == Spec => []TypeOK
<1>. QED BY InitType, StepType, PTL DEF Spec

\* The slots that hold a frame, counted from the read index: a slot pop() has emptied
\* and not yet given back no longer does, one push() has filled and not yet published
\* already does.
First == IF consumer = "publish" THEN 1 ELSE 0
Last  == IF producer = "publish" THEN Size ELSE Size - 1

RingInv ==
    /\ Size \in 0..N
    /\ producer # "idle" => Size < N
    /\ consumer # "idle" => Size > 0
    /\ producer = "fill" => frame \in Frames
    /\ consumer = "publish" => taken \in Frames
    /\ \A i \in 0..N-1 : slots[Slot(read, i)] # Null <=> First <= i /\ i <= Last

\* The facts about the indices the rest is proved from.
LEMMA IndexFacts ==
  ASSUME TypeOK
  PROVE  /\ read \in Int /\ Size \in Indices
         /\ write % N = Slot(read, Size)
         /\ read % N = Slot(read, 0)
         /\ Size = 0 <=> read = write
<1>1. read \in Indices /\ write \in Indices
  BY DEF TypeOK, Indices
<1>2. read \in Int /\ read + 0 = read
  BY <1>1 DEF Indices
<1>3. Size \in Indices /\ Size = IF write >= read THEN write - read ELSE write - read + Modulus
  BY <1>1, SizeAt DEF Size
<1>4. write % N = Slot(read, Size)
  BY <1>1, WriteSlot DEF Size
<1>5. read % N = Slot(read, 0)
  BY <1>2 DEF Slot
<1>6. Size = 0 <=> read = write
  BY <1>1, <1>3, Sizes DEF Indices
<1>. QED BY <1>2, <1>3, <1>4, <1>5, <1>6

LEMMA PublishFacts ==
  ASSUME TypeOK, Size < N, Publish
  PROVE  Size' = Size + 1 /\ read' = read
<1>1. read \in Indices /\ write \in Indices
  BY DEF TypeOK, Indices
<1>. QED BY <1>1, SizeGrows DEF Publish, Size

LEMMA ReturnFacts ==
  ASSUME TypeOK, Size > 0, Return
  PROVE  /\ Size' = Size - 1
         /\ \A i \in Int : Slot(read', i) = Slot(read, i + 1)
<1>1. read \in Indices /\ write \in Indices
  BY DEF TypeOK, Indices
<1>. QED BY <1>1, SizeShrinks, NextSlot DEF Return, Size

LEMMA InitRing == Init => RingInv
<1>. SUFFICES ASSUME Init PROVE RingInv
  OBVIOUS
<1>1. TypeOK
  BY InitType
<1>2. Size = 0
  BY <1>1, IndexFacts DEF Init
<1>3. \A i \in 0..N-1 : slots[Slot(read, i)] = Null
  BY <1>1, IndexFacts, SlotType DEF Init
<1>. QED BY <1>2, <1>3, Sizes DEF Init, RingInv, First, Last

LEMMA StepRing == TypeOK /\ RingInv /\ [Next]_vars => RingInv'
<1>. SUFFICES ASSUME TypeOK, RingInv, [Next]_vars PROVE RingInv'
  OBVIOUS
<1>. USE Sizes, NullIsNoFrame DEF producerVars, consumerVars
<1>0. /\ read \in Int /\ Size \in Int /\ slots \in [0..N-1 -> Frames \cup {Null}]
      /\ \A i \in Int : Slot(read, i) \in 0..N-1
  <2>1. read \in Int /\ Size \in Int
    BY IndexFacts DEF Indices
  <2>. QED BY <2>1, SlotType DEF TypeOK
<1>1. ASSUME NEW f \in Frames, Push(f) PROVE RingInv'
  <2>1. Size' = Size /\ First' = First /\ Last' = Last
    BY <1>1 DEF Push, Size, First, Last
  <2>. QED BY <1>0, <1>1, <2>1 DEF Push, RingInv
<1>2. CASE Fill
  <2>1. Size' = Size /\ First' = First /\ Size < N /\ frame \in Frames
    BY <1>2 DEF Fill, RingInv, Size, First
  <2>2. Last = Size - 1 /\ Last' = Size
    BY <1>2, <2>1 DEF Fill, Last
  <2>3. slots' = [slots EXCEPT ![Slot(read, Size)] = frame] /\ read' = read
    BY <1>2, IndexFacts DEF Fill
  <2>4. \A i \in 0..N-1 : i # Size => slots'[Slot(read, i)] = slots[Slot(read, i)]
    BY <1>0, <2>1, <2>3, SlotsDiffer DEF RingInv
  <2>5. slots'[Slot(read, Size)] = frame
    BY <1>0, <2>3
  <2>6. First <= Size
    BY <1>0 DEF RingInv, First
  <2>7. \A i \in 0..N-1 : slots'[Slot(read', i)] # Null <=> First' <= i /\ i <= Last'
    <3>. SUFFICES ASSUME NEW i \in 0..N-1
                  PROVE  slots'[Slot(read, i)] # Null <=> First <= i /\ i <= Size
      BY <2>1, <2>2, <2>3
    <3>1. CASE i = Size
      BY <2>1, <2>5, <2>6, <3>1
    <3>2. CASE i # Size
      <4>1. slots[Slot(read, i)] # Null <=> First <= i /\ i <= Size - 1
        BY <2>2 DEF RingInv
      <4>. QED BY SMTT(25), <1>0, <2>4, <3>2, <4>1
    <3>. QED BY <3>1, <3>2
  <2>. QED BY <1>2, <2>1, <2>7 DEF Fill, RingInv
<1>3. CASE Publish
  <2>1. Size < N
    BY <1>3 DEF Publish, RingInv
  <2>2. Size' = Size + 1 /\ read' = read
    BY <1>3, <2>1, PublishFacts
  <2>3. First' = First /\ Last' = Last
    BY <1>0, <1>3, <2>2 DEF Publish, First, Last
  <2>. QED BY <1>0, <1>3, <2>1, <2>2, <2>3 DEF Publish, RingInv
<1>4. CASE Pop
  <2>1. Size' = Size /\ First' = First /\ Last' = Last
    BY <1>4 DEF Pop, Size, First, Last
  <2>2. read # write => Size > 0
    BY IndexFacts DEF Indices
  <2>. QED BY <1>0, <1>4, <2>1, <2>2 DEF Pop, RingInv
<1>5. CASE Take
  <2>1. Size' = Size /\ Last' = Last /\ First = 0 /\ First' = 1 /\ Size > 0
    BY <1>5 DEF Take, RingInv, Size, First, Last
  <2>2. /\ slots' = [slots EXCEPT ![Slot(read, 0)] = Null] /\ read' = read
        /\ taken' = slots[Slot(read, 0)]
    BY <1>5, IndexFacts DEF Take
  <2>3. \A i \in 0..N-1 : i # 0 => slots'[Slot(read, i)] = slots[Slot(read, i)]
    BY <1>0, <2>2, SlotsDiffer
  <2>4. slots'[Slot(read, 0)] = Null /\ taken' \in Frames
    <3>1. 0 <= Last
      BY <1>0, <2>1 DEF Last
    <3>2. slots[Slot(read, 0)] # Null
      BY <2>1, <3>1 DEF RingInv
    <3>. QED BY <1>0, <2>2, <3>2
  <2>5. \A i \in 0..N-1 : slots'[Slot(read', i)] # Null <=> First' <= i /\ i <= Last'
    BY <2>1, <2>2, <2>3, <2>4 DEF RingInv
  <2>. QED BY <1>5, <2>1, <2>4, <2>5 DEF Take, RingInv
<1>6. CASE Return
  <2>1. Size > 0 /\ First = 1 /\ First' = 0
    BY <1>6 DEF Return, RingInv, First
  <2>2. Size' = Size - 1 /\ slots' = slots /\ \A i \in Int : Slot(read', i) = Slot(read, i + 1)
    BY <1>6, <2>1, ReturnFacts DEF Return
  <2>3. Last' = Last - 1 /\ Last <= N - 1
    BY <1>0, <1>6, <2>2 DEF Return, RingInv, Last
  <2>4. \A i \in 0..N-1 : slots'[Slot(read', i)] # Null <=> 0 <= i /\ i <= Last - 1
    <3>. SUFFICES ASSUME NEW i \in 0..N-1
                  PROVE  slots[Slot(read, i + 1)] # Null <=> i <= Last - 1
      BY <2>2
    <3>0. Last \in Int
      BY <1>0 DEF Last
    <3>1. CASE i + 1 \in 0..N-1
      <4>1. slots[Slot(read, i + 1)] # Null <=> 1 <= i + 1 /\ i + 1 <= Last
        BY <2>1, <3>1 DEF RingInv
      <4>. QED BY <3>0, <4>1
    <3>2. CASE i + 1 = N      \* the slot given back becomes the last one
      <4>1. slots[Slot(read, 0)] = Null
        BY <2>1 DEF RingInv
      <4>2. Slot(read, i + 1) = Slot(read, 0)
        BY <1>0, <3>2, SlotsReturn
      <4>3. ~(i <= Last - 1)
        BY <2>3, <3>0, <3>2
      <4>. QED BY <4>1, <4>2, <4>3
    <3>. QED BY <3>1, <3>2
  <2>. QED BY <1>0, <1>6, <2>1, <2>2, <2>3, <2>4 DEF Return, RingInv
<1>7. CASE UNCHANGED vars
  <2>1. Size' = Size /\ First' = First /\ Last' = Last
    BY <1>7 DEF vars, Size, First, Last
  <2>. QED BY <1>7, <2>1 DEF vars, RingInv
<1>. QED BY <1>1, <1>2, <1>3, <1>4, <1>5, <1>6, <1>7 DEF Next

LEMMA RingHolds == Spec => [](TypeOK /\ RingInv)
<1>. QED BY InitType, StepType, InitRing, StepRing, PTL DEF Spec

\* push() writes only an empty slot, and never the slot pop() is emptying, although the
\* two share no lock, whatever the capacity and wherever the indices wrap round.
THEOREM SidesApart == Spec => []SlotsApart
<1>1. TypeOK /\ RingInv => SlotsApart
  <2>. SUFFICES ASSUME TypeOK, RingInv, producer = "fill"
                PROVE  slots[write % N] = Null /\ (consumer = "take" => write % N # read % N)
    BY DEF SlotsApart
  <2>1. write % N = Slot(read, Size) /\ read % N = Slot(read, 0) /\ read \in Int
    BY IndexFacts
  <2>2. Size \in 0..N-1 /\ Last = Size - 1
    BY Sizes DEF RingInv, Last
  <2>3. slots[Slot(read, Size)] = Null
    BY <2>2 DEF RingInv
  <2>4. consumer = "take" => Slot(read, Size) # Slot(read, 0)
    BY <2>1, <2>2, Sizes, SlotsDiffer DEF RingInv
  <2>. QED BY <2>1, <2>3, <2>4
<1>. QED BY <1>1, RingHolds, PTL

-----------------------------------------------------------------------------
(* The ring: it implements Fifo                                            *)

\* The i-th frame in the queue.
Item(i) == IF i = 1 /\ consumer = "publish" THEN taken ELSE slots[Slot(read, i - 1)]

\* Contents, the state of Fifo, is what is in the slots, in order.
ContentsInv ==
    /\ Size \in 0..N
    /\ Contents \in Seq(Frames)
    /\ Len(Contents) = Size
    /\ \A i \in 1..Size : Contents[i] = Item(i)

LEMMA ContentsType == TypeOK /\ RingInv => ContentsInv
<1>. SUFFICES ASSUME TypeOK, RingInv PROVE ContentsInv
  OBVIOUS
<1>0. read \in Int /\ Size \in 0..N /\ Size \in Nat
  BY IndexFacts, Sizes DEF RingInv
<1>1. ASSUME NEW i \in 1..Size PROVE Contents[i] = Item(i) /\ Item(i) \in Frames
  <2>1. (read + i) - 1 = read + (i - 1)
    BY <1>0
  <2>2. Contents[i] = Item(i)
    BY <2>1 DEF Contents, Item, Slot
  <2>3. CASE i = 1 /\ consumer = "publish"
    BY <2>2, <2>3 DEF Item, RingInv
  <2>4. CASE ~(i = 1 /\ consumer = "publish")
    <3>1. i - 1 \in 0..N-1 /\ i - 1 \in Int /\ First <= i - 1 /\ i - 1 <= Last
      BY <1>0, <2>4, Sizes DEF First, Last
    <3>2. slots[Slot(read, i - 1)] # Null
      BY <3>1 DEF RingInv
    <3>3. Slot(read, i - 1) \in 0..N-1
      BY <1>0, <3>1, SlotType, Zenon
    <3>4. slots[Slot(read, i - 1)] \in Frames
      BY <3>2, <3>3 DEF TypeOK
    <3>. QED BY <2>2, <2>4, <3>4 DEF Item
  <2>. QED BY <2>3, <2>4, <2>2
<1>2. Contents \in [1..Size -> Frames]
  <2>1. \A i \in 1..Size : Contents[i] \in Frames
    BY <1>1
  <2>. QED BY <2>1 DEF Contents
<1>. QED BY <1>0, <1>1, <1>2 DEF ContentsInv

LEMMA SameContents ==
  ASSUME ContentsInv, ContentsInv', Size' = Size, \A i \in 1..Size : Item(i)' = Item(i)
  PROVE  Contents' = Contents
<1>1. \A i \in 1..Len(Contents) : Contents[i] = Contents'[i]
  BY DEF ContentsInv
<1>2. Contents \in Seq(Frames) /\ Contents' \in Seq(Frames) /\ Len(Contents) = Len(Contents')
  BY DEF ContentsInv
<1>. QED BY <1>1, <1>2, SeqEqual

LEMMA InitFifo == Init => IsFifo!Init
<1>. SUFFICES ASSUME Init PROVE IsFifo!Init
  OBVIOUS
<1>1. ContentsInv
  BY InitType, InitRing, ContentsType
<1>2. Size = 0
  BY InitType, IndexFacts DEF Init
<1>3. Contents = <<>>
  BY <1>1, <1>2, EmptySeq DEF ContentsInv
<1>. QED BY <1>3 DEF Init, IsFifo!Init

LEMMA StepFifo ==
  TypeOK /\ RingInv /\ ContentsInv /\ ContentsInv' /\ [Next]_vars => [IsFifo!Next]_(IsFifo!vars)
<1>. SUFFICES ASSUME TypeOK, RingInv, ContentsInv, ContentsInv', [Next]_vars
              PROVE  [IsFifo!Next]_(IsFifo!vars)
  OBVIOUS
<1>. USE Sizes DEF producerVars, consumerVars
<1>0. read \in Int /\ Size \in 0..N /\ Len(Contents) = Size /\ Contents \in Seq(Frames)
  BY IndexFacts DEF ContentsInv
<1>1. ASSUME UNCHANGED <<pushed, popped>>, Size' = Size, \A i \in 1..Size : Item(i)' = Item(i)
      PROVE  [IsFifo!Next]_(IsFifo!vars)
  BY <1>1, SameContents DEF IsFifo!vars
<1>2. ASSUME NEW f \in Frames, Push(f) PROVE [IsFifo!Next]_(IsFifo!vars)
  <2>1. Size' = Size /\ \A i \in 1..Size : Item(i)' = Item(i)
    BY <1>2 DEF Push, Size, Item
  <2>2. CASE Size = N      \* full
    <3>1. Contents' = Contents
      BY <2>1, SameContents
    <3>. QED BY <1>0, <1>2, <2>2, <3>1 DEF Push, IsFifo!Refuse, IsFifo!Next
  <2>3. CASE Size # N
    BY <1>1, <1>2, <2>1, <2>3 DEF Push
  <2>. QED BY <2>2, <2>3
<1>3. CASE Fill            \* a slot beyond the last frame
  <2>1. Size < N /\ write % N = Slot(read, Size)
    BY <1>3, IndexFacts DEF Fill, RingInv
  <2>2. \A i \in 1..Size : Slot(read, i - 1) # Slot(read, Size)
    BY <1>0, <2>1, SlotsDiffer
  <2>3. \A i \in 1..Size : Item(i)' = Item(i)
    BY <1>3, <2>1, <2>2 DEF Fill, Item, TypeOK
  <2>4. Size' = Size
    BY <1>3 DEF Fill, Size
  <2>. QED BY <1>1, <1>3, <2>3, <2>4 DEF Fill
<1>4. CASE Publish         \* the frame is in the queue
  <2>. DEFINE f == slots[Slot(read, Size)]
  <2>1. Size < N /\ Size' = Size + 1 /\ read' = read
    BY <1>4, PublishFacts DEF Publish, RingInv
  <2>2. \A i \in 1..Size' : Item(i)' = Item(i)
    BY <1>4, <2>1 DEF Publish, Item
  <2>3. Size + 1 = 1 => consumer # "publish"
    BY <1>0 DEF RingInv
  <2>4. Item(Size + 1) = f
    BY <1>0, <2>3 DEF Item
  <2>5. \A i \in 1..Size + 1 : Contents'[i] = IF i <= Size THEN Contents[i] ELSE f
    BY <1>0, <2>1, <2>2, <2>4 DEF ContentsInv
  <2>6. f \in Frames
    <3>1. Contents'[Size + 1] = f /\ Size + 1 \in 1..Len(Contents')
      BY <1>0, <2>1, <2>5 DEF ContentsInv
    <3>. QED BY <3>1, ElementOfSeq DEF ContentsInv
  <2>7. Contents' = Append(Contents, f)
    <3>. HIDE DEF f
    <3>1. Append(Contents, f) \in Seq(Frames) /\ Len(Append(Contents, f)) = Size + 1
      BY <1>0, <2>6, AppendProperties
    <3>2. \A i \in 1..Size + 1 : Append(Contents, f)[i] = IF i <= Size THEN Contents[i] ELSE f
      BY <1>0, <2>6, AppendProperties
    <3>3. Contents' \in Seq(Frames) /\ Len(Contents') = Size + 1
      BY <2>1 DEF ContentsInv
    <3>. QED BY <2>5, <3>1, <3>2, <3>3, SeqEqual
  <2>. QED BY <1>0, <1>4, <2>1, <2>6, <2>7 DEF Publish, IsFifo!Put, IsFifo!Next
<1>5. CASE Pop
  <2>1. Size' = Size /\ \A i \in 1..Size : Item(i)' = Item(i)
    BY <1>5 DEF Pop, Size, Item
  <2>2. CASE read = write  \* empty
    <3>1. Contents' = Contents
      BY <2>1, SameContents
    <3>2. Contents = <<>>
      BY <1>0, <2>2, IndexFacts, EmptySeq
    <3>. QED BY <1>5, <2>2, <3>1, <3>2 DEF Pop, IsFifo!Miss, IsFifo!Next
  <2>3. CASE read # write
    BY <1>1, <1>5, <2>1, <2>3 DEF Pop
  <2>. QED BY <2>2, <2>3
<1>6. CASE Take            \* the first frame moves from its slot to `taken`
  <2>1. read % N = Slot(read, 0)
    BY IndexFacts
  <2>2. \A i \in 1..Size : i # 1 => Slot(read, i - 1) # Slot(read, 0)
    BY <1>0, SlotsDiffer
  <2>3. Item(1)' = Item(1)
    BY <1>6, <2>1 DEF Take, Item
  <2>4. \A i \in 1..Size : Item(i)' = Item(i)
    BY <1>6, <2>1, <2>2, <2>3 DEF Take, Item, TypeOK
  <2>5. Size' = Size
    BY <1>6 DEF Take, Size
  <2>. QED BY <1>1, <1>6, <2>4, <2>5 DEF Take
<1>7. CASE Return          \* the frame leaves the queue
  <2>1. Size > 0 /\ Size' = Size - 1 /\ \A i \in Int : Slot(read', i) = Slot(read, i + 1)
    BY <1>7, ReturnFacts DEF Return, RingInv
  <2>2. Contents # <<>>
    BY <1>0, <2>1, EmptySeq
  <2>3. Head(Contents) = taken
    <3>1. Head(Contents) = Contents[1]
      BY <1>0, <2>2
    <3>2. Contents[1] = Item(1)
      BY <1>0, <2>1 DEF ContentsInv
    <3>. QED BY <1>7, <3>1, <3>2 DEF Return, Item
  <2>4. \A i \in 1..Size - 1 : Item(i)' = Item(i + 1)
    <3>. SUFFICES ASSUME NEW i \in 1..Size - 1 PROVE Item(i)' = Item(i + 1)
      OBVIOUS
    <3>1. i - 1 \in Int /\ (i - 1) + 1 = i /\ (i + 1) - 1 = i /\ i + 1 # 1
      BY <1>0
    <3>2. Slot(read', i - 1) = Slot(read, i)
      BY <2>1, <3>1
    <3>. QED BY <1>7, <3>1, <3>2 DEF Return, Item
  <2>5. Contents' = Tail(Contents)
    <3>1. /\ Tail(Contents) \in Seq(Frames) /\ Len(Tail(Contents)) = Size - 1
          /\ \A i \in 1..Size - 1 : Tail(Contents)[i] = Contents[i + 1]
      BY <1>0, <2>2, HeadTailProperties
    <3>2. Contents' \in Seq(Frames) /\ Len(Contents') = Size - 1
      BY <2>1 DEF ContentsInv
    <3>3. \A i \in 1..Size - 1 : Contents'[i] = Contents[i + 1]
      <4>. SUFFICES ASSUME NEW i \in 1..Size - 1 PROVE Contents'[i] = Contents[i + 1]
        OBVIOUS
      <4>1. i \in 1..Size' /\ i + 1 \in 1..Size
        BY <1>0, <2>1
      <4>2. Contents'[i] = Item(i)' /\ Contents[i + 1] = Item(i + 1)
        BY <4>1, Zenon DEF ContentsInv
      <4>. QED BY <2>4, <4>2
    <3>. QED BY <3>1, <3>2, <3>3, SeqEqual
  <2>. QED BY <1>7, <2>2, <2>3, <2>5 DEF Return, IsFifo!Get, IsFifo!Next
<1>8. CASE UNCHANGED vars
  BY <1>1, <1>8 DEF vars, Size, Item
<1>. QED BY <1>2, <1>3, <1>4, <1>5, <1>6, <1>7, <1>8 DEF Next

\* For every capacity and every range of the indices the ring is a queue: each frame
\* push() accepts is popped once and in order, push() refuses only when the queue is
\* full and pop() returns nullptr only when it is empty.
THEOREM RingIsFifo == Spec => ImplementsFifo
<1>1. Spec => [](TypeOK /\ RingInv /\ ContentsInv)
  BY RingHolds, ContentsType, PTL
<1>. QED BY <1>1, InitFifo, StepFifo, PTL DEF Spec, ImplementsFifo, IsFifo!Spec

-----------------------------------------------------------------------------
(* Sequences                                                               *)

LEMMA AppendIs ==
  ASSUME NEW S, NEW s \in Seq(S), NEW e \in S
  PROVE  /\ Append(s, e) \in Seq(S)
         /\ Len(s) \in Nat /\ Len(Append(s, e)) = Len(s) + 1
         /\ \A i \in 1..Len(s) : Append(s, e)[i] = s[i]
         /\ Append(s, e)[Len(s) + 1] = e
  BY AppendProperties, LenProperties

LEMMA TailIs ==
  ASSUME NEW S, NEW s \in Seq(S), s # <<>>
  PROVE  /\ Tail(s) \in Seq(S)
         /\ Len(s) \in Nat \ {0} /\ Len(Tail(s)) = Len(s) - 1
         /\ \A i \in 1..Len(s) - 1 : Tail(s)[i] = s[i + 1]
         /\ Head(s) \in S /\ Head(s) = s[1]
  BY HeadTailProperties, EmptySeq

LEMMA NoneIs ==
  ASSUME NEW S, NEW s \in Seq(S)
  PROVE  Len(s) \in Nat /\ (Len(s) = 0 <=> s = <<>>)
  BY EmptySeq, LenProperties

-----------------------------------------------------------------------------
(* What is inside an encoder: log from its (d + 1)-th entry on             *)

LEMMA InsideIs ==
  ASSUME NEW S, NEW log \in Seq(S), NEW d \in Nat, d <= Len(log),
         NEW t, t = SubSeq(log, d + 1, Len(log))
  PROVE  /\ t \in Seq(S) /\ Len(log) \in Nat /\ Len(t) = Len(log) - d
         /\ \A i \in 1..Len(log) - d : t[i] = log[d + i]
<1>1. Len(log) \in Nat /\ \A i \in 1..Len(log) : log[i] \in S
  BY ElementOfSeq, LenProperties
<1>. DEFINE m == d + 1
            n == Len(log)
<1>2. m \in Int /\ n \in Int /\ n - m + 1 = n - d /\ (m <= n \/ n - d = 0)
  BY <1>1
<1>3. \A i \in m..n : log[i] \in S
  BY <1>1
<1>4. \A i \in 1..n - d : m + i - 1 = d + i
  BY <1>1
<1>. HIDE DEF m, n
<1>5. /\ SubSeq(log, m, n) \in Seq(S)
      /\ Len(SubSeq(log, m, n)) = IF m <= n THEN n - m + 1 ELSE 0
      /\ \A i \in 1..n - m + 1 : SubSeq(log, m, n)[i] = log[m + i - 1]
  BY <1>2, <1>3, SubSeqProperties
<1>6. Len(SubSeq(log, m, n)) = n - d
  BY <1>2, <1>5
<1>7. \A i \in 1..n - d : SubSeq(log, m, n)[i] = log[d + i]
  BY <1>2, <1>4, <1>5
<1>8. t = SubSeq(log, m, n)
  BY DEF m, n
<1>. QED BY <1>1, <1>5, <1>6, <1>7, <1>8 DEF n

LEMMA InsideAccept ==
  ASSUME NEW S, NEW log \in Seq(S), NEW longer \in Seq(S), Len(longer) = Len(log) + 1,
         \A i \in 1..Len(log) : longer[i] = log[i],
         NEW d \in Nat, d <= Len(log),
         NEW old, old = SubSeq(log, d + 1, Len(log)),
         NEW new, new = SubSeq(longer, d + 1, Len(longer))
  PROVE  Len(new) = Len(old) + 1 /\ SubSeq(new, 1, Len(old)) = old
<1>1. Len(log) \in Nat /\ d <= Len(longer)
  BY LenProperties
<1>2. /\ old \in Seq(S) /\ Len(old) = Len(log) - d /\ Len(old) \in Nat
      /\ \A i \in 1..Len(log) - d : old[i] = log[d + i]
  BY <1>1, InsideIs
<1>3. /\ new \in Seq(S) /\ Len(new) = Len(longer) - d
      /\ \A i \in 1..Len(longer) - d : new[i] = longer[d + i]
  BY <1>1, InsideIs
<1>4. ASSUME NEW i \in 1..Len(old) PROVE new[i] = old[i]
  <2>1. i \in 1..Len(log) - d /\ d + i \in 1..Len(log)
    BY SMTT(25), <1>1, <1>2
  <2>2. i \in 1..Len(longer) - d
    BY <1>1, <2>1
  <2>. QED BY <1>2, <1>3, <2>1, <2>2
<1>5. \A i \in 1..Len(old) : new[i] = old[i]
  BY <1>4
<1>6. Len(new) = Len(old) + 1
  BY <1>1, <1>2, <1>3
<1>7. \A i \in 1..Len(old) : new[i] \in S
  BY <1>2, <1>5, ElementOfSeq
<1>8. /\ SubSeq(new, 1, Len(old)) \in Seq(S)
      /\ Len(SubSeq(new, 1, Len(old))) = Len(old)
      /\ \A i \in 1..Len(old) : SubSeq(new, 1, Len(old))[i] = new[i]
  <2>1. 1 \in Int /\ Len(old) \in Int /\ Len(old) - 1 + 1 = Len(old)
        /\ (1 <= Len(old) \/ Len(old) = 0) /\ \A i \in 1..Len(old) : 1 + i - 1 = i
    BY <1>2
  <2>2. /\ SubSeq(new, 1, Len(old)) \in Seq(S)
        /\ Len(SubSeq(new, 1, Len(old))) = IF 1 <= Len(old) THEN Len(old) - 1 + 1 ELSE 0
        /\ \A i \in 1..Len(old) - 1 + 1 : SubSeq(new, 1, Len(old))[i] = new[1 + i - 1]
    BY <1>7, <2>1, SubSeqProperties
  <2>. QED BY <2>1, <2>2
<1>. QED BY <1>2, <1>5, <1>6, <1>8, SeqEqual

LEMMA InsideDeliver ==
  ASSUME NEW S, NEW log \in Seq(S), NEW d \in Nat, d + 1 <= Len(log),
         NEW old, old = SubSeq(log, d + 1, Len(log))
  PROVE  /\ old # <<>> /\ Head(old) = log[d + 1]
         /\ Tail(old) = SubSeq(log, (d + 1) + 1, Len(log))
<1>1. Len(log) \in Nat /\ d + 1 \in 1..Len(log) /\ Len(log) \in d + 1..Len(log) /\ d <= Len(log)
  BY LenProperties
<1>2. Len(old) # 0
  BY <1>1, InsideIs
<1>. QED BY <1>1, <1>2, EmptySeq, HeadTailOfSubSeq

-----------------------------------------------------------------------------
(* The hardware encoders (h264_hw_encoder.cpp, jpeg_hw_encoder.cpp): types *)

USE DEF Hw!Slots, Hw!Calls, Hw!Threads, Hw!Nothing, Hw!logVars, Hw!inVars, Hw!codecVars,
        Hw!flagVars, Hw!At, Hw!Goto, Hw!Set

\* What a CAPTURE buffer holds.
Results == [slot : {Hw!Nothing}, frame : Hw!Calls, buffer : CaptureBuffers]

\* Where a thread may be, and what it has there.
CodecLabels ==
    /\ pc["feeder"] \in {"idle", "queue"}
    /\ pc["output"] \in {"wait", "deliver", "requeue", "exited"}
    /\ pc["feeder"] = "queue" =>
          owner = "open" /\ calls \in Hw!Calls /\ item["feeder"].slot \in Hw!Slots
    /\ kind = "h264" => pc["poll"] \in {"poll", "dequeue", "drop", "collect", "exited"}
    /\ kind = "jpeg_hw" =>
          /\ pc["poll"] \in {"test", "poll", "dequeue", "drop", "collect", "deliver", "requeue",
                             "exited"}
          /\ pc["output"] = "exited" /\ outputQueue = <<>>
    /\ full \in Seq(Results) /\ outputQueue \in Seq(Results)
    /\ \A t \in {"poll", "output"} : pc[t] \in {"deliver", "requeue"} => item[t] \in Results

\* The types, with what the labels say.
CodecTypes == Hw!TypeOK /\ CodecLabels

LEMMA ResultsAreItems == Results \subseteq Hw!Items
  BY DEF Results, Hw!Items

LEMMA InitCodecTypes == Hw!Init => CodecTypes
<1>. SUFFICES ASSUME Hw!Init PROVE CodecTypes
  OBVIOUS
<1>1. free \in Seq(Hw!Slots)
  BY BoundsOK DEF Hw!Init
<1>2. Hw!NoItem \in Hw!Items
  BY DEF Hw!NoItem, Hw!Items
<1>3. \A S : <<>> \in Seq(S)
  BY EmptySeq
<1>4. Hw!TypeOK
  <2>1. pc \in [Hw!Threads -> {"idle", "queue", "test", "poll", "dequeue", "drop", "collect",
                            "wait", "deliver", "requeue", "exited"}]
    BY DEF Hw!Init, Hw!LoopHead
  <2>2. abortPoll \in BOOLEAN /\ abortOutput \in BOOLEAN /\ broken \in BOOLEAN
    BY DEF Hw!Init
  <2>3. item \in [Hw!Threads -> Hw!Items] /\ pending \in [Hw!Slots -> Hw!Calls \cup {Hw!Nothing}]
    BY <1>2 DEF Hw!Init
  <2>4. /\ accepted \in Seq(Hw!Calls) /\ delivered \in Seq(Hw!Calls) /\ coding \in Seq(Hw!Calls)
        /\ queued \in Seq(Hw!Slots) /\ readSlots \in Seq(Hw!Slots)
        /\ full \in Seq(Hw!Items) /\ outputQueue \in Seq(Hw!Items)
    BY <1>3 DEF Hw!Init
  <2>5. /\ kind \in {"h264", "jpeg_hw"} /\ calls \in 0..MaxCalls
        /\ owner \in {"open", "join_poll", "join_output", "stream_off", "gone"}
        /\ empty \subseteq CaptureBuffers
    BY BoundsOK DEF Hw!Init
  <2>. QED BY <1>1, <2>1, <2>2, <2>3, <2>4, <2>5 DEF Hw!TypeOK
<1>5. CodecLabels
  BY <1>3 DEF Hw!Init, Hw!LoopHead, CodecLabels
<1>. QED BY <1>4, <1>5 DEF CodecTypes

\* TypeOK, in parts.
CodecFlags   == abortPoll \in BOOLEAN /\ abortOutput \in BOOLEAN /\ broken \in BOOLEAN
CodecLogs    == calls \in 0..MaxCalls /\ accepted \in Seq(Hw!Calls) /\ delivered \in Seq(Hw!Calls)
CodecThreads ==
    /\ kind \in {"h264", "jpeg_hw"}
    /\ owner \in {"open", "join_poll", "join_output", "stream_off", "gone"}
    /\ pc \in [Hw!Threads -> {"idle", "queue", "test", "poll", "dequeue", "drop", "collect",
                           "wait", "deliver", "requeue", "exited"}]
    /\ item \in [Hw!Threads -> Hw!Items]
CodecQueues  ==
    /\ free \in Seq(Hw!Slots)
    /\ pending \in [Hw!Slots -> Hw!Calls \cup {Hw!Nothing}]
    /\ queued \in Seq(Hw!Slots) /\ readSlots \in Seq(Hw!Slots) /\ coding \in Seq(Hw!Calls)
    /\ empty \subseteq CaptureBuffers
    /\ full \in Seq(Hw!Items) /\ outputQueue \in Seq(Hw!Items)

LEMMA CodecParts == Hw!TypeOK <=> CodecFlags /\ CodecLogs /\ CodecThreads /\ CodecQueues
  BY DEF Hw!TypeOK, CodecFlags, CodecLogs, CodecThreads, CodecQueues

LEMMA StepCodecFlags == CodecFlags /\ [Hw!Next]_(Hw!vars) => CodecFlags'
<1>. SUFFICES ASSUME CodecFlags, [Hw!Next]_(Hw!vars) PROVE CodecFlags'
  OBVIOUS
<1>. USE DEF CodecFlags
<1>1. CASE Hw!Refuse
  BY <1>1 DEF Hw!Refuse
<1>2. CASE Hw!TakeSlot
  BY <1>2 DEF Hw!TakeSlot
<1>3. CASE Hw!QueueOutput
  BY <1>3 DEF Hw!QueueOutput
<1>4. CASE Hw!QueueFails
  BY <1>4 DEF Hw!QueueFails
<1>5. CASE Hw!AbortPoll
  BY <1>5 DEF Hw!AbortPoll
<1>6. CASE Hw!ReadSlot
  BY <1>6 DEF Hw!ReadSlot
<1>7. ASSUME NEW b \in CaptureBuffers, Hw!WriteResult(b) PROVE CodecFlags'
  BY <1>7 DEF Hw!WriteResult
<1>8. CASE Hw!TestAbort
  BY <1>8 DEF Hw!TestAbort
<1>9. CASE Hw!PollTimesOut
  BY <1>9 DEF Hw!PollTimesOut
<1>10. CASE Hw!PollDrained
  BY <1>10 DEF Hw!PollDrained
<1>11. CASE Hw!PollReady
  BY <1>11 DEF Hw!PollReady
<1>12. CASE Hw!PollFails
  BY <1>12 DEF Hw!PollFails
<1>13. CASE Hw!DequeueOutput
  BY <1>13 DEF Hw!DequeueOutput
<1>14. CASE Hw!DropFrame
  BY <1>14 DEF Hw!DropFrame
<1>15. CASE Hw!DequeueCapture
  BY <1>15 DEF Hw!DequeueCapture
<1>16. ASSUME NEW t \in {"poll", "output"}, Hw!Deliver(t) PROVE CodecFlags'
  BY <1>16 DEF Hw!Deliver
<1>17. ASSUME NEW t \in {"poll", "output"}, Hw!Requeue(t) PROVE CodecFlags'
  BY <1>17 DEF Hw!Requeue
<1>18. CASE Hw!TakeOutput
  BY <1>18 DEF Hw!TakeOutput
<1>19. CASE Hw!OutputExits
  BY <1>19 DEF Hw!OutputExits
<1>20. CASE Hw!JoinPoll
  BY <1>20 DEF Hw!JoinPoll
<1>21. CASE Hw!JoinOutput
  BY <1>21 DEF Hw!JoinOutput
<1>22. CASE Hw!Destroy
  BY <1>22 DEF Hw!Destroy
<1>23. CASE UNCHANGED Hw!vars
  BY <1>23 DEF Hw!vars
<1>. QED BY <1>1, <1>2, <1>3, <1>4, <1>5, <1>6, <1>7, <1>8, <1>9, <1>10, <1>11, <1>12, <1>13,
            <1>14, <1>15, <1>16, <1>17, <1>18, <1>19, <1>20, <1>21, <1>22, <1>23
         DEF Hw!Next, Hw!Feed, Hw!Codec, Hw!Poll, Hw!Hand, Hw!Drain, Hw!Join

LEMMA StepCodecLogs == CodecTypes /\ [Hw!Next]_(Hw!vars) => CodecLogs'
<1>. SUFFICES ASSUME CodecTypes, [Hw!Next]_(Hw!vars) PROVE CodecLogs'
  OBVIOUS
<1>0. CodecLogs /\ CodecLabels
  BY CodecParts DEF CodecTypes
<1>1. CASE Hw!Refuse
  BY <1>1, <1>0, BoundsOK DEF Hw!Refuse, CodecLogs
<1>2. CASE Hw!TakeSlot
  BY <1>2, <1>0, BoundsOK DEF Hw!TakeSlot, CodecLogs
<1>3. CASE Hw!QueueOutput
  <2>1. accepted' \in Seq(Hw!Calls)
    BY <1>3, <1>0, AppendIs DEF Hw!QueueOutput, CodecLogs, CodecLabels
  <2>. QED BY <1>3, <1>0, <2>1 DEF Hw!QueueOutput, CodecLogs
<1>4. CASE Hw!QueueFails
  BY <1>4, <1>0 DEF Hw!QueueFails, CodecLogs
<1>5. CASE Hw!AbortPoll
  BY <1>5, <1>0 DEF Hw!AbortPoll, CodecLogs
<1>6. CASE Hw!ReadSlot
  BY <1>6, <1>0 DEF Hw!ReadSlot, CodecLogs
<1>7. ASSUME NEW b \in CaptureBuffers, Hw!WriteResult(b) PROVE CodecLogs'
  BY <1>7, <1>0 DEF Hw!WriteResult, CodecLogs
<1>8. CASE Hw!TestAbort
  BY <1>8, <1>0 DEF Hw!TestAbort, CodecLogs
<1>9. CASE Hw!PollTimesOut
  BY <1>9, <1>0 DEF Hw!PollTimesOut, CodecLogs
<1>10. CASE Hw!PollDrained
  BY <1>10, <1>0 DEF Hw!PollDrained, CodecLogs
<1>11. CASE Hw!PollReady
  BY <1>11, <1>0 DEF Hw!PollReady, CodecLogs
<1>12. CASE Hw!PollFails
  BY <1>12, <1>0 DEF Hw!PollFails, CodecLogs
<1>13. CASE Hw!DequeueOutput
  BY <1>13, <1>0 DEF Hw!DequeueOutput, CodecLogs
<1>14. CASE Hw!DropFrame
  BY <1>14, <1>0 DEF Hw!DropFrame, CodecLogs
<1>15. CASE Hw!DequeueCapture
  BY <1>15, <1>0 DEF Hw!DequeueCapture, CodecLogs
<1>16. ASSUME NEW t \in {"poll", "output"}, Hw!Deliver(t) PROVE CodecLogs'
  <2>1. item[t].frame \in Hw!Calls
    BY <1>16, <1>0 DEF Hw!Deliver, CodecLabels, Results
  <2>2. delivered' \in Seq(Hw!Calls)
    BY <1>16, <1>0, <2>1, AppendIs DEF Hw!Deliver, CodecLogs
  <2>. QED BY <1>16, <1>0, <2>2 DEF Hw!Deliver, CodecLogs
<1>17. ASSUME NEW t \in {"poll", "output"}, Hw!Requeue(t) PROVE CodecLogs'
  BY <1>17, <1>0 DEF Hw!Requeue, CodecLogs
<1>18. CASE Hw!TakeOutput
  BY <1>18, <1>0 DEF Hw!TakeOutput, CodecLogs
<1>19. CASE Hw!OutputExits
  BY <1>19, <1>0 DEF Hw!OutputExits, CodecLogs
<1>20. CASE Hw!JoinPoll
  BY <1>20, <1>0 DEF Hw!JoinPoll, CodecLogs
<1>21. CASE Hw!JoinOutput
  BY <1>21, <1>0 DEF Hw!JoinOutput, CodecLogs
<1>22. CASE Hw!Destroy
  BY <1>22, <1>0 DEF Hw!Destroy, CodecLogs
<1>23. CASE UNCHANGED Hw!vars
  BY <1>23, <1>0 DEF Hw!vars, CodecLogs
<1>. QED BY <1>1, <1>2, <1>3, <1>4, <1>5, <1>6, <1>7, <1>8, <1>9, <1>10, <1>11, <1>12, <1>13,
            <1>14, <1>15, <1>16, <1>17, <1>18, <1>19, <1>20, <1>21, <1>22, <1>23
         DEF Hw!Next, Hw!Feed, Hw!Codec, Hw!Poll, Hw!Hand, Hw!Drain, Hw!Join

LEMMA StepCodecThreads == CodecTypes /\ [Hw!Next]_(Hw!vars) => CodecThreads'
<1>. SUFFICES ASSUME CodecTypes, [Hw!Next]_(Hw!vars) PROVE CodecThreads'
  OBVIOUS
<1>0. CodecThreads /\ CodecQueues /\ CodecLabels
  BY CodecParts DEF CodecTypes
<1>. USE DEF CodecThreads
<1>a. Hw!NoItem \in Hw!Items
  BY DEF Hw!NoItem, Hw!Items
<1>1. CASE Hw!Refuse
  BY <1>1, <1>0, <1>a DEF Hw!Refuse
<1>2. CASE Hw!TakeSlot
  <2>1. [Hw!NoItem EXCEPT !.slot = Head(free)] \in Hw!Items
    BY <1>2, <1>0, TailIs DEF Hw!TakeSlot, CodecQueues, Hw!NoItem, Hw!Items
  <2>. QED BY <1>2, <1>0, <2>1 DEF Hw!TakeSlot
<1>3. CASE Hw!QueueOutput
  BY <1>3, <1>0, <1>a DEF Hw!QueueOutput
<1>4. CASE Hw!QueueFails
  BY <1>4, <1>0, <1>a DEF Hw!QueueFails
<1>5. CASE Hw!AbortPoll
  BY <1>5, <1>0, <1>a DEF Hw!AbortPoll
<1>6. CASE Hw!ReadSlot
  BY <1>6, <1>0, <1>a DEF Hw!ReadSlot
<1>7. ASSUME NEW b \in CaptureBuffers, Hw!WriteResult(b) PROVE CodecThreads'
  BY <1>7, <1>0, <1>a DEF Hw!WriteResult
<1>8. CASE Hw!TestAbort
  BY <1>8, <1>0, <1>a DEF Hw!TestAbort
<1>9. CASE Hw!PollTimesOut
  BY <1>9, <1>0, <1>a DEF Hw!PollTimesOut
<1>10. CASE Hw!PollDrained
  BY <1>10, <1>0, <1>a DEF Hw!PollDrained
<1>11. CASE Hw!PollReady
  BY <1>11, <1>0, <1>a DEF Hw!PollReady
<1>12. CASE Hw!PollFails
  BY <1>12, <1>0, <1>a DEF Hw!PollFails
<1>13. CASE Hw!DequeueOutput
  <2>1. pending[Head(readSlots)] \in Hw!Calls \cup {Hw!Nothing}
    BY <1>13, <1>0, TailIs DEF Hw!DequeueOutput, CodecQueues
  <2>2. [Hw!NoItem EXCEPT !.frame = pending[Head(readSlots)]] \in Hw!Items
    BY <2>1 DEF Hw!NoItem, Hw!Items
  <2>. QED BY <1>13, <1>0, <2>2 DEF Hw!DequeueOutput
<1>14. CASE Hw!DropFrame
  BY <1>14, <1>0, <1>a DEF Hw!DropFrame
<1>15. CASE Hw!DequeueCapture
  <2>1. Head(full) \in Hw!Items
    BY <1>15, <1>0, TailIs DEF Hw!DequeueCapture, CodecQueues
  <2>. QED BY <1>15, <1>0, <2>1 DEF Hw!DequeueCapture
<1>16. ASSUME NEW t \in {"poll", "output"}, Hw!Deliver(t) PROVE CodecThreads'
  BY <1>16, <1>0, <1>a DEF Hw!Deliver
<1>17. ASSUME NEW t \in {"poll", "output"}, Hw!Requeue(t) PROVE CodecThreads'
  BY <1>17, <1>0, <1>a DEF Hw!Requeue
<1>18. CASE Hw!TakeOutput
  <2>1. Head(outputQueue) \in Hw!Items
    BY <1>18, <1>0, TailIs DEF Hw!TakeOutput, CodecQueues
  <2>. QED BY <1>18, <1>0, <2>1 DEF Hw!TakeOutput
<1>19. CASE Hw!OutputExits
  BY <1>19, <1>0, <1>a DEF Hw!OutputExits
<1>20. CASE Hw!JoinPoll
  BY <1>20, <1>0, <1>a DEF Hw!JoinPoll
<1>21. CASE Hw!JoinOutput
  BY <1>21, <1>0, <1>a DEF Hw!JoinOutput
<1>22. CASE Hw!Destroy
  BY <1>22, <1>0, <1>a DEF Hw!Destroy
<1>23. CASE UNCHANGED Hw!vars
  BY <1>23, <1>0, <1>a DEF Hw!vars
<1>. QED BY <1>1, <1>2, <1>3, <1>4, <1>5, <1>6, <1>7, <1>8, <1>9, <1>10, <1>11, <1>12, <1>13,
            <1>14, <1>15, <1>16, <1>17, <1>18, <1>19, <1>20, <1>21, <1>22, <1>23
         DEF Hw!Next, Hw!Feed, Hw!Codec, Hw!Poll, Hw!Hand, Hw!Drain, Hw!Join

LEMMA StepCodecQueues == CodecTypes /\ [Hw!Next]_(Hw!vars) => CodecQueues'
<1>. SUFFICES ASSUME CodecTypes, [Hw!Next]_(Hw!vars) PROVE CodecQueues'
  OBVIOUS
<1>0. CodecThreads /\ CodecQueues /\ CodecLabels /\ CodecLogs
  BY CodecParts DEF CodecTypes
<1>a. \A S : <<>> \in Seq(S)
  BY EmptySeq
<1>. USE DEF CodecQueues
<1>1. CASE Hw!Refuse
  BY <1>1, <1>0 DEF Hw!Refuse
<1>2. CASE Hw!TakeSlot
  <2>1. Head(free) \in Hw!Slots /\ free' \in Seq(Hw!Slots)
    BY <1>2, <1>0, TailIs DEF Hw!TakeSlot
  <2>2. calls' \in Hw!Calls
    <3>1. calls \in 0..MaxCalls /\ calls < MaxCalls /\ calls' = calls + 1
      BY <1>2, <1>0 DEF Hw!TakeSlot, CodecLogs
    <3>. QED BY <3>1, BoundsOK
  <2>3. pending' \in [Hw!Slots -> Hw!Calls \cup {Hw!Nothing}]
    BY <1>2, <1>0, <2>1, <2>2 DEF Hw!TakeSlot
  <2>. QED BY <1>2, <1>0, <2>1, <2>3 DEF Hw!TakeSlot
<1>3. CASE Hw!QueueOutput
  <2>1. queued' \in Seq(Hw!Slots) /\ coding' \in Seq(Hw!Calls)
    BY <1>3, <1>0, AppendIs DEF Hw!QueueOutput, CodecLabels
  <2>. QED BY <1>3, <1>0, <2>1 DEF Hw!QueueOutput
<1>4. CASE Hw!QueueFails
  <2>1. free' \in Seq(Hw!Slots)
    BY <1>4, <1>0, AppendIs DEF Hw!QueueFails, CodecLabels
  <2>. QED BY <1>4, <1>0, <2>1 DEF Hw!QueueFails
<1>5. CASE Hw!AbortPoll
  BY <1>5, <1>0 DEF Hw!AbortPoll
<1>6. CASE Hw!ReadSlot
  <2>1. Head(queued) \in Hw!Slots /\ queued' \in Seq(Hw!Slots)
    BY <1>6, <1>0, TailIs DEF Hw!ReadSlot
  <2>2. readSlots' \in Seq(Hw!Slots)
    BY <1>6, <1>0, <2>1, AppendIs DEF Hw!ReadSlot
  <2>. QED BY <1>6, <1>0, <2>1, <2>2 DEF Hw!ReadSlot
<1>7. ASSUME NEW b \in CaptureBuffers, Hw!WriteResult(b) PROVE CodecQueues'
  <2>1. Head(coding) \in Hw!Calls /\ coding' \in Seq(Hw!Calls)
    BY <1>7, <1>0, TailIs DEF Hw!WriteResult
  <2>2. [Hw!NoItem EXCEPT !.buffer = b, !.frame = Head(coding)] \in Hw!Items
    BY <1>7, <2>1 DEF Hw!NoItem, Hw!Items
  <2>3. full' \in Seq(Hw!Items)
    BY <1>7, <1>0, <2>2, AppendIs DEF Hw!WriteResult
  <2>. QED BY <1>7, <1>0, <2>1, <2>3 DEF Hw!WriteResult
<1>8. CASE Hw!TestAbort
  BY <1>8, <1>0 DEF Hw!TestAbort
<1>9. CASE Hw!PollTimesOut
  BY <1>9, <1>0 DEF Hw!PollTimesOut
<1>10. CASE Hw!PollDrained
  BY <1>10, <1>0 DEF Hw!PollDrained
<1>11. CASE Hw!PollReady
  BY <1>11, <1>0 DEF Hw!PollReady
<1>12. CASE Hw!PollFails
  BY <1>12, <1>0 DEF Hw!PollFails
<1>13. CASE Hw!DequeueOutput
  <2>1. Head(readSlots) \in Hw!Slots /\ readSlots' \in Seq(Hw!Slots)
    BY <1>13, <1>0, TailIs DEF Hw!DequeueOutput
  <2>2. free' \in Seq(Hw!Slots)
    BY <1>13, <1>0, <2>1, AppendIs DEF Hw!DequeueOutput
  <2>. QED BY <1>13, <1>0, <2>1, <2>2 DEF Hw!DequeueOutput
<1>14. CASE Hw!DropFrame
  BY <1>14, <1>0 DEF Hw!DropFrame
<1>15. CASE Hw!DequeueCapture
  <2>1. Head(full) \in Hw!Items /\ full' \in Seq(Hw!Items)
    BY <1>15, <1>0, TailIs DEF Hw!DequeueCapture
  <2>2. Append(outputQueue, Head(full)) \in Seq(Hw!Items)
    BY <1>0, <2>1, AppendIs
  <2>. QED BY <1>15, <1>0, <2>1, <2>2 DEF Hw!DequeueCapture
<1>16. ASSUME NEW t \in {"poll", "output"}, Hw!Deliver(t) PROVE CodecQueues'
  BY <1>16, <1>0 DEF Hw!Deliver
<1>17. ASSUME NEW t \in {"poll", "output"}, Hw!Requeue(t) PROVE CodecQueues'
  <2>1. item[t].buffer \in CaptureBuffers
    BY <1>17, <1>0 DEF Hw!Requeue, CodecLabels, Results
  <2>. QED BY <1>17, <1>0, <2>1 DEF Hw!Requeue
<1>18. CASE Hw!TakeOutput
  <2>1. outputQueue' \in Seq(Hw!Items)
    BY <1>18, <1>0, TailIs DEF Hw!TakeOutput
  <2>. QED BY <1>18, <1>0, <2>1 DEF Hw!TakeOutput
<1>19. CASE Hw!OutputExits
  BY <1>19, <1>0 DEF Hw!OutputExits
<1>20. CASE Hw!JoinPoll
  BY <1>20, <1>0 DEF Hw!JoinPoll
<1>21. CASE Hw!JoinOutput
  BY <1>21, <1>0 DEF Hw!JoinOutput
<1>22. CASE Hw!Destroy
  BY <1>22, <1>0, <1>a DEF Hw!Destroy
<1>23. CASE UNCHANGED Hw!vars
  BY <1>23, <1>0 DEF Hw!vars
<1>. QED BY <1>1, <1>2, <1>3, <1>4, <1>5, <1>6, <1>7, <1>8, <1>9, <1>10, <1>11, <1>12, <1>13,
            <1>14, <1>15, <1>16, <1>17, <1>18, <1>19, <1>20, <1>21, <1>22, <1>23
         DEF Hw!Next, Hw!Feed, Hw!Codec, Hw!Poll, Hw!Hand, Hw!Drain, Hw!Join

LEMMA StepCodecLabels == CodecTypes /\ [Hw!Next]_(Hw!vars) => CodecLabels'
<1>. SUFFICES ASSUME CodecTypes, [Hw!Next]_(Hw!vars) PROVE CodecLabels'
  OBVIOUS
<1>0. CodecThreads /\ CodecQueues /\ CodecLabels /\ CodecLogs
  BY CodecParts DEF CodecTypes
<1>a. <<>> \in Seq(Results)
  BY EmptySeq
<1>. USE DEF CodecLabels, CodecThreads
<1>1. CASE Hw!Refuse
  BY <1>1, <1>0 DEF Hw!Refuse
<1>2. CASE Hw!TakeSlot
  <2>1. Head(free) \in Hw!Slots
    BY <1>2, <1>0, TailIs DEF Hw!TakeSlot, CodecQueues
  <2>2. calls' \in Hw!Calls
    <3>1. calls \in 0..MaxCalls /\ calls < MaxCalls /\ calls' = calls + 1
      BY <1>2, <1>0 DEF Hw!TakeSlot, CodecLogs
    <3>. QED BY <3>1, BoundsOK
  <2>3. item'["feeder"].slot \in Hw!Slots /\ \A t \in {"poll", "output"} : item'[t] = item[t]
    BY <1>2, <1>0, <2>1 DEF Hw!TakeSlot, Hw!NoItem
  <2>. QED BY <1>2, <1>0, <2>2, <2>3 DEF Hw!TakeSlot
<1>3. CASE Hw!QueueOutput
  BY <1>3, <1>0 DEF Hw!QueueOutput
<1>4. CASE Hw!QueueFails
  BY <1>4, <1>0 DEF Hw!QueueFails
<1>5. CASE Hw!AbortPoll
  BY <1>5, <1>0 DEF Hw!AbortPoll
<1>6. CASE Hw!ReadSlot
  BY <1>6, <1>0 DEF Hw!ReadSlot
<1>7. ASSUME NEW b \in CaptureBuffers, Hw!WriteResult(b) PROVE CodecLabels'
  <2>1. Head(coding) \in Hw!Calls
    BY <1>7, <1>0, TailIs DEF Hw!WriteResult, CodecQueues
  <2>2. [Hw!NoItem EXCEPT !.buffer = b, !.frame = Head(coding)] \in Results
    BY <1>7, <2>1 DEF Hw!NoItem, Results
  <2>3. full' \in Seq(Results)
    BY <1>7, <1>0, <2>2, AppendIs DEF Hw!WriteResult
  <2>. QED BY <1>7, <1>0, <2>3 DEF Hw!WriteResult
<1>8. CASE Hw!TestAbort
  BY <1>8, <1>0 DEF Hw!TestAbort
<1>9. CASE Hw!PollTimesOut
  BY <1>9, <1>0 DEF Hw!PollTimesOut
<1>10. CASE Hw!PollDrained
  BY <1>10, <1>0 DEF Hw!PollDrained
<1>11. CASE Hw!PollReady
  BY <1>11, <1>0 DEF Hw!PollReady
<1>12. CASE Hw!PollFails
  BY <1>12, <1>0 DEF Hw!PollFails
<1>13. CASE Hw!DequeueOutput
  <2>1. item'["feeder"] = item["feeder"] /\ item'["output"] = item["output"]
    BY <1>13, <1>0 DEF Hw!DequeueOutput
  <2>2. pc'["poll"] = "drop" /\ pc'["output"] = pc["output"] /\ pc'["feeder"] = pc["feeder"]
    BY <1>13, <1>0 DEF Hw!DequeueOutput
  <2>. QED BY <1>13, <1>0, <2>1, <2>2 DEF Hw!DequeueOutput
<1>14. CASE Hw!DropFrame
  BY <1>14, <1>0 DEF Hw!DropFrame
<1>15. CASE Hw!DequeueCapture
  <2>1. Head(full) \in Results /\ full' \in Seq(Results)
    BY <1>15, <1>0, TailIs DEF Hw!DequeueCapture
  <2>2. CASE kind = "h264"
    <3>1. Append(outputQueue, Head(full)) \in Seq(Results)
      BY <1>0, <2>1, AppendIs
    <3>. QED BY <1>15, <1>0, <2>1, <2>2, <3>1 DEF Hw!DequeueCapture
  <2>3. CASE kind = "jpeg_hw"
    BY <1>15, <1>0, <2>1, <2>3 DEF Hw!DequeueCapture
  <2>. QED BY <1>0, <2>2, <2>3
<1>16. ASSUME NEW t \in {"poll", "output"}, Hw!Deliver(t) PROVE CodecLabels'
  BY <1>16, <1>0 DEF Hw!Deliver
<1>17. ASSUME NEW t \in {"poll", "output"}, Hw!Requeue(t) PROVE CodecLabels'
  BY <1>17, <1>0 DEF Hw!Requeue
<1>18. CASE Hw!TakeOutput
  <2>1. Head(outputQueue) \in Results /\ outputQueue' \in Seq(Results)
    BY <1>18, <1>0, TailIs DEF Hw!TakeOutput
  <2>. QED BY <1>18, <1>0, <2>1 DEF Hw!TakeOutput
<1>19. CASE Hw!OutputExits
  BY <1>19, <1>0 DEF Hw!OutputExits
<1>20. CASE Hw!JoinPoll
  BY <1>20, <1>0 DEF Hw!JoinPoll
<1>21. CASE Hw!JoinOutput
  BY <1>21, <1>0 DEF Hw!JoinOutput
<1>22. CASE Hw!Destroy
  BY <1>22, <1>0, <1>a DEF Hw!Destroy
<1>23. CASE UNCHANGED Hw!vars
  BY <1>23, <1>0 DEF Hw!vars
<1>. QED BY <1>1, <1>2, <1>3, <1>4, <1>5, <1>6, <1>7, <1>8, <1>9, <1>10, <1>11, <1>12, <1>13,
            <1>14, <1>15, <1>16, <1>17, <1>18, <1>19, <1>20, <1>21, <1>22, <1>23
         DEF Hw!Next, Hw!Feed, Hw!Codec, Hw!Poll, Hw!Hand, Hw!Drain, Hw!Join

LEMMA StepCodecTypes == CodecTypes /\ [Hw!Next]_(Hw!vars) => CodecTypes'
<1>. SUFFICES ASSUME CodecTypes, [Hw!Next]_(Hw!vars) PROVE CodecTypes'
  OBVIOUS
<1>1. CodecFlags'
  BY StepCodecFlags, CodecParts DEF CodecTypes
<1>2. CodecLogs' /\ CodecThreads' /\ CodecQueues' /\ CodecLabels'
  BY StepCodecLogs, StepCodecThreads, StepCodecQueues, StepCodecLabels
<1>. QED BY <1>1, <1>2 DEF CodecTypes, Hw!TypeOK, CodecFlags, CodecLogs, CodecThreads, CodecQueues

-----------------------------------------------------------------------------
(* The hardware encoders: the invariants                                   *)

\* How far the destructor is, and what has ended by then.
OwnerInv ==
    /\ abortPoll => owner # "open"
    /\ abortOutput => owner \in {"join_output", "stream_off", "gone"}
    /\ owner \in {"join_output", "stream_off", "gone"} => pc["poll"] = "exited"
    /\ owner \in {"stream_off", "gone"} => pc["output"] = "exited"
    /\ pc["output"] = "exited" => outputQueue = <<>>
    /\ pc["output"] = "exited" /\ kind = "h264" => abortOutput
    /\ owner = "gone" =>
          queued = <<>> /\ readSlots = <<>> /\ coding = <<>> /\ empty = {} /\ full = <<>>

\* The places of a slot: free, in encode()'s hands, queued at the codec, read by it.
Lent == IF Hw!At("feeder", "queue") THEN <<item["feeder"].slot>> ELSE <<>>
Sides  == {"free", "lent", "queued", "taken"}
Places == [free |-> free, lent |-> Lent, queued |-> queued, taken |-> readSlots]

\* In the sequences of p every slot is once and only once.
Total(p) == Len(p["free"]) + Len(p["lent"]) + Len(p["queued"]) + Len(p["taken"])
Has(p, s) == \E k \in Sides : \E i \in 1..Len(p[k]) : p[k][i] = s
Once(p) ==
    \A k, l \in Sides : \A i \in 1..Len(p[k]), j \in 1..Len(p[l]) :
        p[k][i] = p[l][j] => k = l /\ i = j

PlacesInv ==
    owner # "gone" =>
        Total(Places) = Granted /\ Once(Places) /\ \A s \in Hw!Slots : Has(Places, s)

\* The h264 encoder keeps the frame of every slot but the free ones.
PendingInv ==
    owner # "gone" /\ kind = "h264" =>
        \A k \in Sides : \A i \in 1..Len(Places[k]) :
            pending[Places[k][i]] = Hw!Nothing <=> k = "free"

\* Slots and results go in pairs: the poll thread takes one of each.
BalanceInv ==
    Len(coding) + Len(full) =
        Len(queued) + Len(readSlots) + IF pc["poll"] \in {"drop", "collect"} THEN 1 ELSE 0

\* When the h264 encoder's poll thread has ended of itself nothing is left in the codec.
DrainedInv ==
    kind = "h264" /\ pc["poll"] = "exited" /\ ~broken =>
        owner # "open" /\ queued = <<>> /\ readSlots = <<>> /\ coding = <<>> /\ full = <<>>

\* The result being delivered.
InHand == IF Hw!At("poll", "deliver") THEN <<item["poll"]>>
        ELSE IF Hw!At("output", "deliver") THEN <<item["output"]>> ELSE <<>>

\* log goes on after its n-th entry with the frames of the results in s.
Follow(s, log, n) == \A i \in 1..Len(s) : log[n + i] = s[i].frame

\* Behind what is done come the result at hand, those in the output queue, those in the
\* CAPTURE buffers, and the frames being coded, in the order of the log.
Ordered(log, done, hand, outq, fl, cod) ==
    LET behind   == Len(done) + Len(hand)
        waiting == behind + Len(outq)
        written == waiting + Len(fl)
    IN  /\ Len(log) = written + Len(cod)
        /\ Follow(hand, log, Len(done))
        /\ Follow(outq, log, behind)
        /\ Follow(fl, log, waiting)
        /\ \A i \in 1..Len(cod) : log[written + i] = cod[i]

OrderInv ==
    owner # "gone" => Ordered(accepted, delivered, InHand, outputQueue, full, coding)

\* A CAPTURE buffer is in one place: with the codec, written, in the output queue, or with
\* the thread that hands it on.
Distinct(s) == \A i, j \in 1..Len(s) : s[i].buffer = s[j].buffer => i = j
BuffersOf(s) == {s[i].buffer : i \in 1..Len(s)}
Held ==
    {item[t].buffer :
        t \in {u \in {"poll", "output"} : Hw!At(u, "deliver") \/ Hw!At(u, "requeue")}}
BufferInv ==
    /\ Distinct(full) /\ Distinct(outputQueue)
    /\ BuffersOf(full) \cap empty = {}
    /\ (BuffersOf(outputQueue) \cup Held) \cap (empty \cup BuffersOf(full)) = {}
    /\ Held \cap BuffersOf(outputQueue) = {}

\* What holds whatever the driver grants.
CodecInv == CodecTypes /\ OwnerInv /\ PlacesInv /\ PendingInv /\ BufferInv

\* What the drain rests on besides.
DrainInv == BalanceInv /\ DrainedInv /\ OrderInv

-----------------------------------------------------------------------------
(* The hardware encoders: each slot is in one place                        *)

\* The head of p[k] has become the last of p[l].
Moved(p, q, k, l) ==
    /\ k # l /\ p[k] # <<>>
    /\ q[k] = Tail(p[k]) /\ q[l] = Append(p[l], Head(p[k]))
    /\ \A m \in Sides \ {k, l} : q[m] = p[m]

LEMMA MoveType ==
  ASSUME NEW S, NEW p \in [Sides -> Seq(S)], NEW q, NEW k \in Sides, NEW l \in Sides,
         Moved(p, q, k, l), NEW m \in Sides
  PROVE  /\ q[m] \in Seq(S) /\ Len(p[m]) \in Nat
         /\ m = k => Len(q[m]) = Len(p[m]) - 1
         /\ m = l => Len(q[m]) = Len(p[m]) + 1
         /\ m \notin {k, l} => Len(q[m]) = Len(p[m])
<1>1. p[k] \in Seq(S) /\ p[l] \in Seq(S) /\ p[m] \in Seq(S) /\ k # l /\ p[k] # <<>>
  BY DEF Moved
<1>2. Len(p[m]) \in Nat
  BY <1>1, LenProperties
<1>3. CASE m = k
  <2>1. Tail(p[m]) \in Seq(S) /\ Len(Tail(p[m])) = Len(p[m]) - 1
    BY <1>1, <1>3, TailIs
  <2>2. q[m] = Tail(p[m])
    BY <1>3 DEF Moved
  <2>. QED BY <1>1, <1>2, <1>3, <2>1, <2>2
<1>4. CASE m = l
  <2>1. Head(p[k]) \in S
    BY <1>1, TailIs
  <2>2. Append(p[m], Head(p[k])) \in Seq(S) /\ Len(Append(p[m], Head(p[k]))) = Len(p[m]) + 1
    BY <1>1, <2>1, AppendIs
  <2>3. q[m] = Append(p[m], Head(p[k]))
    BY <1>4 DEF Moved
  <2>. QED BY <1>1, <1>2, <1>4, <2>2, <2>3
<1>5. CASE m \notin {k, l}
  BY <1>1, <1>2, <1>5 DEF Moved
<1>. QED BY <1>3, <1>4, <1>5

LEMMA OneOver ==
  ASSUME NEW a, NEW b, \A m \in Sides : a[m] \in Int,
         NEW k \in Sides, NEW l \in Sides, k # l,
         b[k] = a[k] - 1, b[l] = a[l] + 1, \A m \in Sides \ {k, l} : b[m] = a[m]
  PROVE  b["free"] + b["lent"] + b["queued"] + b["taken"]
           = a["free"] + a["lent"] + a["queued"] + a["taken"]
<1>1. a["free"] \in Int /\ a["lent"] \in Int /\ a["queued"] \in Int /\ a["taken"] \in Int
  BY DEF Sides
<1>2. /\ "free" \notin {k, l} => b["free"] = a["free"]
      /\ "lent" \notin {k, l} => b["lent"] = a["lent"]
      /\ "queued" \notin {k, l} => b["queued"] = a["queued"]
      /\ "taken" \notin {k, l} => b["taken"] = a["taken"]
  BY DEF Sides
<1>3. k \in {"free", "lent", "queued", "taken"} /\ l \in {"free", "lent", "queued", "taken"}
  BY DEF Sides
<1>4. CASE k = "free"
  BY <1>1, <1>2, <1>3, <1>4
<1>5. CASE k = "lent"
  BY <1>1, <1>2, <1>3, <1>5
<1>6. CASE k = "queued"
  BY <1>1, <1>2, <1>3, <1>6
<1>7. CASE k = "taken"
  BY <1>1, <1>2, <1>3, <1>7
<1>. QED BY <1>3, <1>4, <1>5, <1>6, <1>7

LEMMA MoveLengths ==
  ASSUME NEW S, NEW p \in [Sides -> Seq(S)], NEW q, NEW k \in Sides, NEW l \in Sides,
         Moved(p, q, k, l)
  PROVE  Total(q) = Total(p)
<1>. DEFINE a == [m \in Sides |-> Len(p[m])]
            b == [m \in Sides |-> Len(q[m])]
<1>1. \A m \in Sides : a[m] \in Int
  BY MoveType
<1>2. b[k] = a[k] - 1 /\ b[l] = a[l] + 1
  BY MoveType
<1>3. \A m \in Sides \ {k, l} : b[m] = a[m]
  BY MoveType
<1>4. k # l
  BY DEF Moved
<1>5. b["free"] + b["lent"] + b["queued"] + b["taken"]
        = a["free"] + a["lent"] + a["queued"] + a["taken"]
  <2>. HIDE DEF a, b
  <2>. QED BY <1>1, <1>2, <1>3, <1>4, OneOver
<1>. QED BY <1>5 DEF Total, Sides

\* The j-th of q[m] is the j0-th of p[m0].
Came(p, k, l, m, j, m0, j0) ==
    \/ m = k /\ m0 = k /\ j0 = j + 1
    \/ m = l /\ m0 = k /\ j0 = 1 /\ j = Len(p[l]) + 1
    \/ m # k /\ m0 = m /\ j0 = j /\ j <= Len(p[m])

LEMMA MoveFrom ==
  ASSUME NEW S, NEW p \in [Sides -> Seq(S)], NEW q, NEW k \in Sides, NEW l \in Sides,
         Moved(p, q, k, l), NEW m \in Sides, NEW j \in 1..Len(q[m])
  PROVE  \E m0 \in Sides, j0 \in Nat :
            j0 \in 1..Len(p[m0]) /\ q[m][j] = p[m0][j0] /\ Came(p, k, l, m, j, m0, j0)
<1>1. p[k] \in Seq(S) /\ p[l] \in Seq(S) /\ p[k] # <<>> /\ k # l
  BY DEF Moved
<1>2. CASE m = k
  <2>1. q[m] = Tail(p[k]) /\ j \in 1..Len(p[k]) - 1
    BY <1>1, <1>2, TailIs DEF Moved
  <2>2. j + 1 \in 1..Len(p[k]) /\ q[m][j] = p[k][j + 1]
    BY <1>1, <2>1, TailIs
  <2>. QED BY <1>2, <2>2 DEF Came
<1>3. CASE m = l
  <2>1. q[m] = Append(p[l], Head(p[k])) /\ Head(p[k]) \in S /\ Head(p[k]) = p[k][1]
        /\ Len(p[k]) \in Nat \ {0} /\ Len(p[l]) \in Nat
    BY <1>1, <1>3, TailIs, LenProperties DEF Moved
  <2>2. Len(q[m]) = Len(p[l]) + 1
    BY <1>1, <2>1, AppendIs
  <2>3. CASE j = Len(p[l]) + 1
    <3>1. q[m][j] = p[k][1]
      BY <1>1, <2>1, <2>3, AppendIs
    <3>2. 1 \in Nat /\ 1 \in 1..Len(p[k])
      BY <2>1
    <3>3. Came(p, k, l, m, j, k, 1)
      BY <1>3, <2>3 DEF Came
    <3>. QED BY <3>1, <3>2, <3>3
  <2>4. CASE j # Len(p[l]) + 1
    <3>1. j \in 1..Len(p[l])
      BY <2>1, <2>2, <2>4
    <3>2. q[m][j] = p[l][j]
      BY <1>1, <2>1, <3>1, AppendIs
    <3>. QED BY <1>1, <1>3, <3>1, <3>2 DEF Came
  <2>. QED BY <2>3, <2>4
<1>4. CASE m \notin {k, l}
  <2>1. q[m] = p[m] /\ Len(p[m]) \in Nat
    BY <1>4, LenProperties DEF Moved
  <2>2. j \in 1..Len(p[m]) /\ j <= Len(p[m])
    BY <2>1
  <2>. QED BY <1>4, <2>1, <2>2 DEF Came
<1>. QED BY <1>2, <1>3, <1>4

LEMMA MoveOnce ==
  ASSUME NEW S, NEW p \in [Sides -> Seq(S)], NEW q, NEW k \in Sides, NEW l \in Sides,
         Moved(p, q, k, l), Once(p)
  PROVE  Once(q)
<1>. SUFFICES ASSUME NEW m \in Sides, NEW n \in Sides,
                     NEW i \in 1..Len(q[m]), NEW j \in 1..Len(q[n]),
                     q[m][i] = q[n][j]
              PROVE  m = n /\ i = j
  BY DEF Once
<1>1. PICK m0 \in Sides, i0 \in Nat :
         i0 \in 1..Len(p[m0]) /\ q[m][i] = p[m0][i0] /\ Came(p, k, l, m, i, m0, i0)
  BY MoveFrom
<1>2. PICK n0 \in Sides, j0 \in Nat :
         j0 \in 1..Len(p[n0]) /\ q[n][j] = p[n0][j0] /\ Came(p, k, l, n, j, n0, j0)
  BY MoveFrom
<1>3. m0 = n0 /\ i0 = j0
  <2>1. p[m0][i0] = p[n0][j0]
    BY <1>1, <1>2
  <2>. QED BY <1>1, <1>2, <2>1 DEF Once
<1>4. k # l /\ i \in Nat \ {0} /\ j \in Nat \ {0}
  <2>1. Len(q[m]) \in Nat /\ Len(q[n]) \in Nat
    <3>1. q[m] \in Seq(S) /\ q[n] \in Seq(S)
      BY MoveType
    <3>. QED BY <3>1, LenProperties
  <2>. QED BY <2>1 DEF Moved
<1>. QED BY <1>1, <1>2, <1>3, <1>4 DEF Came

LEMMA MoveHas ==
  ASSUME NEW S, NEW p \in [Sides -> Seq(S)], NEW q, NEW k \in Sides, NEW l \in Sides,
         Moved(p, q, k, l), NEW s, Has(p, s)
  PROVE  Has(q, s)
<1>1. PICK m \in Sides : \E i \in 1..Len(p[m]) : p[m][i] = s
  BY DEF Has
<1>01. PICK i \in 1..Len(p[m]) : p[m][i] = s
  BY <1>1
<1>2. /\ p[k] \in Seq(S) /\ p[l] \in Seq(S) /\ p[k] # <<>> /\ k # l
      /\ Len(p[m]) \in Nat /\ Len(p[l]) \in Nat
  BY LenProperties DEF Moved
<1>3. CASE m = k /\ i = 1
  <2>1. Head(p[k]) = s /\ Head(p[k]) \in S
    BY <1>01, <1>2, <1>3, TailIs
  <2>2. q[l] = Append(p[l], s) /\ s \in S
    BY <2>1 DEF Moved
  <2>3. Len(q[l]) = Len(p[l]) + 1 /\ q[l][Len(p[l]) + 1] = s
    BY <1>2, <2>2, AppendIs
  <2>4. Len(p[l]) + 1 \in 1..Len(q[l])
    BY <1>2, <2>3
  <2>. QED BY <2>3, <2>4 DEF Has
<1>4. CASE m = k /\ i # 1
  <2>1. i - 1 \in 1..Len(p[k]) - 1
    BY <1>2, <1>4
  <2>2. i - 1 \in 1..Len(q[k]) /\ q[k][i - 1] = s
    BY <1>01, <1>2, <1>4, <2>1, TailIs DEF Moved
  <2>. QED BY <2>2 DEF Has
<1>5. CASE m = l
  <2>1. Head(p[k]) \in S
    BY <1>2, TailIs
  <2>2. i \in 1..Len(q[l]) /\ q[l][i] = s
    BY <1>01, <1>2, <1>5, <2>1, AppendIs DEF Moved
  <2>. QED BY <2>2 DEF Has
<1>6. CASE m \notin {k, l}
  BY <1>01, <1>6 DEF Moved, Has
<1>. QED BY <1>3, <1>4, <1>5, <1>6

\* The slots of p["free"] have no frame, those of the others have one.
Charged(pend, p) ==
    \A k \in Sides : \A i \in 1..Len(p[k]) : pend[p[k][i]] = Hw!Nothing <=> k = "free"

LEMMA MoveCharged ==
  ASSUME NEW S, NEW p \in [Sides -> Seq(S)], NEW q, NEW k \in Sides, NEW l \in Sides,
         Moved(p, q, k, l), Once(p), NEW T, NEW pend \in [S -> T], NEW v,
         Charged(pend, p),
         (v = Hw!Nothing <=> l = "free") \/ (v = pend[Head(p[k])] /\ k # "free" /\ l # "free")
  PROVE  Charged([pend EXCEPT ![Head(p[k])] = v], q)
<1>. DEFINE pend2 == [pend EXCEPT ![Head(p[k])] = v]
<1>. SUFFICES ASSUME NEW m \in Sides, NEW j \in 1..Len(q[m])
              PROVE  pend2[q[m][j]] = Hw!Nothing <=> m = "free"
  BY DEF Charged
<1>1. PICK m0 \in Sides, j0 \in Nat :
         j0 \in 1..Len(p[m0]) /\ q[m][j] = p[m0][j0] /\ Came(p, k, l, m, j, m0, j0)
  BY MoveFrom
<1>2. /\ p[k] # <<>> /\ k # l /\ Head(p[k]) \in S /\ Head(p[k]) = p[k][1]
      /\ Len(p[k]) \in Nat \ {0}
  BY TailIs DEF Moved
<1>3. p[m0][j0] \in S
  <2>1. p[m0] \in Seq(S)
    OBVIOUS
  <2>. QED BY <1>1, <2>1, LenProperties
<1>4. CASE m0 = k /\ j0 = 1
  <2>1. Len(q[m]) \in Nat
    BY MoveType, LenProperties
  <2>2. m = l
    BY <1>1, <1>2, <1>4, <2>1 DEF Came
  <2>3. pend2[q[m][j]] = v
    BY <1>1, <1>2, <1>4
  <2>4. pend[Head(p[k])] = Hw!Nothing <=> k = "free"
    BY <1>2 DEF Charged
  <2>. QED BY <2>2, <2>3, <2>4
<1>5. CASE ~(m0 = k /\ j0 = 1)
  <2>1. m0 = m
    <3>1. (m = k /\ m0 = k) \/ m0 = m
      BY <1>1, <1>5 DEF Came
    <3>. QED BY <3>1
  <2>2. p[m0][j0] # Head(p[k])
    <3>1. 1 \in 1..Len(p[k]) /\ j0 \in 1..Len(p[m0])
      BY <1>1, <1>2
    <3>. QED BY <1>2, <1>5, <3>1 DEF Once
  <2>3. pend2[q[m][j]] = pend[p[m0][j0]]
    BY <1>1, <1>3, <2>2
  <2>4. pend[p[m0][j0]] = Hw!Nothing <=> m0 = "free"
    BY <1>1 DEF Charged
  <2>. QED BY <2>1, <2>3, <2>4
<1>. QED BY <1>4, <1>5

LEMMA PlacesType == CodecTypes => Places \in [Sides -> Seq(Hw!Slots)]
<1>. SUFFICES ASSUME CodecTypes PROVE Places \in [Sides -> Seq(Hw!Slots)]
  OBVIOUS
<1>1. free \in Seq(Hw!Slots) /\ queued \in Seq(Hw!Slots) /\ readSlots \in Seq(Hw!Slots)
  BY DEF CodecTypes, Hw!TypeOK
<1>2. Lent \in Seq(Hw!Slots)
  <2>1. <<>> \in Seq(Hw!Slots)
    BY EmptySeq
  <2>2. Hw!At("feeder", "queue") => <<item["feeder"].slot>> \in Seq(Hw!Slots)
    BY DEF CodecTypes, CodecLabels
  <2>. QED BY <2>1, <2>2 DEF Lent
<1>. QED BY <1>1, <1>2 DEF Places, Sides

\* Which slots move where in a step, and with what frame.
SlotMoves(k, l, v) ==
    /\ Moved(Places, Places', k, l)
    /\ pending' = [pending EXCEPT ![Head(Places[k])] = v]
    /\ kind = "h264" =>
          \/ (v = Hw!Nothing <=> l = "free")
          \/ (v = pending[Head(Places[k])] /\ k # "free" /\ l # "free")

LEMMA Places4 ==
  /\ Places["free"] = free /\ Places["lent"] = Lent
  /\ Places["queued"] = queued /\ Places["taken"] = readSlots
  /\ Places'["free"] = free' /\ Places'["lent"] = Lent'
  /\ Places'["queued"] = queued' /\ Places'["taken"] = readSlots'
  BY DEF Places

LEMMA StepSlots ==
  ASSUME CodecTypes, [Hw!Next]_(Hw!vars), owner' # "gone"
  PROVE  \/ UNCHANGED <<Places, pending>>
         \/ \E k, l \in Sides : \E v \in Hw!Calls \cup {Hw!Nothing} : SlotMoves(k, l, v)
<1>. DEFINE Moves == \E k, l \in Sides : \E v \in Hw!Calls \cup {Hw!Nothing} : SlotMoves(k, l, v)
            Same == UNCHANGED <<Places, pending>>
<1>. SUFFICES Same \/ Moves
  OBVIOUS
<1>0. Hw!TypeOK /\ CodecLabels /\ CodecThreads
  BY CodecParts DEF CodecTypes
<1>a. /\ free \in Seq(Hw!Slots) /\ queued \in Seq(Hw!Slots) /\ readSlots \in Seq(Hw!Slots)
       /\ pending \in [Hw!Slots -> Hw!Calls \cup {Hw!Nothing}]
  BY <1>0 DEF Hw!TypeOK
<1>1. CASE Hw!Refuse
  BY <1>1, <1>0 DEF Hw!Refuse, Places, Lent, CodecThreads
<1>2. CASE Hw!TakeSlot
  <2>1. Lent = <<>> /\ Lent' = <<Head(free)>> /\ Head(free) \in Hw!Slots
    BY <1>2, <1>0, <1>a, TailIs DEF Hw!TakeSlot, Lent, CodecThreads, Hw!NoItem
  <2>2. Lent' = Append(Lent, Head(free))
    BY <2>1
  <2>3. free # <<>> /\ free' = Tail(free) /\ UNCHANGED <<queued, readSlots>>
    BY <1>2 DEF Hw!TakeSlot
  <2>4. Moved(Places, Places', "free", "lent")
    BY <2>2, <2>3, Places4 DEF Moved, Sides
  <2>5. calls' \in Hw!Calls
    <3>1. calls \in 0..MaxCalls /\ calls < MaxCalls /\ calls' = calls + 1
      BY <1>2, <1>0 DEF Hw!TakeSlot, Hw!TypeOK
    <3>. QED BY <3>1, BoundsOK
  <2>6. PICK v \in Hw!Calls \cup {Hw!Nothing} :
           v = IF kind = "h264" THEN calls' ELSE Hw!Nothing
    BY <2>5
  <2>7. pending' = [pending EXCEPT ![Head(Places["free"])] = v]
    BY <1>2, <2>6, Places4 DEF Hw!TakeSlot
  <2>8. kind = "h264" => v # Hw!Nothing
    BY <2>5, <2>6
  <2>9. SlotMoves("free", "lent", v)
    BY <2>4, <2>7, <2>8, Places4 DEF SlotMoves, Sides
  <2>. QED BY <2>9 DEF Sides
<1>3. CASE Hw!QueueOutput
  <2>1. Lent = <<item["feeder"].slot>> /\ item["feeder"].slot \in Hw!Slots /\ Lent' = <<>>
    BY <1>3, <1>0 DEF Hw!QueueOutput, Lent, CodecLabels, CodecThreads
  <2>2. Lent # <<>> /\ Lent' = Tail(Lent) /\ Head(Lent) = item["feeder"].slot
    BY <2>1
  <2>3. queued' = Append(queued, Head(Lent)) /\ UNCHANGED <<free, readSlots, pending>>
    BY <1>3, <2>2 DEF Hw!QueueOutput
  <2>4. Moved(Places, Places', "lent", "queued")
    BY <2>2, <2>3, Places4 DEF Moved, Sides
  <2>5. pending' = [pending EXCEPT ![Head(Lent)] = pending[Head(Lent)]]
    BY <1>a, <2>1, <2>2, <2>3
  <2>6. pending[Head(Lent)] \in Hw!Calls \cup {Hw!Nothing}
    BY <1>a, <2>1, <2>2
  <2>7. SlotMoves("lent", "queued", pending[Head(Lent)])
    BY <2>4, <2>5, Places4 DEF SlotMoves, Sides
  <2>. QED BY <2>6, <2>7 DEF Sides
<1>4. CASE Hw!QueueFails
  <2>1. Lent = <<item["feeder"].slot>> /\ item["feeder"].slot \in Hw!Slots /\ Lent' = <<>>
    BY <1>4, <1>0 DEF Hw!QueueFails, Lent, CodecLabels, CodecThreads
  <2>2. Lent # <<>> /\ Lent' = Tail(Lent) /\ Head(Lent) = item["feeder"].slot
    BY <2>1
  <2>3. /\ free' = Append(free, Head(Lent)) /\ UNCHANGED <<queued, readSlots>>
        /\ pending' = [pending EXCEPT ![Head(Lent)] = Hw!Nothing]
    BY <1>4, <2>2 DEF Hw!QueueFails
  <2>4. Moved(Places, Places', "lent", "free")
    BY <2>2, <2>3, Places4 DEF Moved, Sides
  <2>5. SlotMoves("lent", "free", Hw!Nothing)
    BY <2>3, <2>4, Places4 DEF SlotMoves, Sides
  <2>. QED BY <2>5 DEF Sides
<1>5. CASE Hw!AbortPoll
  BY <1>5, <1>0 DEF Hw!AbortPoll, Places, Lent, CodecThreads
<1>6. CASE Hw!ReadSlot
  <2>1. /\ queued # <<>> /\ queued' = Tail(queued) /\ readSlots' = Append(readSlots, Head(queued))
        /\ UNCHANGED <<free, pending, pc, item>> /\ Head(queued) \in Hw!Slots
    BY <1>6, <1>a, TailIs DEF Hw!ReadSlot
  <2>2. Lent' = Lent
    BY <2>1 DEF Lent
  <2>4. Moved(Places, Places', "queued", "taken")
    BY <2>1, <2>2, Places4 DEF Moved, Sides
  <2>5. pending' = [pending EXCEPT ![Head(queued)] = pending[Head(queued)]]
    BY <1>a, <2>1
  <2>6. pending[Head(queued)] \in Hw!Calls \cup {Hw!Nothing}
    BY <1>a, <2>1
  <2>7. SlotMoves("queued", "taken", pending[Head(queued)])
    BY <2>4, <2>5, Places4 DEF SlotMoves, Sides
  <2>. QED BY <2>6, <2>7 DEF Sides
<1>7. ASSUME NEW b \in CaptureBuffers, Hw!WriteResult(b) PROVE Same \/ Moves
  BY <1>7, <1>0 DEF Hw!WriteResult, Places, Lent, CodecThreads
<1>8. CASE Hw!TestAbort
  BY <1>8, <1>0 DEF Hw!TestAbort, Places, Lent, CodecThreads
<1>9. CASE Hw!PollTimesOut
  BY <1>9, <1>0 DEF Hw!PollTimesOut, Places, Lent, CodecThreads
<1>10. CASE Hw!PollDrained
  BY <1>10, <1>0 DEF Hw!PollDrained, Places, Lent, CodecThreads
<1>11. CASE Hw!PollReady
  BY <1>11, <1>0 DEF Hw!PollReady, Places, Lent, CodecThreads
<1>12. CASE Hw!PollFails
  BY <1>12, <1>0 DEF Hw!PollFails, Places, Lent, CodecThreads
<1>13. CASE Hw!DequeueOutput
  <2>1. /\ readSlots # <<>> /\ readSlots' = Tail(readSlots) /\ free' = Append(free, Head(readSlots))
        /\ queued' = queued /\ pending' = [pending EXCEPT ![Head(readSlots)] = Hw!Nothing]
    BY <1>13 DEF Hw!DequeueOutput
  <2>2. Lent' = Lent
    BY <1>13, <1>0 DEF Hw!DequeueOutput, Lent, CodecThreads
  <2>4. Moved(Places, Places', "taken", "free")
    BY <2>1, <2>2, Places4 DEF Moved, Sides
  <2>5. SlotMoves("taken", "free", Hw!Nothing)
    BY <2>1, <2>4, Places4 DEF SlotMoves, Sides
  <2>. QED BY <2>5 DEF Sides
<1>14. CASE Hw!DropFrame
  BY <1>14, <1>0 DEF Hw!DropFrame, Places, Lent, CodecThreads
<1>15. CASE Hw!DequeueCapture
  BY <1>15, <1>0 DEF Hw!DequeueCapture, Places, Lent, CodecThreads
<1>16. ASSUME NEW t \in {"poll", "output"}, Hw!Deliver(t) PROVE Same \/ Moves
  BY <1>16, <1>0 DEF Hw!Deliver, Places, Lent, CodecThreads
<1>17. ASSUME NEW t \in {"poll", "output"}, Hw!Requeue(t) PROVE Same \/ Moves
  BY <1>17, <1>0 DEF Hw!Requeue, Places, Lent, CodecThreads
<1>18. CASE Hw!TakeOutput
  BY <1>18, <1>0 DEF Hw!TakeOutput, Places, Lent, CodecThreads
<1>19. CASE Hw!OutputExits
  BY <1>19, <1>0 DEF Hw!OutputExits, Places, Lent, CodecThreads
<1>20. CASE Hw!JoinPoll
  BY <1>20, <1>0 DEF Hw!JoinPoll, Places, Lent, CodecThreads
<1>21. CASE Hw!JoinOutput
  BY <1>21, <1>0 DEF Hw!JoinOutput, Places, Lent, CodecThreads
<1>22. CASE Hw!Destroy
  BY <1>22 DEF Hw!Destroy
<1>23. CASE UNCHANGED Hw!vars
  BY <1>23, <1>0 DEF Hw!vars, Places, Lent, CodecThreads
<1>. QED BY <1>1, <1>2, <1>3, <1>4, <1>5, <1>6, <1>7, <1>8, <1>9, <1>10, <1>11, <1>12, <1>13,
            <1>14, <1>15, <1>16, <1>17, <1>18, <1>19, <1>20, <1>21, <1>22, <1>23
         DEF Hw!Next, Hw!Feed, Hw!Codec, Hw!Poll, Hw!Hand, Hw!Drain, Hw!Join

LEMMA StillThere == [Hw!Next]_(Hw!vars) /\ owner' # "gone" => owner # "gone"
<1>. SUFFICES ASSUME [Hw!Next]_(Hw!vars), owner' # "gone" PROVE owner # "gone"
  OBVIOUS
<1>1. CASE Hw!Refuse
  BY <1>1 DEF Hw!Refuse
<1>2. CASE Hw!TakeSlot
  BY <1>2 DEF Hw!TakeSlot
<1>3. CASE Hw!QueueOutput
  BY <1>3 DEF Hw!QueueOutput
<1>4. CASE Hw!QueueFails
  BY <1>4 DEF Hw!QueueFails
<1>5. CASE Hw!AbortPoll
  BY <1>5 DEF Hw!AbortPoll
<1>6. CASE Hw!ReadSlot
  BY <1>6 DEF Hw!ReadSlot
<1>7. ASSUME NEW b \in CaptureBuffers, Hw!WriteResult(b) PROVE owner # "gone"
  BY <1>7 DEF Hw!WriteResult
<1>8. CASE Hw!TestAbort
  BY <1>8 DEF Hw!TestAbort
<1>9. CASE Hw!PollTimesOut
  BY <1>9 DEF Hw!PollTimesOut
<1>10. CASE Hw!PollDrained
  BY <1>10 DEF Hw!PollDrained
<1>11. CASE Hw!PollReady
  BY <1>11 DEF Hw!PollReady
<1>12. CASE Hw!PollFails
  BY <1>12 DEF Hw!PollFails
<1>13. CASE Hw!DequeueOutput
  BY <1>13 DEF Hw!DequeueOutput
<1>14. CASE Hw!DropFrame
  BY <1>14 DEF Hw!DropFrame
<1>15. CASE Hw!DequeueCapture
  BY <1>15 DEF Hw!DequeueCapture
<1>16. ASSUME NEW t \in {"poll", "output"}, Hw!Deliver(t) PROVE owner # "gone"
  BY <1>16 DEF Hw!Deliver
<1>17. ASSUME NEW t \in {"poll", "output"}, Hw!Requeue(t) PROVE owner # "gone"
  BY <1>17 DEF Hw!Requeue
<1>18. CASE Hw!TakeOutput
  BY <1>18 DEF Hw!TakeOutput
<1>19. CASE Hw!OutputExits
  BY <1>19 DEF Hw!OutputExits
<1>20. CASE Hw!JoinPoll
  BY <1>20 DEF Hw!JoinPoll
<1>21. CASE Hw!JoinOutput
  BY <1>21 DEF Hw!JoinOutput
<1>22. CASE Hw!Destroy
  BY <1>22 DEF Hw!Destroy
<1>23. CASE UNCHANGED Hw!vars
  BY <1>23 DEF Hw!vars
<1>. QED BY <1>1, <1>2, <1>3, <1>4, <1>5, <1>6, <1>7, <1>8, <1>9, <1>10, <1>11, <1>12, <1>13,
            <1>14, <1>15, <1>16, <1>17, <1>18, <1>19, <1>20, <1>21, <1>22, <1>23
         DEF Hw!Next, Hw!Feed, Hw!Codec, Hw!Poll, Hw!Hand, Hw!Drain, Hw!Join

LEMMA StepPlaces ==
  CodecTypes /\ PlacesInv /\ PendingInv /\ [Hw!Next]_(Hw!vars) => PlacesInv' /\ PendingInv'
<1>. SUFFICES ASSUME CodecTypes, PlacesInv, PendingInv, [Hw!Next]_(Hw!vars), owner' # "gone"
              PROVE  /\ Total(Places)' = Granted /\ Once(Places)'
                     /\ \A s \in Hw!Slots : Has(Places, s)'
                     /\ (kind = "h264")' => Charged(pending, Places)'
  BY DEF PlacesInv, PendingInv, Charged
<1>1. owner # "gone" /\ kind' = kind
  <2>1. kind' = kind
  <3>1. CASE Hw!Refuse
    BY <3>1 DEF Hw!Refuse
  <3>2. CASE Hw!TakeSlot
    BY <3>2 DEF Hw!TakeSlot
  <3>3. CASE Hw!QueueOutput
    BY <3>3 DEF Hw!QueueOutput
  <3>4. CASE Hw!QueueFails
    BY <3>4 DEF Hw!QueueFails
  <3>5. CASE Hw!AbortPoll
    BY <3>5 DEF Hw!AbortPoll
  <3>6. CASE Hw!ReadSlot
    BY <3>6 DEF Hw!ReadSlot
  <3>7. ASSUME NEW b \in CaptureBuffers, Hw!WriteResult(b) PROVE kind' = kind
    BY <3>7 DEF Hw!WriteResult
  <3>8. CASE Hw!TestAbort
    BY <3>8 DEF Hw!TestAbort
  <3>9. CASE Hw!PollTimesOut
    BY <3>9 DEF Hw!PollTimesOut
  <3>10. CASE Hw!PollDrained
    BY <3>10 DEF Hw!PollDrained
  <3>11. CASE Hw!PollReady
    BY <3>11 DEF Hw!PollReady
  <3>12. CASE Hw!PollFails
    BY <3>12 DEF Hw!PollFails
  <3>13. CASE Hw!DequeueOutput
    BY <3>13 DEF Hw!DequeueOutput
  <3>14. CASE Hw!DropFrame
    BY <3>14 DEF Hw!DropFrame
  <3>15. CASE Hw!DequeueCapture
    BY <3>15 DEF Hw!DequeueCapture
  <3>16. ASSUME NEW t \in {"poll", "output"}, Hw!Deliver(t) PROVE kind' = kind
    BY <3>16 DEF Hw!Deliver
  <3>17. ASSUME NEW t \in {"poll", "output"}, Hw!Requeue(t) PROVE kind' = kind
    BY <3>17 DEF Hw!Requeue
  <3>18. CASE Hw!TakeOutput
    BY <3>18 DEF Hw!TakeOutput
  <3>19. CASE Hw!OutputExits
    BY <3>19 DEF Hw!OutputExits
  <3>20. CASE Hw!JoinPoll
    BY <3>20 DEF Hw!JoinPoll
  <3>21. CASE Hw!JoinOutput
    BY <3>21 DEF Hw!JoinOutput
  <3>22. CASE Hw!Destroy
    BY <3>22 DEF Hw!Destroy
  <3>23. CASE UNCHANGED Hw!vars
    BY <3>23 DEF Hw!vars
  <3>. QED BY <3>1, <3>2, <3>3, <3>4, <3>5, <3>6, <3>7, <3>8, <3>9, <3>10, <3>11, <3>12, <3>13,
              <3>14, <3>15, <3>16, <3>17, <3>18, <3>19, <3>20, <3>21, <3>22, <3>23
           DEF Hw!Next, Hw!Feed, Hw!Codec, Hw!Poll, Hw!Hand, Hw!Drain, Hw!Join
  <2>. QED BY <2>1, StillThere
<1>2. /\ Total(Places) = Granted /\ Once(Places) /\ \A s \in Hw!Slots : Has(Places, s)
      /\ kind = "h264" => Charged(pending, Places)
  BY <1>1 DEF PlacesInv, PendingInv, Charged
<1>3. Places \in [Sides -> Seq(Hw!Slots)] /\ pending \in [Hw!Slots -> Hw!Calls \cup {Hw!Nothing}]
  BY PlacesType DEF CodecTypes, Hw!TypeOK
<1>4. CASE UNCHANGED <<Places, pending>>
  BY <1>1, <1>2, <1>4
<1>5. ASSUME NEW k \in Sides, NEW l \in Sides, NEW v, SlotMoves(k, l, v)
      PROVE  /\ Total(Places)' = Granted /\ Once(Places)'
             /\ \A s \in Hw!Slots : Has(Places, s)'
             /\ (kind = "h264")' => Charged(pending, Places)'
  <2>1. Moved(Places, Places', k, l) /\ pending' = [pending EXCEPT ![Head(Places[k])] = v]
    BY <1>5 DEF SlotMoves
  <2>2. Total(Places') = Granted
    BY <1>2, <1>3, <2>1, MoveLengths
  <2>3. Once(Places')
    BY <1>2, <1>3, <2>1, MoveOnce
  <2>4. \A s \in Hw!Slots : Has(Places', s)
    BY <1>2, <1>3, <2>1, MoveHas
  <2>5. kind = "h264" => Charged(pending', Places')
    <3>. SUFFICES ASSUME kind = "h264" PROVE Charged(pending', Places')
      OBVIOUS
    <3>1. \/ (v = Hw!Nothing <=> l = "free")
          \/ (v = pending[Head(Places[k])] /\ k # "free" /\ l # "free")
      BY <1>5 DEF SlotMoves
    <3>. QED BY <1>2, <1>3, <2>1, <3>1, MoveCharged
  <2>. QED BY <1>1, <2>2, <2>3, <2>4, <2>5
<1>. QED BY <1>4, <1>5, StepSlots

-----------------------------------------------------------------------------
(* The hardware encoders: the destructor, and the drain                    *)

LEMMA StepOwner == CodecTypes /\ OwnerInv /\ [Hw!Next]_(Hw!vars) => OwnerInv'
<1>. SUFFICES ASSUME CodecTypes, OwnerInv, [Hw!Next]_(Hw!vars) PROVE OwnerInv'
  OBVIOUS
<1>0. CodecThreads /\ CodecLabels
  BY CodecParts DEF CodecTypes
<1>. USE DEF OwnerInv, CodecThreads
<1>1. CASE Hw!Refuse
  BY <1>1, <1>0 DEF Hw!Refuse, CodecLabels
<1>2. CASE Hw!TakeSlot
  BY <1>2, <1>0 DEF Hw!TakeSlot, CodecLabels
<1>3. CASE Hw!QueueOutput
  BY <1>3, <1>0 DEF Hw!QueueOutput, CodecLabels
<1>4. CASE Hw!QueueFails
  BY <1>4, <1>0 DEF Hw!QueueFails, CodecLabels
<1>5. CASE Hw!AbortPoll
  BY <1>5, <1>0 DEF Hw!AbortPoll, CodecLabels
<1>6. CASE Hw!ReadSlot
  BY <1>6, <1>0 DEF Hw!ReadSlot, CodecLabels
<1>7. ASSUME NEW b \in CaptureBuffers, Hw!WriteResult(b) PROVE OwnerInv'
  BY <1>7, <1>0 DEF Hw!WriteResult, CodecLabels
<1>8. CASE Hw!TestAbort
  BY <1>8, <1>0 DEF Hw!TestAbort, CodecLabels
<1>9. CASE Hw!PollTimesOut
  BY <1>9, <1>0 DEF Hw!PollTimesOut, CodecLabels
<1>10. CASE Hw!PollDrained
  BY <1>10, <1>0 DEF Hw!PollDrained, CodecLabels
<1>11. CASE Hw!PollReady
  BY <1>11, <1>0 DEF Hw!PollReady, CodecLabels
<1>12. CASE Hw!PollFails
  BY <1>12, <1>0 DEF Hw!PollFails, CodecLabels
<1>13. CASE Hw!DequeueOutput
  BY <1>13, <1>0 DEF Hw!DequeueOutput, CodecLabels
<1>14. CASE Hw!DropFrame
  BY <1>14, <1>0 DEF Hw!DropFrame, CodecLabels
<1>15. CASE Hw!DequeueCapture
  BY <1>15, <1>0 DEF Hw!DequeueCapture, CodecLabels
<1>16. ASSUME NEW t \in {"poll", "output"}, Hw!Deliver(t) PROVE OwnerInv'
  BY <1>16, <1>0 DEF Hw!Deliver, CodecLabels
<1>17. ASSUME NEW t \in {"poll", "output"}, Hw!Requeue(t) PROVE OwnerInv'
  BY <1>17, <1>0 DEF Hw!Requeue, CodecLabels
<1>18. CASE Hw!TakeOutput
  BY <1>18, <1>0 DEF Hw!TakeOutput, CodecLabels
<1>19. CASE Hw!OutputExits
  BY <1>19, <1>0 DEF Hw!OutputExits, CodecLabels
<1>20. CASE Hw!JoinPoll
  BY <1>20, <1>0 DEF Hw!JoinPoll, CodecLabels
<1>21. CASE Hw!JoinOutput
  BY <1>21, <1>0 DEF Hw!JoinOutput, CodecLabels
<1>22. CASE Hw!Destroy
  BY <1>22, <1>0 DEF Hw!Destroy, CodecLabels
<1>23. CASE UNCHANGED Hw!vars
  BY <1>23, <1>0 DEF Hw!vars, CodecLabels
<1>. QED BY <1>1, <1>2, <1>3, <1>4, <1>5, <1>6, <1>7, <1>8, <1>9, <1>10, <1>11, <1>12, <1>13,
            <1>14, <1>15, <1>16, <1>17, <1>18, <1>19, <1>20, <1>21, <1>22, <1>23
         DEF Hw!Next, Hw!Feed, Hw!Codec, Hw!Poll, Hw!Hand, Hw!Drain, Hw!Join

LEMMA StepBalance == CodecTypes /\ OwnerInv /\ BalanceInv /\ [Hw!Next]_(Hw!vars) => BalanceInv'
<1>. SUFFICES ASSUME CodecTypes, OwnerInv, BalanceInv, [Hw!Next]_(Hw!vars) PROVE BalanceInv'
  OBVIOUS
<1>0. CodecThreads /\ CodecQueues /\ CodecLabels
  BY CodecParts DEF CodecTypes
<1>a. /\ Len(queued) \in Nat /\ Len(readSlots) \in Nat /\ Len(coding) \in Nat /\ Len(full) \in Nat
  BY <1>0, LenProperties DEF CodecQueues
<1>. USE DEF BalanceInv
<1>1. CASE Hw!Refuse
  BY <1>1, <1>0 DEF Hw!Refuse, CodecThreads
<1>2. CASE Hw!TakeSlot
  BY <1>2, <1>0 DEF Hw!TakeSlot, CodecThreads
<1>3. CASE Hw!QueueOutput
  <2>1. Len(queued') = Len(queued) + 1 /\ Len(coding') = Len(coding) + 1
    BY <1>3, <1>0, AppendIs DEF Hw!QueueOutput, CodecQueues, CodecLabels
  <2>2. UNCHANGED <<readSlots, full>> /\ pc'["poll"] = pc["poll"]
    BY <1>3, <1>0 DEF Hw!QueueOutput, CodecThreads
  <2>. QED BY <1>a, <2>1, <2>2
<1>4. CASE Hw!QueueFails
  BY <1>4, <1>0 DEF Hw!QueueFails, CodecThreads
<1>5. CASE Hw!AbortPoll
  BY <1>5, <1>0 DEF Hw!AbortPoll, CodecThreads
<1>6. CASE Hw!ReadSlot
  <2>1. Head(queued) \in Hw!Slots /\ Len(queued') = Len(queued) - 1
    BY <1>6, <1>0, TailIs DEF Hw!ReadSlot, CodecQueues
  <2>2. Len(readSlots') = Len(readSlots) + 1
    BY <1>6, <1>0, <2>1, AppendIs DEF Hw!ReadSlot, CodecQueues
  <2>3. UNCHANGED <<coding, full, pc>>
    BY <1>6 DEF Hw!ReadSlot
  <2>. QED BY <1>a, <2>1, <2>2, <2>3
<1>7. ASSUME NEW b \in CaptureBuffers, Hw!WriteResult(b) PROVE BalanceInv'
  <2>1. Head(coding) \in Hw!Calls /\ Len(coding') = Len(coding) - 1
    BY <1>7, <1>0, TailIs DEF Hw!WriteResult, CodecQueues
  <2>2. [Hw!NoItem EXCEPT !.buffer = b, !.frame = Head(coding)] \in Hw!Items
    BY <1>7, <2>1 DEF Hw!NoItem, Hw!Items
  <2>3. Len(full') = Len(full) + 1
    BY <1>7, <1>0, <2>2, AppendIs DEF Hw!WriteResult, CodecQueues
  <2>4. UNCHANGED <<queued, readSlots, pc>>
    BY <1>7 DEF Hw!WriteResult
  <2>. QED BY <1>a, <2>1, <2>3, <2>4
<1>8. CASE Hw!TestAbort
  BY <1>8, <1>0 DEF Hw!TestAbort, CodecThreads
<1>9. CASE Hw!PollTimesOut
  BY <1>9, <1>0 DEF Hw!PollTimesOut, CodecThreads
<1>10. CASE Hw!PollDrained
  BY <1>10, <1>0 DEF Hw!PollDrained, CodecThreads
<1>11. CASE Hw!PollReady
  BY <1>11, <1>0 DEF Hw!PollReady, CodecThreads
<1>12. CASE Hw!PollFails
  BY <1>12, <1>0 DEF Hw!PollFails, CodecThreads
<1>13. CASE Hw!DequeueOutput
  <2>1. Len(readSlots') = Len(readSlots) - 1
    BY <1>13, <1>0, TailIs DEF Hw!DequeueOutput, CodecQueues
  <2>2. UNCHANGED <<queued, coding, full>> /\ pc["poll"] = "dequeue" /\ pc'["poll"] = "drop"
    BY <1>13, <1>0 DEF Hw!DequeueOutput, CodecThreads
  <2>. QED BY <1>a, <2>1, <2>2
<1>14. CASE Hw!DropFrame
  BY <1>14, <1>0 DEF Hw!DropFrame, CodecThreads
<1>15. CASE Hw!DequeueCapture
  <2>1. Len(full') = Len(full) - 1
    BY <1>15, <1>0, TailIs DEF Hw!DequeueCapture, CodecQueues
  <2>2. /\ UNCHANGED <<queued, coding, readSlots>> /\ pc["poll"] = "collect"
        /\ pc'["poll"] \in {"poll", "deliver"}
    BY <1>15, <1>0 DEF Hw!DequeueCapture, CodecThreads
  <2>. QED BY <1>a, <2>1, <2>2
<1>16. ASSUME NEW t \in {"poll", "output"}, Hw!Deliver(t) PROVE BalanceInv'
  BY <1>16, <1>0 DEF Hw!Deliver, CodecThreads
<1>17. ASSUME NEW t \in {"poll", "output"}, Hw!Requeue(t) PROVE BalanceInv'
  BY <1>17, <1>0 DEF Hw!Requeue, CodecThreads
<1>18. CASE Hw!TakeOutput
  BY <1>18, <1>0 DEF Hw!TakeOutput, CodecThreads
<1>19. CASE Hw!OutputExits
  BY <1>19, <1>0 DEF Hw!OutputExits, CodecThreads
<1>20. CASE Hw!JoinPoll
  BY <1>20, <1>0 DEF Hw!JoinPoll, CodecThreads
<1>21. CASE Hw!JoinOutput
  BY <1>21, <1>0 DEF Hw!JoinOutput, CodecThreads
<1>22. CASE Hw!Destroy
  <2>1. pc'["poll"] = "exited"
    BY <1>22 DEF Hw!Destroy, OwnerInv
  <2>. QED BY <1>22, <2>1, EmptySeq DEF Hw!Destroy
<1>23. CASE UNCHANGED Hw!vars
  BY <1>23, <1>0 DEF Hw!vars, CodecThreads
<1>. QED BY <1>1, <1>2, <1>3, <1>4, <1>5, <1>6, <1>7, <1>8, <1>9, <1>10, <1>11, <1>12, <1>13,
            <1>14, <1>15, <1>16, <1>17, <1>18, <1>19, <1>20, <1>21, <1>22, <1>23
         DEF Hw!Next, Hw!Feed, Hw!Codec, Hw!Poll, Hw!Hand, Hw!Drain, Hw!Join

\* Where the driver grants no more slots than were asked for, the h264 encoder's poll thread
\* leaves only when the codec has nothing more: all slots are back, and as many results.
LEMMA StepDrained ==
  ASSUME Granted <= NumOutputBuffers
  PROVE  CodecTypes /\ OwnerInv /\ PlacesInv /\ BalanceInv /\ DrainedInv /\ [Hw!Next]_(Hw!vars)
         => DrainedInv'
<1>. SUFFICES ASSUME CodecTypes, OwnerInv, PlacesInv, BalanceInv, DrainedInv, [Hw!Next]_(Hw!vars)
              PROVE  DrainedInv'
  OBVIOUS
<1>0. CodecThreads /\ CodecQueues /\ CodecLabels
  BY CodecParts DEF CodecTypes
<1>. USE DEF DrainedInv, CodecThreads
<1>1. CASE Hw!Refuse
  BY <1>1, <1>0 DEF Hw!Refuse, CodecLabels
<1>2. CASE Hw!TakeSlot
  BY <1>2, <1>0 DEF Hw!TakeSlot, CodecLabels
<1>3. CASE Hw!QueueOutput
  BY <1>3, <1>0 DEF Hw!QueueOutput, CodecLabels
<1>4. CASE Hw!QueueFails
  BY <1>4, <1>0 DEF Hw!QueueFails, CodecLabels
<1>5. CASE Hw!AbortPoll
  BY <1>5, <1>0 DEF Hw!AbortPoll, CodecLabels
<1>6. CASE Hw!ReadSlot
  BY <1>6, <1>0 DEF Hw!ReadSlot, CodecLabels
<1>7. ASSUME NEW b \in CaptureBuffers, Hw!WriteResult(b) PROVE DrainedInv'
  BY <1>7, <1>0 DEF Hw!WriteResult, CodecLabels
<1>8. CASE Hw!TestAbort
  BY <1>8, <1>0 DEF Hw!TestAbort, CodecLabels
<1>9. CASE Hw!PollTimesOut
  BY <1>9, <1>0 DEF Hw!PollTimesOut, CodecLabels
<1>10. CASE Hw!PollDrained
  <2>1. owner # "open" /\ Len(free) = NumOutputBuffers /\ pc["poll"] = "poll"
    BY <1>10 DEF Hw!PollDrained, Hw!Drained, OwnerInv
  <2>2. Len(free) + Len(Lent) + Len(queued) + Len(readSlots) = Granted
    <3>1. owner # "gone"
      BY <2>1 DEF OwnerInv
    <3>. QED BY <3>1 DEF PlacesInv, Total, Places
  <2>3. /\ Len(Lent) \in Nat /\ Len(queued) \in Nat /\ Len(readSlots) \in Nat
        /\ Len(coding) \in Nat /\ Len(full) \in Nat
    <3>1. Lent \in Seq(Hw!Slots)
      BY PlacesType DEF Places, Sides
    <3>. QED BY <1>0, <3>1, LenProperties DEF CodecQueues
  <2>4. Len(queued) = 0 /\ Len(readSlots) = 0
    BY <2>1, <2>2, <2>3, BoundsOK
  <2>5. Len(coding) = 0 /\ Len(full) = 0
    BY <2>1, <2>3, <2>4 DEF BalanceInv
  <2>6. queued = <<>> /\ readSlots = <<>> /\ coding = <<>> /\ full = <<>>
    BY <1>0, <2>4, <2>5, NoneIs DEF CodecQueues
  <2>. QED BY <1>10, <2>1, <2>6 DEF Hw!PollDrained
<1>11. CASE Hw!PollReady
  BY <1>11, <1>0 DEF Hw!PollReady, CodecLabels
<1>12. CASE Hw!PollFails
  BY <1>12, <1>0 DEF Hw!PollFails, CodecLabels
<1>13. CASE Hw!DequeueOutput
  BY <1>13, <1>0 DEF Hw!DequeueOutput, CodecLabels
<1>14. CASE Hw!DropFrame
  BY <1>14, <1>0 DEF Hw!DropFrame, CodecLabels
<1>15. CASE Hw!DequeueCapture
  BY <1>15, <1>0 DEF Hw!DequeueCapture, CodecLabels
<1>16. ASSUME NEW t \in {"poll", "output"}, Hw!Deliver(t) PROVE DrainedInv'
  BY <1>16, <1>0 DEF Hw!Deliver, CodecLabels
<1>17. ASSUME NEW t \in {"poll", "output"}, Hw!Requeue(t) PROVE DrainedInv'
  BY <1>17, <1>0 DEF Hw!Requeue, CodecLabels
<1>18. CASE Hw!TakeOutput
  BY <1>18, <1>0 DEF Hw!TakeOutput, CodecLabels
<1>19. CASE Hw!OutputExits
  BY <1>19, <1>0 DEF Hw!OutputExits, CodecLabels
<1>20. CASE Hw!JoinPoll
  BY <1>20, <1>0 DEF Hw!JoinPoll, CodecLabels
<1>21. CASE Hw!JoinOutput
  BY <1>21, <1>0 DEF Hw!JoinOutput, CodecLabels
<1>22. CASE Hw!Destroy
  BY <1>22, <1>0 DEF Hw!Destroy, CodecLabels
<1>23. CASE UNCHANGED Hw!vars
  BY <1>23, <1>0 DEF Hw!vars, CodecLabels
<1>. QED BY <1>1, <1>2, <1>3, <1>4, <1>5, <1>6, <1>7, <1>8, <1>9, <1>10, <1>11, <1>12, <1>13,
            <1>14, <1>15, <1>16, <1>17, <1>18, <1>19, <1>20, <1>21, <1>22, <1>23
         DEF Hw!Next, Hw!Feed, Hw!Codec, Hw!Poll, Hw!Hand, Hw!Drain, Hw!Join

-----------------------------------------------------------------------------
(* The hardware encoders: the order of the frames                          *)

LEMMA FollowTail ==
  ASSUME NEW R, NEW s \in Seq(R), s # <<>>, NEW log, NEW n \in Nat, Follow(s, log, n)
  PROVE  Follow(Tail(s), log, n + 1) /\ Head(s).frame = log[n + 1]
<1>1. /\ Len(s) \in Nat \ {0} /\ Len(Tail(s)) = Len(s) - 1 /\ Head(s) = s[1]
      /\ \A i \in 1..Len(s) - 1 : Tail(s)[i] = s[i + 1]
  BY TailIs
<1>2. ASSUME NEW i \in 1..Len(Tail(s)) PROVE log[(n + 1) + i] = Tail(s)[i].frame
  <2>1. i + 1 \in 1..Len(s) /\ n + (i + 1) = (n + 1) + i /\ i \in 1..Len(s) - 1
    BY <1>1
  <2>. QED BY <1>1, <2>1 DEF Follow
<1>3. log[n + 1] = s[1].frame
  BY <1>1 DEF Follow
<1>. QED BY <1>1, <1>2, <1>3 DEF Follow

LEMMA FollowAppend ==
  ASSUME NEW R, NEW s \in Seq(R), NEW e \in R, NEW log, NEW n \in Nat,
         Follow(s, log, n), log[n + Len(s) + 1] = e.frame
  PROVE  Follow(Append(s, e), log, n)
<1>1. /\ Len(s) \in Nat /\ Len(Append(s, e)) = Len(s) + 1
      /\ \A i \in 1..Len(s) : Append(s, e)[i] = s[i]
      /\ Append(s, e)[Len(s) + 1] = e
  BY AppendIs
<1>2. ASSUME NEW i \in 1..Len(Append(s, e)) PROVE log[n + i] = Append(s, e)[i].frame
  <2>1. CASE i = Len(s) + 1
    <3>1. n + i = n + Len(s) + 1
      BY <1>1, <2>1
    <3>. QED BY <1>1, <2>1, <3>1
  <2>2. CASE i # Len(s) + 1
    <3>1. i \in 1..Len(s)
      BY <1>1, <2>2
    <3>. QED BY <1>1, <3>1 DEF Follow
  <2>. QED BY <2>1, <2>2
<1>. QED BY <1>2 DEF Follow

LEMMA FollowLonger ==
  ASSUME NEW R, NEW s \in Seq(R), NEW S, NEW log \in Seq(S), NEW e \in S, NEW n \in Nat,
         Follow(s, log, n), n + Len(s) <= Len(log)
  PROVE  Follow(s, Append(log, e), n)
<1>1. Len(log) \in Nat /\ Len(s) \in Nat /\ \A i \in 1..Len(log) : Append(log, e)[i] = log[i]
  BY AppendIs, LenProperties
<1>2. \A i \in 1..Len(s) : n + i \in 1..Len(log)
  BY <1>1
<1>. QED BY <1>1, <1>2 DEF Follow

LEMMA FollowOne ==
  ASSUME NEW e, NEW log, NEW n \in Nat, log[n + 1] = e.frame
  PROVE  Follow(<<e>>, log, n)
  BY DEF Follow

\* A frame accepted, its result written, put into the output queue or taken from the
\* CAPTURE queue, taken from the output queue, and delivered.
LEMMA OrderAccept ==
  ASSUME NEW log \in Seq(Hw!Calls), NEW done \in Seq(Hw!Calls), NEW hand \in Seq(Results),
         NEW outq \in Seq(Results), NEW fl \in Seq(Results), NEW cod \in Seq(Hw!Calls),
         Ordered(log, done, hand, outq, fl, cod), NEW x \in Hw!Calls
  PROVE  Ordered(Append(log, x), done, hand, outq, fl, Append(cod, x))
<1>. DEFINE h == Len(done) + Len(hand)
            w == h + Len(outq)
            r == w + Len(fl)
<1>1. /\ Len(log) \in Nat /\ Len(done) \in Nat /\ Len(hand) \in Nat /\ Len(outq) \in Nat
      /\ Len(fl) \in Nat /\ Len(cod) \in Nat
  BY LenProperties
<1>2. /\ Len(Append(log, x)) = Len(log) + 1 /\ Len(Append(cod, x)) = Len(cod) + 1
      /\ \A i \in 1..Len(log) : Append(log, x)[i] = log[i]
      /\ \A i \in 1..Len(cod) : Append(cod, x)[i] = cod[i]
      /\ Append(log, x)[Len(log) + 1] = x /\ Append(cod, x)[Len(cod) + 1] = x
  BY AppendIs
<1>3. /\ Len(log) = r + Len(cod) /\ Follow(hand, log, Len(done)) /\ Follow(outq, log, h)
      /\ Follow(fl, log, w) /\ \A i \in 1..Len(cod) : log[r + i] = cod[i]
  BY DEF Ordered
<1>4. Follow(hand, Append(log, x), Len(done)) /\ Follow(outq, Append(log, x), h)
      /\ Follow(fl, Append(log, x), w)
  <2>1. /\ Len(done) + Len(hand) <= Len(log) /\ h + Len(outq) <= Len(log) /\ w + Len(fl) <= Len(log)
        /\ h \in Nat /\ w \in Nat
    BY <1>1, <1>3
  <2>. HIDE DEF h, w
  <2>2. Follow(hand, Append(log, x), Len(done))
    BY <1>1, <1>3, <2>1, FollowLonger
  <2>3. Follow(outq, Append(log, x), h)
    BY <1>1, <1>3, <2>1, FollowLonger
  <2>4. Follow(fl, Append(log, x), w)
    BY <1>1, <1>3, <2>1, FollowLonger
  <2>. QED BY <2>2, <2>3, <2>4
<1>5. ASSUME NEW i \in 1..Len(Append(cod, x)) PROVE Append(log, x)[r + i] = Append(cod, x)[i]
  <2>1. CASE i = Len(cod) + 1
    <3>1. r + i = Len(log) + 1
      BY <1>1, <1>3, <2>1
    <3>. QED BY <1>2, <2>1, <3>1
  <2>2. CASE i # Len(cod) + 1
    <3>1. i \in 1..Len(cod) /\ r + i \in 1..Len(log)
      BY SMTT(25), <1>1, <1>2, <1>3, <2>2
    <3>. QED BY <1>2, <1>3, <3>1
  <2>. QED BY <2>1, <2>2
<1>6. Len(Append(log, x)) = r + Len(Append(cod, x))
  BY <1>1, <1>2, <1>3
<1>. QED BY <1>4, <1>5, <1>6 DEF Ordered

LEMMA OrderWrite ==
  ASSUME NEW log \in Seq(Hw!Calls), NEW done \in Seq(Hw!Calls), NEW hand \in Seq(Results),
         NEW outq \in Seq(Results), NEW fl \in Seq(Results), NEW cod \in Seq(Hw!Calls),
         Ordered(log, done, hand, outq, fl, cod), cod # <<>>, NEW e \in Results, e.frame = Head(cod)
  PROVE  Ordered(log, done, hand, outq, Append(fl, e), Tail(cod))
<1>. DEFINE h == Len(done) + Len(hand)
            w == h + Len(outq)
            r == w + Len(fl)
<1>1. /\ Len(log) \in Nat /\ Len(done) \in Nat /\ Len(hand) \in Nat /\ Len(outq) \in Nat
      /\ Len(fl) \in Nat /\ Len(cod) \in Nat \ {0}
  BY LenProperties, TailIs
<1>2. /\ Len(Append(fl, e)) = Len(fl) + 1 /\ Len(Tail(cod)) = Len(cod) - 1
      /\ Head(cod) = cod[1] /\ \A i \in 1..Len(cod) - 1 : Tail(cod)[i] = cod[i + 1]
  BY AppendIs, TailIs
<1>3. /\ Len(log) = r + Len(cod) /\ Follow(hand, log, Len(done)) /\ Follow(outq, log, h)
      /\ Follow(fl, log, w) /\ \A i \in 1..Len(cod) : log[r + i] = cod[i]
  BY DEF Ordered
<1>4. Follow(Append(fl, e), log, w)
  <2>1. log[r + 1] = e.frame
    BY <1>1, <1>2, <1>3
  <2>. QED BY <1>1, <1>3, <2>1, FollowAppend
<1>5. ASSUME NEW i \in 1..Len(Tail(cod)) PROVE log[(w + (Len(fl) + 1)) + i] = Tail(cod)[i]
  <2>1. i + 1 \in 1..Len(cod) /\ i \in 1..Len(cod) - 1 /\ (w + (Len(fl) + 1)) + i = r + (i + 1)
    BY <1>1, <1>2
  <2>. QED BY <1>2, <1>3, <2>1
<1>6. Len(log) = (w + (Len(fl) + 1)) + Len(Tail(cod))
  BY <1>1, <1>2, <1>3
<1>. QED BY <1>2, <1>3, <1>4, <1>5, <1>6 DEF Ordered

LEMMA OrderQueue ==
  ASSUME NEW log \in Seq(Hw!Calls), NEW done \in Seq(Hw!Calls), NEW hand \in Seq(Results),
         NEW outq \in Seq(Results), NEW fl \in Seq(Results), NEW cod \in Seq(Hw!Calls),
         Ordered(log, done, hand, outq, fl, cod), fl # <<>>
  PROVE  Ordered(log, done, hand, Append(outq, Head(fl)), Tail(fl), cod)
<1>. DEFINE h == Len(done) + Len(hand)
            w == h + Len(outq)
            r == w + Len(fl)
<1>1. /\ Len(log) \in Nat /\ Len(done) \in Nat /\ Len(hand) \in Nat /\ Len(outq) \in Nat
      /\ Len(fl) \in Nat \ {0} /\ Len(cod) \in Nat /\ Head(fl) \in Results
  BY LenProperties, TailIs
<1>2. Len(Append(outq, Head(fl))) = Len(outq) + 1 /\ Len(Tail(fl)) = Len(fl) - 1
  BY <1>1, AppendIs, TailIs
<1>3. /\ Len(log) = r + Len(cod) /\ Follow(hand, log, Len(done)) /\ Follow(outq, log, h)
      /\ Follow(fl, log, w) /\ \A i \in 1..Len(cod) : log[r + i] = cod[i]
  BY DEF Ordered
<1>4. Follow(Tail(fl), log, w + 1) /\ Head(fl).frame = log[w + 1]
  BY <1>1, <1>3, FollowTail
<1>5. Follow(Append(outq, Head(fl)), log, h)
  BY <1>1, <1>3, <1>4, FollowAppend
<1>6. h + (Len(outq) + 1) = w + 1 /\ (w + 1) + (Len(fl) - 1) = r
  BY <1>1
<1>. QED BY <1>2, <1>3, <1>4, <1>5, <1>6 DEF Ordered

LEMMA OrderHand ==
  ASSUME NEW log \in Seq(Hw!Calls), NEW done \in Seq(Hw!Calls), NEW hand \in Seq(Results),
         NEW outq \in Seq(Results), NEW fl \in Seq(Results), NEW cod \in Seq(Hw!Calls),
         Ordered(log, done, hand, outq, fl, cod), hand = <<>>, outq = <<>>, fl # <<>>
  PROVE  Ordered(log, done, <<Head(fl)>>, outq, Tail(fl), cod)
<1>. DEFINE w == Len(done)
            r == w + Len(fl)
<1>1. /\ Len(log) \in Nat /\ Len(done) \in Nat /\ Len(hand) = 0 /\ Len(outq) = 0
      /\ Len(fl) \in Nat \ {0} /\ Len(cod) \in Nat /\ Len(Tail(fl)) = Len(fl) - 1
  BY LenProperties, TailIs
<1>2. /\ Len(log) = r + Len(cod) /\ Follow(fl, log, w)
      /\ \A i \in 1..Len(cod) : log[r + i] = cod[i]
  BY <1>1 DEF Ordered
<1>3. Follow(Tail(fl), log, w + 1) /\ Head(fl).frame = log[w + 1]
  BY <1>1, <1>2, FollowTail
<1>4. Follow(<<Head(fl)>>, log, w) /\ Len(<<Head(fl)>>) = 1
  BY <1>1, <1>3, FollowOne
<1>5. Follow(outq, log, w + 1)
  BY <1>1 DEF Follow
<1>6. w \in Nat /\ (w + 1) + 0 = w + 1 /\ (w + 1) + Len(Tail(fl)) = r
  BY <1>1
<1>7. Ordered(log, done, <<Head(fl)>>, outq, Tail(fl), cod)
      <=> /\ Len(log) = ((w + 1) + 0) + Len(Tail(fl)) + Len(cod)
          /\ Follow(<<Head(fl)>>, log, w) /\ Follow(outq, log, w + 1)
          /\ Follow(Tail(fl), log, (w + 1) + 0)
          /\ \A i \in 1..Len(cod) : log[((w + 1) + 0) + Len(Tail(fl)) + i] = cod[i]
  BY <1>1, <1>4 DEF Ordered
<1>. HIDE DEF w, r
<1>. QED BY <1>1, <1>2, <1>3, <1>4, <1>5, <1>6, <1>7

LEMMA OrderTake ==
  ASSUME NEW log \in Seq(Hw!Calls), NEW done \in Seq(Hw!Calls), NEW hand \in Seq(Results),
         NEW outq \in Seq(Results), NEW fl \in Seq(Results), NEW cod \in Seq(Hw!Calls),
         Ordered(log, done, hand, outq, fl, cod), hand = <<>>, outq # <<>>
  PROVE  Ordered(log, done, <<Head(outq)>>, Tail(outq), fl, cod)
<1>. DEFINE d == Len(done)
            w == d + Len(outq)
            r == w + Len(fl)
<1>1. /\ Len(log) \in Nat /\ Len(done) \in Nat /\ Len(hand) = 0
      /\ Len(outq) \in Nat \ {0} /\ Len(fl) \in Nat /\ Len(cod) \in Nat
      /\ Len(Tail(outq)) = Len(outq) - 1
  BY LenProperties, TailIs
<1>2. /\ Len(log) = r + Len(cod) /\ Follow(outq, log, d) /\ Follow(fl, log, w)
      /\ \A i \in 1..Len(cod) : log[r + i] = cod[i]
  BY <1>1 DEF Ordered
<1>3. Follow(Tail(outq), log, d + 1) /\ Head(outq).frame = log[d + 1]
  BY SMTT(25), <1>1, <1>2, FollowTail
<1>4. Follow(<<Head(outq)>>, log, d) /\ Len(<<Head(outq)>>) = 1
  BY <1>1, <1>3, FollowOne
<1>5. (d + 1) + (Len(outq) - 1) = w
  BY <1>1
<1>. QED BY <1>1, <1>2, <1>3, <1>4, <1>5 DEF Ordered

LEMMA OrderDeliver ==
  ASSUME NEW log \in Seq(Hw!Calls), NEW done \in Seq(Hw!Calls), NEW hand \in Seq(Results),
         NEW outq \in Seq(Results), NEW fl \in Seq(Results), NEW cod \in Seq(Hw!Calls),
         Ordered(log, done, hand, outq, fl, cod), NEW e, hand = <<e>>, e.frame \in Hw!Calls
  PROVE  Ordered(log, Append(done, e.frame), <<>>, outq, fl, cod) /\ log[Len(done) + 1] = e.frame
<1>1. Len(done) \in Nat /\ Len(hand) = 1 /\ Len(Append(done, e.frame)) = Len(done) + 1
  BY LenProperties, AppendIs
<1>2. log[Len(done) + 1] = e.frame
  <2>1. Follow(<<e>>, log, Len(done)) /\ 1 \in 1..Len(<<e>>) /\ <<e>>[1] = e
    BY DEF Ordered
  <2>. QED BY <2>1 DEF Follow
<1>3. Follow(<<>>, log, Len(done) + 1) /\ Len(<<>>) = 0 /\ (Len(done) + 1) + 0 = Len(done) + 1
  BY <1>1 DEF Follow
<1>. QED BY <1>1, <1>2, <1>3 DEF Ordered

LEMMA HandType == CodecTypes => InHand \in Seq(Results)
<1>. SUFFICES ASSUME CodecTypes PROVE InHand \in Seq(Results)
  OBVIOUS
<1>1. <<>> \in Seq(Results)
  BY EmptySeq
<1>2. \A t \in {"poll", "output"} : Hw!At(t, "deliver") => <<item[t]>> \in Seq(Results)
  BY DEF CodecTypes, CodecLabels
<1>. QED BY <1>1, <1>2 DEF InHand

LEMMA StepOrder == CodecTypes /\ OwnerInv /\ OrderInv /\ [Hw!Next]_(Hw!vars) => OrderInv'
<1>. SUFFICES ASSUME CodecTypes, OwnerInv, OrderInv, [Hw!Next]_(Hw!vars), owner' # "gone"
              PROVE  Ordered(accepted, delivered, InHand, outputQueue, full, coding)'
  BY DEF OrderInv
<1>. DEFINE Goal == Ordered(accepted, delivered, InHand, outputQueue, full, coding)'
<1>0. /\ accepted \in Seq(Hw!Calls) /\ delivered \in Seq(Hw!Calls) /\ coding \in Seq(Hw!Calls)
      /\ outputQueue \in Seq(Results) /\ full \in Seq(Results) /\ InHand \in Seq(Results)
      /\ pc \in [Hw!Threads -> {"idle", "queue", "test", "poll", "dequeue", "drop", "collect",
                             "wait", "deliver", "requeue", "exited"}]
      /\ item \in [Hw!Threads -> Hw!Items]
  BY HandType DEF CodecTypes, Hw!TypeOK, CodecLabels
<1>a. Ordered(accepted, delivered, InHand, outputQueue, full, coding)
  BY StillThere DEF OrderInv
<1>b. UNCHANGED <<accepted, delivered, InHand, outputQueue, full, coding>> => Goal
  BY <1>a
<1>. HIDE DEF Goal
<1>1. CASE Hw!Refuse
  <2>1. UNCHANGED <<accepted, delivered, InHand, outputQueue, full, coding>>
    BY <1>1, <1>0 DEF Hw!Refuse, InHand
  <2>. QED BY <2>1, <1>b DEF Goal
<1>2. CASE Hw!TakeSlot
  <2>1. UNCHANGED <<accepted, delivered, InHand, outputQueue, full, coding>>
    BY <1>2, <1>0 DEF Hw!TakeSlot, InHand
  <2>. QED BY <2>1, <1>b DEF Goal
<1>3. CASE Hw!QueueOutput
  <2>1. UNCHANGED <<delivered, InHand, outputQueue, full>>
    BY <1>3, <1>0 DEF Hw!QueueOutput, InHand
  <2>2. calls \in Hw!Calls /\ accepted' = Append(accepted, calls) /\ coding' = Append(coding, calls)
    BY <1>3 DEF Hw!QueueOutput, CodecTypes, CodecLabels
  <2>. QED BY <1>0, <1>a, <2>1, <2>2, OrderAccept DEF Goal
<1>4. CASE Hw!QueueFails
  <2>1. UNCHANGED <<accepted, delivered, InHand, outputQueue, full, coding>>
    BY <1>4, <1>0 DEF Hw!QueueFails, InHand
  <2>. QED BY <2>1, <1>b DEF Goal
<1>5. CASE Hw!AbortPoll
  <2>1. UNCHANGED <<accepted, delivered, InHand, outputQueue, full, coding>>
    BY <1>5, <1>0 DEF Hw!AbortPoll, InHand
  <2>. QED BY <2>1, <1>b DEF Goal
<1>6. CASE Hw!ReadSlot
  <2>1. UNCHANGED <<accepted, delivered, InHand, outputQueue, full, coding>>
    BY <1>6, <1>0 DEF Hw!ReadSlot, InHand
  <2>. QED BY <2>1, <1>b DEF Goal
<1>7. ASSUME NEW b \in CaptureBuffers, Hw!WriteResult(b) PROVE Goal
  <2>. DEFINE e == [Hw!NoItem EXCEPT !.buffer = b, !.frame = Head(coding)]
  <2>1. UNCHANGED <<accepted, delivered, InHand, outputQueue>>
    BY <1>7 DEF Hw!WriteResult, InHand
  <2>2. /\ coding # <<>> /\ full' = Append(full, e) /\ coding' = Tail(coding)
        /\ Head(coding) \in Hw!Calls
    BY <1>7, <1>0, TailIs DEF Hw!WriteResult
  <2>3. e \in Results /\ e.frame = Head(coding)
    BY <1>7, <2>2 DEF Hw!NoItem, Results
  <2>. HIDE DEF e
  <2>. QED BY <1>0, <1>a, <2>1, <2>2, <2>3, OrderWrite DEF Goal
<1>8. CASE Hw!TestAbort
  <2>1. UNCHANGED <<accepted, delivered, InHand, outputQueue, full, coding>>
    BY <1>8, <1>0 DEF Hw!TestAbort, InHand
  <2>. QED BY <2>1, <1>b DEF Goal
<1>9. CASE Hw!PollTimesOut
  <2>1. UNCHANGED <<accepted, delivered, InHand, outputQueue, full, coding>>
    BY <1>9, <1>0 DEF Hw!PollTimesOut, InHand
  <2>. QED BY <2>1, <1>b DEF Goal
<1>10. CASE Hw!PollDrained
  <2>1. UNCHANGED <<accepted, delivered, InHand, outputQueue, full, coding>>
    BY <1>10, <1>0 DEF Hw!PollDrained, InHand
  <2>. QED BY <2>1, <1>b DEF Goal
<1>11. CASE Hw!PollReady
  <2>1. UNCHANGED <<accepted, delivered, InHand, outputQueue, full, coding>>
    BY <1>11, <1>0 DEF Hw!PollReady, InHand
  <2>. QED BY <2>1, <1>b DEF Goal
<1>12. CASE Hw!PollFails
  <2>1. UNCHANGED <<accepted, delivered, InHand, outputQueue, full, coding>>
    BY <1>12, <1>0 DEF Hw!PollFails, InHand
  <2>. QED BY <2>1, <1>b DEF Goal
<1>13. CASE Hw!DequeueOutput
  <2>1. UNCHANGED <<accepted, delivered, InHand, outputQueue, full, coding>>
    BY <1>13, <1>0 DEF Hw!DequeueOutput, InHand
  <2>. QED BY <2>1, <1>b DEF Goal
<1>14. CASE Hw!DropFrame
  <2>1. UNCHANGED <<accepted, delivered, InHand, outputQueue, full, coding>>
    BY <1>14, <1>0 DEF Hw!DropFrame, InHand
  <2>. QED BY <2>1, <1>b DEF Goal
<1>15. CASE Hw!DequeueCapture
  <2>1. /\ UNCHANGED <<accepted, delivered, coding>> /\ full # <<>> /\ full' = Tail(full)
        /\ Hw!At("poll", "collect")
    BY <1>15 DEF Hw!DequeueCapture
  <2>2. CASE kind = "h264"
    <3>1. outputQueue' = Append(outputQueue, Head(full)) /\ InHand' = InHand
      BY <1>15, <1>0, <2>2 DEF Hw!DequeueCapture, InHand
    <3>. QED BY <1>0, <1>a, <2>1, <3>1, OrderQueue DEF Goal
  <2>3. CASE kind = "jpeg_hw"
    <3>1. outputQueue = <<>> /\ ~Hw!At("output", "deliver") /\ outputQueue' = outputQueue
      BY <1>15, <2>3 DEF Hw!DequeueCapture, CodecTypes, CodecLabels
    <3>2. InHand = <<>> /\ InHand' = <<Head(full)>>
      BY <1>15, <1>0, <2>1, <2>3, <3>1 DEF Hw!DequeueCapture, InHand
    <3>. QED BY <1>0, <1>a, <2>1, <3>1, <3>2, OrderHand DEF Goal
  <2>. QED BY <2>2, <2>3 DEF CodecTypes, Hw!TypeOK
<1>16. ASSUME NEW t \in {"poll", "output"}, Hw!Deliver(t) PROVE Goal
  <2>1. UNCHANGED <<accepted, outputQueue, full, coding>> /\ Hw!At(t, "deliver")
        /\ delivered' = Append(delivered, item[t].frame)
    BY <1>16 DEF Hw!Deliver
  <2>2. item[t] \in Results
    BY <2>1 DEF CodecTypes, CodecLabels
  <2>3. \A u \in {"poll", "output"} \ {t} : ~Hw!At(u, "deliver")
    BY <1>16, <2>1 DEF CodecTypes, CodecLabels, Hw!TypeOK
  <2>4. InHand = <<item[t]>> /\ InHand' = <<>>
    BY <1>16, <1>0, <2>1, <2>3 DEF Hw!Deliver, InHand
  <2>5. item[t].frame \in Hw!Calls
    BY <2>2 DEF Results
  <2>. QED BY <1>0, <1>a, <2>1, <2>4, <2>5, OrderDeliver DEF Goal
<1>17. ASSUME NEW t \in {"poll", "output"}, Hw!Requeue(t) PROVE Goal
  <2>1. UNCHANGED <<accepted, delivered, InHand, outputQueue, full, coding>>
    BY <1>17, <1>0 DEF Hw!Requeue, InHand
  <2>. QED BY <2>1, <1>b DEF Goal
<1>18. CASE Hw!TakeOutput
  <2>1. /\ UNCHANGED <<accepted, delivered, full, coding>> /\ outputQueue # <<>>
        /\ outputQueue' = Tail(outputQueue)
    BY <1>18 DEF Hw!TakeOutput
  <2>2. ~Hw!At("poll", "deliver")
    BY <1>18 DEF Hw!TakeOutput, CodecTypes, CodecLabels, Hw!TypeOK
  <2>3. InHand = <<>> /\ InHand' = <<Head(outputQueue)>>
    BY <1>18, <1>0, <2>2 DEF Hw!TakeOutput, InHand
  <2>. QED BY <1>0, <1>a, <2>1, <2>3, OrderTake DEF Goal
<1>19. CASE Hw!OutputExits
  <2>1. UNCHANGED <<accepted, delivered, InHand, outputQueue, full, coding>>
    BY <1>19, <1>0 DEF Hw!OutputExits, InHand
  <2>. QED BY <2>1, <1>b DEF Goal
<1>20. CASE Hw!JoinPoll
  <2>1. UNCHANGED <<accepted, delivered, InHand, outputQueue, full, coding>>
    BY <1>20, <1>0 DEF Hw!JoinPoll, InHand
  <2>. QED BY <2>1, <1>b DEF Goal
<1>21. CASE Hw!JoinOutput
  <2>1. UNCHANGED <<accepted, delivered, InHand, outputQueue, full, coding>>
    BY <1>21, <1>0 DEF Hw!JoinOutput, InHand
  <2>. QED BY <2>1, <1>b DEF Goal
<1>22. CASE Hw!Destroy
  BY <1>22 DEF Hw!Destroy
<1>23. CASE UNCHANGED Hw!vars
  <2>1. UNCHANGED <<accepted, delivered, InHand, outputQueue, full, coding>>
    BY <1>23, <1>0 DEF Hw!vars, InHand
  <2>. QED BY <2>1, <1>b DEF Goal
<1>. QED BY <1>1, <1>2, <1>3, <1>4, <1>5, <1>6, <1>7, <1>8, <1>9, <1>10, <1>11, <1>12, <1>13,
            <1>14, <1>15, <1>16, <1>17, <1>18, <1>19, <1>20, <1>21, <1>22, <1>23
         DEF Hw!Next, Hw!Feed, Hw!Codec, Hw!Poll, Hw!Hand, Hw!Drain, Hw!Join, Goal

-----------------------------------------------------------------------------
(* The hardware encoders: the CAPTURE buffers                              *)

LEMMA BuffersAppend ==
  ASSUME NEW R, NEW s \in Seq(R), NEW e \in R, Distinct(s), e.buffer \notin BuffersOf(s)
  PROVE  /\ BuffersOf(Append(s, e)) = BuffersOf(s) \cup {e.buffer}
         /\ Distinct(Append(s, e))
<1>1. /\ Len(s) \in Nat /\ Len(Append(s, e)) = Len(s) + 1
      /\ \A i \in 1..Len(s) : Append(s, e)[i] = s[i]
      /\ Append(s, e)[Len(s) + 1] = e
  BY AppendIs
<1>2. \A i \in 1..Len(s) : i \in 1..Len(s) + 1 /\ s[i].buffer # e.buffer
  BY <1>1 DEF BuffersOf
<1>3. \A i \in 1..Len(s) + 1 : i = Len(s) + 1 \/ i \in 1..Len(s)
  BY <1>1
<1>4. Len(s) + 1 \in 1..Len(s) + 1
  BY <1>1
<1>. QED BY <1>1, <1>2, <1>3, <1>4 DEF BuffersOf, Distinct

LEMMA BuffersTail ==
  ASSUME NEW R, NEW s \in Seq(R), s # <<>>, Distinct(s)
  PROVE  /\ BuffersOf(s) = BuffersOf(Tail(s)) \cup {Head(s).buffer}
         /\ Head(s).buffer \notin BuffersOf(Tail(s)) /\ Distinct(Tail(s))
<1>1. /\ Len(s) \in Nat \ {0} /\ Len(Tail(s)) = Len(s) - 1 /\ Head(s) = s[1]
      /\ \A i \in 1..Len(s) - 1 : Tail(s)[i] = s[i + 1]
  BY TailIs
<1>2. \A i \in 1..Len(s) - 1 : i + 1 \in 1..Len(s) /\ i + 1 # 1
  BY <1>1
<1>3. \A i \in 1..Len(s) : i = 1 \/ (i - 1 \in 1..Len(s) - 1 /\ (i - 1) + 1 = i)
  BY <1>1
<1>4. \A i, j \in 1..Len(s) - 1 : i + 1 = j + 1 => i = j
  BY <1>1
<1>5. 1 \in 1..Len(s)
  BY <1>1
<1>6. Distinct(Tail(s))
  <2>. SUFFICES ASSUME NEW i \in 1..Len(s) - 1, NEW j \in 1..Len(s) - 1,
                       s[i + 1].buffer = s[j + 1].buffer
                PROVE  i = j
    BY <1>1 DEF Distinct
  <2>. QED BY <1>2, <1>4 DEF Distinct
<1>7. Head(s).buffer \notin BuffersOf(Tail(s))
  <2>. SUFFICES ASSUME NEW i \in 1..Len(s) - 1, s[i + 1].buffer = s[1].buffer PROVE FALSE
    BY <1>1 DEF BuffersOf
  <2>. QED BY <1>2, <1>5 DEF Distinct
<1>8. BuffersOf(s) = BuffersOf(Tail(s)) \cup {Head(s).buffer}
  <2>1. ASSUME NEW x \in BuffersOf(s) PROVE x \in BuffersOf(Tail(s)) \cup {Head(s).buffer}
    <3>1. PICK i \in 1..Len(s) : x = s[i].buffer
      BY DEF BuffersOf
    <3>2. CASE i = 1
      BY <1>1, <3>1, <3>2
    <3>3. CASE i # 1
      <4>1. i - 1 \in 1..Len(Tail(s)) /\ Tail(s)[i - 1] = s[i]
        BY <1>1, <1>3, <3>3
      <4>. QED BY <3>1, <4>1 DEF BuffersOf
    <3>. QED BY <3>2, <3>3
  <2>2. ASSUME NEW i \in 1..Len(s) - 1 PROVE Tail(s)[i].buffer \in BuffersOf(s)
    <3>1. i + 1 \in 1..Len(s) /\ Tail(s)[i] = s[i + 1]
      BY <1>1, <1>2
    <3>. QED BY <3>1 DEF BuffersOf
  <2>3. BuffersOf(Tail(s)) \subseteq BuffersOf(s) /\ Head(s).buffer \in BuffersOf(s)
    BY <1>1, <1>5, <2>2 DEF BuffersOf
  <2>. QED BY <2>1, <2>3
<1>. QED BY <1>6, <1>7, <1>8

LEMMA StepBuffers == CodecTypes /\ BufferInv /\ [Hw!Next]_(Hw!vars) => BufferInv'
<1>. SUFFICES ASSUME CodecTypes, BufferInv, [Hw!Next]_(Hw!vars) PROVE BufferInv'
  OBVIOUS
<1>0. CodecThreads /\ CodecLabels /\ empty \subseteq CaptureBuffers
  BY CodecParts DEF CodecTypes, CodecQueues
<1>d. full \in Seq(Results) /\ outputQueue \in Seq(Results)
  BY <1>0 DEF CodecLabels
<1>a. BuffersOf(<<>>) = {} /\ Distinct(<<>>)
  BY EmptySeq DEF BuffersOf, Distinct
<1>b. UNCHANGED <<full, outputQueue, empty, Held>> => BufferInv'
  BY DEF BufferInv
<1>. HIDE DEF BufferInv
<1>1. CASE Hw!Refuse
  <2>1. Held' = Held
    BY <1>1, <1>0 DEF Hw!Refuse, Held, CodecThreads
  <2>. QED BY <1>1, <1>b, <2>1 DEF Hw!Refuse
<1>2. CASE Hw!TakeSlot
  <2>1. Held' = Held
    BY <1>2, <1>0 DEF Hw!TakeSlot, Held, CodecThreads
  <2>. QED BY <1>2, <1>b, <2>1 DEF Hw!TakeSlot
<1>3. CASE Hw!QueueOutput
  <2>1. Held' = Held
    BY <1>3, <1>0 DEF Hw!QueueOutput, Held, CodecThreads
  <2>. QED BY <1>3, <1>b, <2>1 DEF Hw!QueueOutput
<1>4. CASE Hw!QueueFails
  <2>1. Held' = Held
    BY <1>4, <1>0 DEF Hw!QueueFails, Held, CodecThreads
  <2>. QED BY <1>4, <1>b, <2>1 DEF Hw!QueueFails
<1>5. CASE Hw!AbortPoll
  <2>1. Held' = Held
    BY <1>5, <1>0 DEF Hw!AbortPoll, Held, CodecThreads
  <2>. QED BY <1>5, <1>b, <2>1 DEF Hw!AbortPoll
<1>6. CASE Hw!ReadSlot
  <2>1. Held' = Held
    BY <1>6, <1>0 DEF Hw!ReadSlot, Held, CodecThreads
  <2>. QED BY <1>6, <1>b, <2>1 DEF Hw!ReadSlot
<1>7. ASSUME NEW b \in CaptureBuffers, Hw!WriteResult(b) PROVE BufferInv'
  <2>. DEFINE e == [Hw!NoItem EXCEPT !.buffer = b, !.frame = Head(coding)]
  <2>1. /\ coding # <<>> /\ b \in empty /\ full' = Append(full, e) /\ empty' = empty \ {b}
        /\ UNCHANGED <<outputQueue, Held>>
    BY <1>7 DEF Hw!WriteResult, Held
  <2>2. e \in Results /\ e.buffer = b
    <3>1. Head(coding) \in Hw!Calls
      BY <2>1, TailIs DEF CodecTypes, Hw!TypeOK
    <3>. QED BY <1>7, <3>1 DEF Hw!NoItem, Results
  <2>. HIDE DEF e
  <2>3. Distinct(full) /\ b \notin BuffersOf(full)
    BY <2>1 DEF BufferInv
  <2>4. BuffersOf(full)' = BuffersOf(full) \cup {b} /\ Distinct(full)'
    BY <1>d, <2>1, <2>2, <2>3, BuffersAppend
  <2>5. BuffersOf(outputQueue)' = BuffersOf(outputQueue) /\ Distinct(outputQueue)'
    BY <2>1 DEF BufferInv
  <2>. QED BY <2>1, <2>4, <2>5 DEF BufferInv
<1>8. CASE Hw!TestAbort
  <2>1. Held' = Held
    BY <1>8, <1>0 DEF Hw!TestAbort, Held, CodecThreads
  <2>. QED BY <1>8, <1>b, <2>1 DEF Hw!TestAbort
<1>9. CASE Hw!PollTimesOut
  <2>1. Held' = Held
    BY <1>9, <1>0 DEF Hw!PollTimesOut, Held, CodecThreads
  <2>. QED BY <1>9, <1>b, <2>1 DEF Hw!PollTimesOut
<1>10. CASE Hw!PollDrained
  <2>1. Held' = Held
    BY <1>10, <1>0 DEF Hw!PollDrained, Held, CodecThreads
  <2>. QED BY <1>10, <1>b, <2>1 DEF Hw!PollDrained
<1>11. CASE Hw!PollReady
  <2>1. Held' = Held
    BY <1>11, <1>0 DEF Hw!PollReady, Held, CodecThreads
  <2>. QED BY <1>11, <1>b, <2>1 DEF Hw!PollReady
<1>12. CASE Hw!PollFails
  <2>1. Held' = Held
    BY <1>12, <1>0 DEF Hw!PollFails, Held, CodecThreads
  <2>. QED BY <1>12, <1>b, <2>1 DEF Hw!PollFails
<1>13. CASE Hw!DequeueOutput
  <2>1. Held' = Held
    BY <1>13, <1>0 DEF Hw!DequeueOutput, Held, CodecThreads
  <2>. QED BY <1>13, <1>b, <2>1 DEF Hw!DequeueOutput
<1>14. CASE Hw!DropFrame
  <2>1. Held' = Held
    BY <1>14, <1>0 DEF Hw!DropFrame, Held, CodecThreads
  <2>. QED BY <1>14, <1>b, <2>1 DEF Hw!DropFrame
<1>15. CASE Hw!DequeueCapture
  <2>1. /\ full # <<>> /\ full' = Tail(full) /\ empty' = empty /\ Hw!At("poll", "collect")
    BY <1>15 DEF Hw!DequeueCapture
  <2>2. /\ BuffersOf(full) = BuffersOf(full)' \cup {Head(full).buffer}
        /\ Head(full).buffer \notin BuffersOf(full)' /\ Distinct(full)'
    BY <1>d, <2>1, BuffersTail DEF BufferInv
  <2>3. CASE kind = "h264"
    <3>1. outputQueue' = Append(outputQueue, Head(full)) /\ Head(full) \in Results
      BY <1>15, <1>d, <2>1, <2>3, TailIs DEF Hw!DequeueCapture
    <3>2. Head(full).buffer \notin BuffersOf(outputQueue) /\ Distinct(outputQueue)
      BY <2>2 DEF BufferInv
    <3>3. /\ BuffersOf(outputQueue)' = BuffersOf(outputQueue) \cup {Head(full).buffer}
          /\ Distinct(outputQueue)'
      BY <1>d, <3>1, <3>2, BuffersAppend
    <3>4. Held' = Held
      BY <1>15, <1>0, <2>3 DEF Hw!DequeueCapture, Held, CodecThreads
    <3>. QED BY <2>1, <2>2, <3>3, <3>4 DEF BufferInv
  <2>4. CASE kind = "jpeg_hw"
    <3>1. outputQueue = <<>> /\ outputQueue' = outputQueue /\ pc["output"] = "exited"
      BY <1>15, <1>0, <2>4 DEF Hw!DequeueCapture, CodecLabels
    <3>2. Held' = {Head(full).buffer}
      BY <1>15, <1>0, <2>4, <3>1 DEF Hw!DequeueCapture, Held, CodecThreads
    <3>. QED BY <1>a, <2>1, <2>2, <3>1, <3>2 DEF BufferInv
  <2>. QED BY <1>0, <2>3, <2>4 DEF CodecThreads
<1>16. ASSUME NEW t \in {"poll", "output"}, Hw!Deliver(t) PROVE BufferInv'
  <2>1. Held' = Held
    BY <1>16, <1>0 DEF Hw!Deliver, Held, CodecThreads
  <2>. QED BY <1>16, <1>b, <2>1 DEF Hw!Deliver
<1>17. ASSUME NEW t \in {"poll", "output"}, Hw!Requeue(t) PROVE BufferInv'
  <2>1. /\ UNCHANGED <<full, outputQueue>> /\ empty \subseteq empty' /\ Hw!At(t, "requeue")
        /\ empty' \subseteq empty \cup {item[t].buffer}
    BY <1>17 DEF Hw!Requeue
  <2>2. Held = {item[t].buffer}
    BY <1>0, <2>1 DEF Held, CodecLabels, CodecThreads
  <2>3. Held' = {}
    <3>1. pc' = [pc EXCEPT ![t] = IF t = "poll" THEN "test" ELSE "wait"]
      BY <1>17 DEF Hw!Requeue
    <3>2. \A u \in {"poll", "output"} \ {t} : pc[u] \notin {"deliver", "requeue"}
      BY <1>0, <2>1 DEF CodecLabels, CodecThreads
    <3>3. \A u \in {"poll", "output"} : pc'[u] \notin {"deliver", "requeue"}
      BY <1>0, <3>1, <3>2 DEF CodecThreads
    <3>. QED BY <3>3 DEF Held
  <2>. QED BY <2>1, <2>2, <2>3 DEF BufferInv
<1>18. CASE Hw!TakeOutput
  <2>1. /\ UNCHANGED <<full, empty>> /\ outputQueue # <<>> /\ outputQueue' = Tail(outputQueue)
    BY <1>18 DEF Hw!TakeOutput
  <2>2. /\ BuffersOf(outputQueue) = BuffersOf(outputQueue)' \cup {Head(outputQueue).buffer}
        /\ Head(outputQueue).buffer \notin BuffersOf(outputQueue)' /\ Distinct(outputQueue)'
    BY <1>d, <2>1, BuffersTail DEF BufferInv
  <2>3. Held' = {Head(outputQueue).buffer}
    <3>1. pc["poll"] \notin {"deliver", "requeue"}
      BY <1>18, <1>0 DEF Hw!TakeOutput, CodecLabels, CodecThreads
    <3>. QED BY <1>18, <1>0, <3>1 DEF Hw!TakeOutput, Held, CodecThreads
  <2>. QED BY <2>1, <2>2, <2>3 DEF BufferInv
<1>19. CASE Hw!OutputExits
  <2>1. Held' = Held
    BY <1>19, <1>0 DEF Hw!OutputExits, Held, CodecThreads
  <2>. QED BY <1>19, <1>b, <2>1 DEF Hw!OutputExits
<1>20. CASE Hw!JoinPoll
  <2>1. Held' = Held
    BY <1>20, <1>0 DEF Hw!JoinPoll, Held, CodecThreads
  <2>. QED BY <1>20, <1>b, <2>1 DEF Hw!JoinPoll
<1>21. CASE Hw!JoinOutput
  <2>1. Held' = Held
    BY <1>21, <1>0 DEF Hw!JoinOutput, Held, CodecThreads
  <2>. QED BY <1>21, <1>b, <2>1 DEF Hw!JoinOutput
<1>22. CASE Hw!Destroy
  <2>1. full' = <<>> /\ outputQueue' = <<>> /\ empty' = {}
    BY <1>22 DEF Hw!Destroy
  <2>. QED BY <1>a, <2>1 DEF BufferInv
<1>23. CASE UNCHANGED Hw!vars
  <2>1. Held' = Held
    BY <1>23, <1>0 DEF Hw!vars, Held, CodecThreads
  <2>. QED BY <1>23, <1>b, <2>1 DEF Hw!vars
<1>. QED BY <1>1, <1>2, <1>3, <1>4, <1>5, <1>6, <1>7, <1>8, <1>9, <1>10, <1>11, <1>12, <1>13,
            <1>14, <1>15, <1>16, <1>17, <1>18, <1>19, <1>20, <1>21, <1>22, <1>23
         DEF Hw!Next, Hw!Feed, Hw!Codec, Hw!Poll, Hw!Hand, Hw!Drain, Hw!Join

-----------------------------------------------------------------------------
(* The hardware encoders: the beginning, and the invariants together       *)

LEMMA InitPlaces == Hw!Init => PlacesInv /\ PendingInv
<1>. SUFFICES ASSUME Hw!Init PROVE PlacesInv /\ PendingInv
  OBVIOUS
<1>. DEFINE all == [i \in Hw!Slots |-> i]
<1>0. all \in Seq(Hw!Slots) /\ Len(all) = Granted
  BY BoundsOK
<1>1. /\ Places["free"] = all /\ Places["lent"] = <<>> /\ Places["queued"] = <<>>
      /\ Places["taken"] = <<>>
  BY DEF Hw!Init, Places, Lent
<1>2. Total(Places) = Granted
  BY <1>0, <1>1, EmptySeq, BoundsOK DEF Total
<1>3. \A s \in Hw!Slots : s \in 1..Len(all) /\ all[s] = s
  BY <1>0
<1>4. \A k \in Sides : k = "free" \/ Len(Places[k]) = 0
  BY <1>1, EmptySeq DEF Sides
<1>. HIDE DEF all
<1>5. Once(Places)
  <2>. SUFFICES ASSUME NEW k \in Sides, NEW l \in Sides, NEW i \in 1..Len(Places[k]),
                       NEW j \in 1..Len(Places[l]), Places[k][i] = Places[l][j]
                PROVE  k = l /\ i = j
    BY DEF Once
  <2>1. k = "free" /\ l = "free"
    BY <1>4
  <2>2. i \in Hw!Slots /\ j \in Hw!Slots
    BY <1>0, <1>1, <2>1
  <2>. QED BY <1>1, <1>3, <2>1, <2>2
<1>6. \A s \in Hw!Slots : Has(Places, s)
  BY <1>1, <1>3 DEF Has, Sides
<1>7. PendingInv
  <2>. SUFFICES ASSUME NEW k \in Sides, NEW i \in 1..Len(Places[k])
                PROVE  pending[Places[k][i]] = Hw!Nothing <=> k = "free"
    BY DEF PendingInv
  <2>1. k = "free" /\ i \in Hw!Slots
    BY <1>0, <1>1, <1>4
  <2>2. Places[k][i] = i
    BY <1>1, <1>3, <2>1
  <2>. QED BY <2>1, <2>2 DEF Hw!Init
<1>. QED BY <1>2, <1>5, <1>6, <1>7 DEF PlacesInv

LEMMA InitCodec == Hw!Init => CodecInv /\ DrainInv
<1>. SUFFICES ASSUME Hw!Init PROVE CodecInv /\ DrainInv
  OBVIOUS
<1>1. OwnerInv
  BY DEF Hw!Init, OwnerInv, Hw!LoopHead
<1>2. BalanceInv
  <2>1. pc["poll"] \notin {"drop", "collect"}
    BY DEF Hw!Init, Hw!LoopHead
  <2>. QED BY <2>1, EmptySeq DEF Hw!Init, BalanceInv
<1>3. DrainedInv
  BY DEF Hw!Init, DrainedInv, Hw!LoopHead
<1>4. OrderInv
  <2>1. InHand = <<>>
    BY DEF Hw!Init, InHand, Hw!LoopHead
  <2>2. \A log, n : Follow(<<>>, log, n)
    BY EmptySeq DEF Follow
  <2>3. Len(<<>>) = 0
    BY EmptySeq
  <2>. QED BY <2>1, <2>2, <2>3 DEF Hw!Init, OrderInv, Ordered
<1>5. BufferInv
  <2>1. Held = {}
    BY DEF Hw!Init, Held, Hw!LoopHead
  <2>2. BuffersOf(<<>>) = {} /\ Distinct(<<>>)
    BY EmptySeq DEF BuffersOf, Distinct
  <2>. QED BY <2>1, <2>2 DEF Hw!Init, BufferInv
<1>. QED BY <1>1, <1>2, <1>3, <1>4, <1>5, InitCodecTypes, InitPlaces DEF CodecInv, DrainInv

LEMMA StepCodec == CodecInv /\ [Hw!Next]_(Hw!vars) => CodecInv'
  BY StepCodecTypes, StepOwner, StepPlaces, StepBuffers DEF CodecInv

LEMMA StepDrain ==
  ASSUME Granted <= NumOutputBuffers
  PROVE  CodecInv /\ DrainInv /\ [Hw!Next]_(Hw!vars) => DrainInv'
  BY StepBalance, StepDrained, StepOrder DEF CodecInv, DrainInv

-----------------------------------------------------------------------------
(* The hardware encoders: what follows                                     *)

\* x is in s.
Seen(s, x) == \E i \in 1..Len(s) : s[i] = x

LEMMA ConcatSees ==
  ASSUME NEW S, NEW s \in Seq(S), NEW t \in Seq(S), NEW x
  PROVE  /\ s \o t \in Seq(S) /\ Len(s) \in Nat /\ Len(t) \in Nat
         /\ Len(s \o t) = Len(s) + Len(t)
         /\ Seen(s \o t, x) <=> Seen(s, x) \/ Seen(t, x)
<1>1. /\ s \o t \in Seq(S) /\ Len(s) \in Nat /\ Len(t) \in Nat
      /\ Len(s \o t) = Len(s) + Len(t)
      /\ \A i \in 1..Len(s) + Len(t) : (s \o t)[i] = IF i <= Len(s) THEN s[i] ELSE t[i - Len(s)]
  BY ConcatProperties, LenProperties
<1>2. ASSUME Seen(s \o t, x) PROVE Seen(s, x) \/ Seen(t, x)
  <2>1. PICK i \in 1..Len(s \o t) : (s \o t)[i] = x
    BY <1>2 DEF Seen
  <2>2. CASE i <= Len(s)
    <3>1. i \in 1..Len(s) /\ s[i] = x
      BY <1>1, <2>1, <2>2
    <3>. QED BY <3>1 DEF Seen
  <2>3. CASE ~(i <= Len(s))
    <3>1. i - Len(s) \in 1..Len(t) /\ t[i - Len(s)] = x
      BY <1>1, <2>1, <2>3
    <3>. QED BY <3>1 DEF Seen
  <2>. QED BY <2>2, <2>3
<1>3. ASSUME Seen(s, x) PROVE Seen(s \o t, x)
  <2>1. PICK i \in 1..Len(s) : s[i] = x
    BY <1>3 DEF Seen
  <2>2. i \in 1..Len(s \o t) /\ (s \o t)[i] = x
    BY <1>1, <2>1
  <2>. QED BY <2>2 DEF Seen
<1>4. ASSUME Seen(t, x) PROVE Seen(s \o t, x)
  <2>1. PICK i \in 1..Len(t) : t[i] = x
    BY <1>4 DEF Seen
  <2>2. /\ Len(s) + i \in 1..Len(s) + Len(t) /\ ~(Len(s) + i <= Len(s))
        /\ (Len(s) + i) - Len(s) = i
    BY <1>1, <2>1
  <2>3. (s \o t)[Len(s) + i] = x
    BY <1>1, <2>1, <2>2
  <2>. QED BY <1>1, <2>2, <2>3 DEF Seen
<1>. QED BY <1>1, <1>2, <1>3, <1>4

LEMMA CodecSlots == CodecInv => Hw!SlotsConserved
<1>. SUFFICES ASSUME CodecInv, owner # "gone" PROVE Hw!SlotsConserved
  BY DEF Hw!SlotsConserved
<1>. DEFINE places == free \o Lent \o queued \o readSlots
<1>1. /\ free \in Seq(Hw!Slots) /\ Lent \in Seq(Hw!Slots)
      /\ queued \in Seq(Hw!Slots) /\ readSlots \in Seq(Hw!Slots)
  BY PlacesType, Places4 DEF CodecInv, CodecTypes, Hw!TypeOK, Sides
<1>2. /\ Len(free) + Len(Lent) + Len(queued) + Len(readSlots) = Granted
      /\ Once(Places) /\ \A s \in Hw!Slots : Has(Places, s)
  BY Places4 DEF CodecInv, PlacesInv, Total
<1>3. kind = "h264" =>
        \A k \in Sides : \A i \in 1..Len(Places[k]) :
            pending[Places[k][i]] = Hw!Nothing <=> k = "free"
  BY DEF CodecInv, PendingInv
<1>. DEFINE outside == free \o Lent
            waiting == outside \o queued
<1>40. places = waiting \o readSlots
  OBVIOUS
<1>41. ASSUME NEW s
       PROVE  /\ outside \in Seq(Hw!Slots) /\ Len(outside) = Len(free) + Len(Lent)
              /\ Seen(outside, s) <=> Seen(free, s) \/ Seen(Lent, s)
  BY <1>1, ConcatSees
<1>. HIDE DEF outside
<1>42. ASSUME NEW s
       PROVE  /\ waiting \in Seq(Hw!Slots) /\ Len(waiting) = Len(outside) + Len(queued)
              /\ Seen(waiting, s) <=> Seen(outside, s) \/ Seen(queued, s)
  BY <1>1, <1>41, ConcatSees
<1>. HIDE DEF waiting, places
<1>43. ASSUME NEW s
       PROVE  /\ Len(places) = Len(waiting) + Len(readSlots)
              /\ Seen(places, s) <=> Seen(waiting, s) \/ Seen(readSlots, s)
  <2>1. waiting \in Seq(Hw!Slots)
    BY <1>42
  <2>2. /\ Len(waiting \o readSlots) = Len(waiting) + Len(readSlots)
        /\ Seen(waiting \o readSlots, s) <=> Seen(waiting, s) \/ Seen(readSlots, s)
    BY <1>1, <2>1, ConcatSees
  <2>. QED BY <1>40, <2>2
<1>4. Len(places) = Granted
  BY <1>2, <1>41, <1>42, <1>43
<1>5. ASSUME NEW s \in Hw!Slots PROVE \E i \in 1..Granted : places[i] = s
  <2>1. Seen(free, s) \/ Seen(Lent, s) \/ Seen(queued, s) \/ Seen(readSlots, s)
    BY <1>2, Places4 DEF Has, Seen, Sides
  <2>2. Seen(places, s)
    BY <1>41, <1>42, <1>43, <2>1
  <2>. QED BY <1>4, <2>2 DEF Seen
<1>6. ASSUME kind = "h264", NEW s \in Hw!Slots, Seen(queued \o readSlots, s)
      PROVE  pending[s] # Hw!Nothing
  <2>1. Seen(queued, s) \/ Seen(readSlots, s)
    BY <1>1, <1>6, ConcatSees
  <2>2. \E k \in {"queued", "taken"} : \E i \in 1..Len(Places[k]) : Places[k][i] = s
    BY <2>1, Places4 DEF Seen
  <2>3. PICK k \in {"queued", "taken"} : \E i \in 1..Len(Places[k]) : Places[k][i] = s
    BY <2>2
  <2>4. k \in Sides /\ k # "free"
    BY DEF Sides
  <2>. QED BY <1>3, <1>6, <2>3, <2>4
<1>7. ASSUME kind = "h264", NEW i \in 1..Len(free) PROVE pending[free[i]] = Hw!Nothing
  <2>1. "free" \in Sides /\ Places["free"] = free
    BY Places4 DEF Sides
  <2>. QED BY <1>3, <1>7, <2>1
<1>8. ASSUME kind = "h264"
      PROVE  /\ \A s \in {s \in Hw!Slots :
                        \E i \in 1..Len(queued \o readSlots) : (queued \o readSlots)[i] = s} :
                    pending[s] # Hw!Nothing
             /\ \A i \in 1..Len(free) : pending[free[i]] = Hw!Nothing
  BY <1>6, <1>7, <1>8 DEF Seen
<1>. QED BY <1>4, <1>5, <1>8 DEF Hw!SlotsConserved, Lent, places

LEMMA CodecCapture == CodecInv => Hw!CaptureApart
  BY DEF CodecInv, BufferInv, Hw!CaptureApart, BuffersOf, Held

\* Every slot index, queue entry and thread label of H264HardwareEncoder and JpegHwEncoder
\* keeps its type: a slot number from VIDIOC_DQBUF is one that was mapped, and no thread
\* delivers or requeues what it does not have.
THEOREM CodecTypeCorrect == Hw!Spec => []Hw!TypeOK
<1>1. CodecInv => Hw!TypeOK
  BY DEF CodecInv, CodecTypes
<1>. QED BY InitCodec, StepCodec, <1>1, PTL DEF Hw!Spec

-----------------------------------------------------------------------------
(* The hardware encoders: they implement Encoder                           *)

\* The state of the contract.
CodecKept  == IF owner = "gone" THEN <<>> ELSE Hw!Inside
CodecPhase == IF owner = "open" THEN "open" ELSE IF owner = "gone" THEN "closed" ELSE "closing"
CodecLossy == kind = "jpeg_hw" \/ broken

LEMMA StepCodecContract ==
  CodecInv /\ DrainInv /\ [Hw!Next]_(Hw!vars) => [Hw!Contract!Next]_(Hw!Contract!vars)
<1>. SUFFICES ASSUME CodecInv, DrainInv, [Hw!Next]_(Hw!vars)
              PROVE  [Hw!Contract!Next]_(Hw!Contract!vars)
  OBVIOUS
<1>. DEFINE Goal == [Hw!Contract!Next]_(Hw!Contract!vars)
<1>0. CodecThreads /\ CodecLabels /\ OwnerInv
  BY CodecParts DEF CodecInv, CodecTypes
<1>d. accepted \in Seq(Hw!Calls) /\ delivered \in Seq(Hw!Calls)
  BY DEF CodecInv, CodecTypes, Hw!TypeOK
<1>a. UNCHANGED <<CodecKept, delivered, CodecPhase, CodecLossy>> => Goal
  BY DEF Hw!Contract!vars, CodecKept, CodecPhase, CodecLossy
<1>b. UNCHANGED <<accepted, delivered, owner, kind, broken>> => Goal
  BY <1>a DEF CodecKept, Hw!Inside, CodecPhase, CodecLossy
<1>c. owner # "gone" =>
           /\ Len(accepted) \in Nat /\ Len(delivered) \in Nat /\ Len(delivered) <= Len(accepted)
           /\ InHand # <<>> => Len(delivered) + 1 <= Len(accepted)
  <2>. SUFFICES ASSUME owner # "gone"
                PROVE  /\ Len(accepted) \in Nat /\ Len(delivered) \in Nat
                       /\ Len(delivered) <= Len(accepted)
                       /\ InHand # <<>> => Len(delivered) + 1 <= Len(accepted)
    OBVIOUS
  <2>1. /\ InHand \in Seq(Results) /\ outputQueue \in Seq(Results) /\ full \in Seq(Results)
        /\ coding \in Seq(Hw!Calls)
    BY <1>0, HandType DEF CodecInv, CodecTypes, Hw!TypeOK, CodecLabels
  <2>2. /\ Len(accepted) \in Nat /\ Len(delivered) \in Nat /\ Len(InHand) \in Nat
        /\ Len(outputQueue) \in Nat /\ Len(full) \in Nat /\ Len(coding) \in Nat
        /\ InHand # <<>> => Len(InHand) # 0
    BY <1>d, <2>1, NoneIs
  <2>3. Len(accepted) = Len(delivered) + Len(InHand) + Len(outputQueue) + Len(full) + Len(coding)
    BY DEF DrainInv, OrderInv, Ordered
  <2>. QED BY <2>2, <2>3
<1>. HIDE DEF Goal
<1>1. CASE Hw!Refuse
  BY <1>1, <1>b DEF Hw!Refuse, Goal
<1>2. CASE Hw!TakeSlot
  BY <1>2, <1>b DEF Hw!TakeSlot, Goal
<1>3. CASE Hw!QueueOutput
  <2>1. /\ owner = "open" /\ calls \in Hw!Calls /\ accepted' = Append(accepted, calls)
        /\ UNCHANGED <<delivered, owner, kind, broken>>
    BY <1>3, <1>0 DEF Hw!QueueOutput, CodecLabels
  <2>2. Len(CodecKept') = Len(CodecKept) + 1 /\ SubSeq(CodecKept', 1, Len(CodecKept)) = CodecKept
    <3>1. /\ accepted' \in Seq(Hw!Calls) /\ Len(accepted') = Len(accepted) + 1
          /\ \A i \in 1..Len(accepted) : accepted'[i] = accepted[i]
      BY <1>d, <2>1, AppendIs
    <3>2. /\ CodecKept = SubSeq(accepted, Len(delivered) + 1, Len(accepted))
          /\ CodecKept' = SubSeq(accepted', Len(delivered) + 1, Len(accepted'))
      BY <2>1 DEF CodecKept, Hw!Inside
    <3>3. Len(delivered) \in Nat /\ Len(delivered) <= Len(accepted)
      BY <1>c, <2>1
    <3>. QED BY SMTT(25), <1>d, <3>1, <3>2, <3>3, InsideAccept
  <2>3. Hw!Contract!Accept
    BY <2>1, <2>2 DEF Hw!Contract!Accept, CodecKept
  <2>. QED BY <2>3 DEF Hw!Contract!Next, Goal
<1>4. CASE Hw!QueueFails
  BY <1>4, <1>b DEF Hw!QueueFails, Goal
<1>5. CASE Hw!AbortPoll
  <2>1. Hw!Contract!Close
    BY <1>5 DEF Hw!AbortPoll, Hw!Contract!Close, Hw!Inside
  <2>. QED BY <2>1 DEF Hw!Contract!Next, Goal
<1>6. CASE Hw!ReadSlot
  BY <1>6, <1>b DEF Hw!ReadSlot, Goal
<1>7. ASSUME NEW b \in CaptureBuffers, Hw!WriteResult(b) PROVE Goal
  BY <1>7, <1>b DEF Hw!WriteResult, Goal
<1>8. CASE Hw!TestAbort
  BY <1>8, <1>b DEF Hw!TestAbort, Goal
<1>9. CASE Hw!PollTimesOut
  BY <1>9, <1>b DEF Hw!PollTimesOut, Goal
<1>10. CASE Hw!PollDrained
  BY <1>10, <1>b DEF Hw!PollDrained, Goal
<1>11. CASE Hw!PollReady
  BY <1>11, <1>b DEF Hw!PollReady, Goal
<1>12. CASE Hw!PollFails
  <2>1. Hw!Contract!Break
    BY <1>12 DEF Hw!PollFails, Hw!Contract!Break, Hw!Inside
  <2>. QED BY <2>1 DEF Hw!Contract!Next, Goal
<1>13. CASE Hw!DequeueOutput
  BY <1>13, <1>b DEF Hw!DequeueOutput, Goal
<1>14. CASE Hw!DropFrame
  BY <1>14, <1>b DEF Hw!DropFrame, Goal
<1>15. CASE Hw!DequeueCapture
  BY <1>15, <1>b DEF Hw!DequeueCapture, Goal
<1>16. ASSUME NEW t \in {"poll", "output"}, Hw!Deliver(t) PROVE Goal
  <2>1. /\ Hw!At(t, "deliver") /\ owner # "gone" /\ delivered' = Append(delivered, item[t].frame)
        /\ UNCHANGED <<accepted, owner, kind, broken>>
    BY <1>16, <1>0 DEF Hw!Deliver, OwnerInv
  <2>2. InHand = <<item[t]>>
    BY <1>0, <2>1 DEF InHand, CodecLabels, CodecThreads
  <2>3. item[t].frame = accepted[Len(delivered) + 1] /\ item[t].frame \in Hw!Calls
    <3>1. item[t].frame \in Hw!Calls
      BY <1>0, <2>1 DEF CodecLabels, Results
    <3>2. Follow(<<item[t]>>, accepted, Len(delivered))
      BY <2>1, <2>2 DEF DrainInv, OrderInv, Ordered
    <3>3. 1 \in 1..Len(<<item[t]>>) /\ <<item[t]>>[1] = item[t]
      OBVIOUS
    <3>. QED BY <3>1, <3>2, <3>3 DEF Follow
  <2>4. /\ CodecKept # <<>> /\ Head(CodecKept) = accepted[Len(delivered) + 1]
        /\ Tail(CodecKept) = SubSeq(accepted, (Len(delivered) + 1) + 1, Len(accepted))
    BY <1>c, <1>d, <2>1, <2>2, InsideDeliver DEF CodecKept, Hw!Inside
  <2>5. CodecKept' = Tail(CodecKept)
    <3>1. Len(delivered') = Len(delivered) + 1
      BY <1>d, <2>1, <2>3, AppendIs
    <3>. QED BY <2>1, <2>4, <3>1 DEF CodecKept, Hw!Inside
  <2>6. Hw!Contract!Deliver
    BY <2>1, <2>3, <2>4, <2>5 DEF Hw!Contract!Deliver, CodecKept
  <2>. QED BY <2>6 DEF Hw!Contract!Next, Goal
<1>17. ASSUME NEW t \in {"poll", "output"}, Hw!Requeue(t) PROVE Goal
  BY <1>17, <1>b DEF Hw!Requeue, Goal
<1>18. CASE Hw!TakeOutput
  BY <1>18, <1>b DEF Hw!TakeOutput, Goal
<1>19. CASE Hw!OutputExits
  BY <1>19, <1>b DEF Hw!OutputExits, Goal
<1>20. CASE Hw!JoinPoll
  <2>1. UNCHANGED <<CodecKept, delivered, CodecPhase, CodecLossy>>
    BY <1>20 DEF Hw!JoinPoll, CodecKept, Hw!Inside, CodecPhase, CodecLossy
  <2>. QED BY <1>a, <2>1 DEF Goal
<1>21. CASE Hw!JoinOutput
  <2>1. UNCHANGED <<CodecKept, delivered, CodecPhase, CodecLossy>>
    BY <1>21 DEF Hw!JoinOutput, CodecKept, Hw!Inside, CodecPhase, CodecLossy
  <2>. QED BY <1>a, <2>1 DEF Goal
<1>22. CASE Hw!Destroy
  <2>1. owner = "stream_off" /\ owner' = "gone" /\ UNCHANGED <<delivered, kind, broken>>
    BY <1>22 DEF Hw!Destroy
  <2>2. ASSUME ~CodecLossy PROVE Hw!Inside = <<>>
    <3>1. kind = "h264" /\ ~broken
      BY <1>0, <2>2 DEF CodecLossy, CodecThreads
    <3>2. pc["poll"] = "exited" /\ pc["output"] = "exited" /\ outputQueue = <<>>
      BY <1>0, <2>1 DEF OwnerInv
    <3>3. coding = <<>> /\ full = <<>>
      BY <3>1, <3>2 DEF DrainInv, DrainedInv
    <3>4. InHand = <<>>
      BY <3>2 DEF InHand
    <3>5. Len(accepted) = Len(delivered) + 0 + 0 + 0 + 0
      BY <2>1, <3>2, <3>3, <3>4, EmptySeq DEF DrainInv, OrderInv, Ordered
    <3>6. Len(accepted) < Len(delivered) + 1 /\ Len(delivered) + 1 \in Int /\ Len(accepted) \in Int
      BY <1>c, <2>1, <3>5
    <3>. QED BY <3>6, SubSeqEmpty DEF Hw!Inside
  <2>3. Hw!Contract!Finish
    BY <2>1, <2>2 DEF Hw!Contract!Finish, CodecLossy
  <2>. QED BY <2>3 DEF Hw!Contract!Next, Goal
<1>23. CASE UNCHANGED Hw!vars
  BY <1>23, <1>b DEF Hw!vars, Goal
<1>. QED BY <1>1, <1>2, <1>3, <1>4, <1>5, <1>6, <1>7, <1>8, <1>9, <1>10, <1>11, <1>12, <1>13,
            <1>14, <1>15, <1>16, <1>17, <1>18, <1>19, <1>20, <1>21, <1>22, <1>23
         DEF Hw!Next, Hw!Feed, Hw!Codec, Hw!Poll, Hw!Hand, Hw!Drain, Hw!Join, Goal

\* H264HardwareEncoder and JpegHwEncoder hand on what encode() accepted once and in order, and
\* the destructor returns with nothing inside, that of H264HardwareEncoder after it has handed
\* on everything unless poll() failed. The hypothesis is that the driver grants no more OUTPUT
\* slots than VIDIOC_REQBUFS asked for: the free list has as many as were granted
\* (h264_hw_encoder.cpp:104-111), the drain counts to NUM_OUTPUT_BUFFERS (:266-272), and with
\* more slots than that it would leave before the last frame.
THEOREM CodecImplements ==
  ASSUME Granted <= NumOutputBuffers
  PROVE  Hw!Spec => Hw!ImplementsEncoder
<1>1. Hw!Init => Hw!Contract!Init
  <2>. SUFFICES ASSUME Hw!Init PROVE Hw!Contract!Init
    OBVIOUS
  <2>1. Hw!Inside = <<>> /\ delivered = <<>> /\ owner = "open"
    <3>1. Len(accepted) = 0 /\ Len(delivered) = 0
      BY EmptySeq DEF Hw!Init
    <3>. QED BY <3>1, SubSeqEmpty DEF Hw!Init, Hw!Inside
  <2>2. CodecLossy \in BOOLEAN
    BY DEF Hw!Init, CodecLossy
  <2>. QED BY <2>1, <2>2 DEF Hw!Contract!Init, CodecLossy
<1>2. CodecInv /\ DrainInv /\ [Hw!Next]_(Hw!vars) => CodecInv' /\ DrainInv'
  BY StepCodec, StepDrain
<1>. QED BY InitCodec, StepCodecContract, <1>1, <1>2, PTL
         DEF Hw!Spec, Hw!ImplementsEncoder, Hw!Contract!Spec

-----------------------------------------------------------------------------
(* The JPEG workers (jpeg_mt_encoder.cpp): the invariants, and types       *)

\* Where a thread may be, and that it has an item there.
JpegLabels ==
    /\ \A w \in Workers : mtPc[w] \in {"take", "copy", "encode", "exited"}
    /\ mtPc[Output] \in {"take", "deliver", "exited"}
    /\ \A t \in Mt!Threads : mtPc[t] \in {"copy", "encode", "deliver"} => mtItem[t] \in Mt!Items

\* An index is a place in the order of acceptance.
JpegCounts ==
    /\ nextIndex = Len(mtAccepted) /\ nextIndex <= mtCalls
    /\ expected = Len(mtDelivered) /\ expected <= nextIndex

\* Every frame and every result is the one accepted at its index.
Fits(log, e) == e.index < Len(log) /\ e.frame = log[e.index + 1]
AllFit(log, s) == \A i \in 1..Len(s) : Fits(log, s[i])
Working(w) == mtPc[w] \in {"copy", "encode"}
JpegMatches ==
    /\ AllFit(mtAccepted, encQueue)
    /\ \A w \in Workers : Working(w) => Fits(mtAccepted, mtItem[w])
    /\ \A w \in Workers : AllFit(mtAccepted, outQueues[w])
    /\ Mt!At(Output, "deliver") =>
          Fits(mtAccepted, mtItem[Output]) /\ mtItem[Output].index = expected

\* What is accepted and not delivered is somewhere.
In(s, k) == \E i \in 1..Len(s) : s[i].index = k
Somewhere(k) ==
    \/ In(encQueue, k)
    \/ \E w \in Workers : Working(w) /\ mtItem[w].index = k
    \/ \E w \in Workers : In(outQueues[w], k)
    \/ Mt!At(Output, "deliver") /\ mtItem[Output].index = k
JpegCovers == \A k \in expected..nextIndex - 1 : Somewhere(k)

\* Who has ended, and what he left behind.
JpegExits ==
    /\ \A w \in Workers : Mt!At(w, "exited") => abortEnc /\ encQueue = <<>>
    /\ abortEnc => mtOwner # "open"
    /\ mtOwner \in {"join_output", "gone"} => \A w \in Workers : Mt!At(w, "exited")
    /\ abortOut => mtOwner \in {"join_output", "gone"}
    /\ Mt!At(Output, "exited") => abortOut /\ \A w \in Workers : outQueues[w] = <<>>
    /\ mtOwner = "gone" => Mt!At(Output, "exited")

\* All of it.
JpegInv == Mt!TypeOK /\ JpegLabels /\ JpegCounts /\ JpegMatches /\ JpegCovers /\ JpegExits

USE DEF Mt!Threads, Mt!Goto, Mt!At, Mt!logVars, Mt!encVars, Mt!outVars

LEMMA InitJpegTypes == Mt!Init => Mt!TypeOK /\ JpegLabels
<1>. SUFFICES ASSUME Mt!Init PROVE Mt!TypeOK /\ JpegLabels
  OBVIOUS
<1>1. \A S : <<>> \in Seq(S) /\ Len(<<>>) = 0
  BY EmptySeq
<1>2. JpegLabels
  BY DEF Mt!Init, JpegLabels
<1>3. abortEnc \in BOOLEAN /\ abortOut \in BOOLEAN
  BY DEF Mt!Init
<1>4. /\ mtAccepted \in Seq(1..MaxCalls) /\ mtDelivered \in Seq(1..MaxCalls)
      /\ encQueue \in Seq(Mt!Items) /\ Len(encQueue) <= MaxQueue
      /\ outQueues \in [Workers -> Seq(Mt!Items)]
  BY <1>1, BoundsOK DEF Mt!Init
<1>5. /\ mtCalls \in 0..MaxCalls /\ nextIndex \in 0..MaxCalls /\ expected \in 0..MaxCalls
  BY BoundsOK DEF Mt!Init
<1>. QED BY <1>2, <1>3, <1>4, <1>5 DEF Mt!Init, Mt!TypeOK

JpegFlags == abortEnc \in BOOLEAN /\ abortOut \in BOOLEAN
JpegLogs ==
    /\ mtCalls \in 0..MaxCalls
    /\ mtAccepted \in Seq(1..MaxCalls) /\ mtDelivered \in Seq(1..MaxCalls)
    /\ nextIndex \in 0..MaxCalls /\ expected \in 0..MaxCalls
JpegThreads ==
    /\ mtOwner \in {"open", "join_workers", "join_output", "gone"}
    /\ mtPc \in [Mt!Threads -> {"take", "copy", "encode", "deliver", "exited"}]
    /\ mtItem \in [Mt!Threads -> Mt!Items \cup {Mt!NoItem}]
JpegQueues ==
    /\ encQueue \in Seq(Mt!Items) /\ Len(encQueue) <= MaxQueue
    /\ outQueues \in [Workers -> Seq(Mt!Items)]

LEMMA JpegParts == Mt!TypeOK <=> JpegFlags /\ JpegLogs /\ JpegThreads /\ JpegQueues
  BY DEF Mt!TypeOK, JpegFlags, JpegLogs, JpegThreads, JpegQueues

LEMMA StepJpegFlags == JpegFlags /\ [Mt!Next]_(Mt!vars) => JpegFlags'
<1>. SUFFICES ASSUME JpegFlags, [Mt!Next]_(Mt!vars) PROVE JpegFlags'
  OBVIOUS
<1>. USE DEF JpegFlags
<1>1. CASE Mt!Encode
  BY <1>1 DEF Mt!Encode
<1>2. CASE Mt!AbortEncode
  BY <1>2 DEF Mt!AbortEncode
<1>3. ASSUME NEW w \in Workers, Mt!TakeFrame(w) PROVE JpegFlags'
  BY <1>3 DEF Mt!TakeFrame
<1>4. ASSUME NEW w \in Workers, Mt!WorkerExits(w) PROVE JpegFlags'
  BY <1>4 DEF Mt!WorkerExits
<1>5. ASSUME NEW w \in Workers, Mt!Copy(w) PROVE JpegFlags'
  BY <1>5 DEF Mt!Copy
<1>6. ASSUME NEW w \in Workers, Mt!PushResult(w) PROVE JpegFlags'
  BY <1>6 DEF Mt!PushResult
<1>7. ASSUME NEW w \in Workers, Mt!FindExpected(w) PROVE JpegFlags'
  BY <1>7 DEF Mt!FindExpected
<1>8. CASE Mt!OutputExits
  BY <1>8 DEF Mt!OutputExits
<1>9. CASE Mt!Deliver
  BY <1>9 DEF Mt!Deliver
<1>10. CASE Mt!JoinWorkers
  BY <1>10 DEF Mt!JoinWorkers
<1>11. CASE Mt!JoinOutput
  BY <1>11 DEF Mt!JoinOutput
<1>12. CASE UNCHANGED Mt!vars
  BY <1>12 DEF Mt!vars
<1>. QED BY <1>1, <1>2, <1>3, <1>4, <1>5, <1>6, <1>7, <1>8, <1>9, <1>10, <1>11, <1>12
         DEF Mt!Next, Mt!Work, Mt!Reorder, Mt!Join

LEMMA StepJpegThreads ==
  Mt!TypeOK /\ JpegLabels /\ [Mt!Next]_(Mt!vars) => JpegThreads' /\ JpegLabels'
<1>. SUFFICES ASSUME Mt!TypeOK, JpegLabels, [Mt!Next]_(Mt!vars) PROVE JpegThreads' /\ JpegLabels'
  OBVIOUS
<1>0. JpegThreads /\ Output \notin Workers /\ JpegQueues
  BY WorkersOK, JpegParts
<1>. USE DEF JpegThreads, JpegLabels
<1>1. CASE Mt!Encode
  BY <1>1, <1>0 DEF Mt!Encode
<1>2. CASE Mt!AbortEncode
  BY <1>2, <1>0 DEF Mt!AbortEncode
<1>3. ASSUME NEW w \in Workers, Mt!TakeFrame(w) PROVE JpegThreads' /\ JpegLabels'
  <2>1. Head(encQueue) \in Mt!Items
    BY <1>3, <1>0, TailIs DEF Mt!TakeFrame, JpegQueues
  <2>. QED BY <1>3, <1>0, <2>1 DEF Mt!TakeFrame
<1>4. ASSUME NEW w \in Workers, Mt!WorkerExits(w) PROVE JpegThreads' /\ JpegLabels'
  BY <1>4, <1>0 DEF Mt!WorkerExits
<1>5. ASSUME NEW w \in Workers, Mt!Copy(w) PROVE JpegThreads' /\ JpegLabels'
  BY <1>5, <1>0 DEF Mt!Copy
<1>6. ASSUME NEW w \in Workers, Mt!PushResult(w) PROVE JpegThreads' /\ JpegLabels'
  BY <1>6, <1>0 DEF Mt!PushResult
<1>7. ASSUME NEW w \in Workers, Mt!FindExpected(w) PROVE JpegThreads' /\ JpegLabels'
  <2>1. Head(outQueues[w]) \in Mt!Items
    <3>1. outQueues[w] \in Seq(Mt!Items) /\ outQueues[w] # <<>>
      BY <1>7, <1>0 DEF Mt!FindExpected, JpegQueues
    <3>. QED BY <3>1, TailIs
  <2>. QED BY <1>7, <1>0, <2>1 DEF Mt!FindExpected
<1>8. CASE Mt!OutputExits
  BY <1>8, <1>0 DEF Mt!OutputExits
<1>9. CASE Mt!Deliver
  BY <1>9, <1>0 DEF Mt!Deliver
<1>10. CASE Mt!JoinWorkers
  BY <1>10, <1>0 DEF Mt!JoinWorkers
<1>11. CASE Mt!JoinOutput
  BY <1>11, <1>0 DEF Mt!JoinOutput
<1>12. CASE UNCHANGED Mt!vars
  BY <1>12, <1>0 DEF Mt!vars
<1>. QED BY <1>1, <1>2, <1>3, <1>4, <1>5, <1>6, <1>7, <1>8, <1>9, <1>10, <1>11, <1>12
         DEF Mt!Next, Mt!Work, Mt!Reorder, Mt!Join

LEMMA StepJpegLogs ==
  Mt!TypeOK /\ JpegLabels /\ JpegCounts /\ JpegMatches /\ [Mt!Next]_(Mt!vars)
  => JpegLogs' /\ JpegCounts'
<1>. SUFFICES ASSUME Mt!TypeOK, JpegLabels, JpegCounts, JpegMatches, [Mt!Next]_(Mt!vars)
              PROVE  JpegLogs' /\ JpegCounts'
  OBVIOUS
<1>0. JpegLogs
  BY JpegParts
<1>. USE DEF JpegLogs, JpegCounts
<1>1. CASE Mt!Encode
  <2>1. mtCalls' = mtCalls + 1 /\ mtCalls' \in 1..MaxCalls /\ UNCHANGED <<mtDelivered, expected>>
    BY <1>1, <1>0, BoundsOK DEF Mt!Encode
  <2>2. CASE UNCHANGED <<mtAccepted, nextIndex>>
    BY <1>0, <2>1, <2>2
  <2>3. CASE nextIndex' = nextIndex + 1 /\ mtAccepted' = Append(mtAccepted, mtCalls')
    <3>1. mtAccepted' \in Seq(1..MaxCalls) /\ Len(mtAccepted') = Len(mtAccepted) + 1
      BY <1>0, <2>1, <2>3, AppendIs
    <3>2. nextIndex' \in 0..MaxCalls /\ nextIndex' <= mtCalls' /\ expected <= nextIndex'
      BY <1>0, <2>1, <2>3, BoundsOK
    <3>. QED BY <1>0, <2>1, <2>3, <3>1, <3>2
  <2>. QED BY <1>1, <2>2, <2>3 DEF Mt!Encode
<1>2. CASE Mt!AbortEncode
  BY <1>2, <1>0 DEF Mt!AbortEncode
<1>3. ASSUME NEW w \in Workers, Mt!TakeFrame(w) PROVE JpegLogs' /\ JpegCounts'
  BY <1>3, <1>0 DEF Mt!TakeFrame
<1>4. ASSUME NEW w \in Workers, Mt!WorkerExits(w) PROVE JpegLogs' /\ JpegCounts'
  BY <1>4, <1>0 DEF Mt!WorkerExits
<1>5. ASSUME NEW w \in Workers, Mt!Copy(w) PROVE JpegLogs' /\ JpegCounts'
  BY <1>5, <1>0 DEF Mt!Copy
<1>6. ASSUME NEW w \in Workers, Mt!PushResult(w) PROVE JpegLogs' /\ JpegCounts'
  BY <1>6, <1>0 DEF Mt!PushResult
<1>7. ASSUME NEW w \in Workers, Mt!FindExpected(w) PROVE JpegLogs' /\ JpegCounts'
  BY <1>7, <1>0 DEF Mt!FindExpected
<1>8. CASE Mt!OutputExits
  BY <1>8, <1>0 DEF Mt!OutputExits
<1>9. CASE Mt!Deliver
  <2>1. mtItem[Output] \in Mt!Items
    BY <1>9 DEF Mt!Deliver, JpegLabels
  <2>2. mtItem[Output].frame \in 1..MaxCalls
    BY <2>1 DEF Mt!Items
  <2>3. mtDelivered' \in Seq(1..MaxCalls) /\ Len(mtDelivered') = Len(mtDelivered) + 1
    BY <1>9, <1>0, <2>2, AppendIs DEF Mt!Deliver
  <2>4. expected < nextIndex /\ expected' = expected + 1
    BY <1>9 DEF Mt!Deliver, JpegMatches, Fits
  <2>5. expected' \in 0..MaxCalls /\ expected' <= nextIndex
    BY <1>0, <2>4, BoundsOK
  <2>. QED BY <1>9, <1>0, <2>3, <2>4, <2>5 DEF Mt!Deliver
<1>10. CASE Mt!JoinWorkers
  BY <1>10, <1>0 DEF Mt!JoinWorkers
<1>11. CASE Mt!JoinOutput
  BY <1>11, <1>0 DEF Mt!JoinOutput
<1>12. CASE UNCHANGED Mt!vars
  BY <1>12, <1>0 DEF Mt!vars
<1>. QED BY <1>1, <1>2, <1>3, <1>4, <1>5, <1>6, <1>7, <1>8, <1>9, <1>10, <1>11, <1>12
         DEF Mt!Next, Mt!Work, Mt!Reorder, Mt!Join

LEMMA StepJpegQueues == Mt!TypeOK /\ JpegLabels /\ JpegCounts /\ [Mt!Next]_(Mt!vars) => JpegQueues'
<1>. SUFFICES ASSUME Mt!TypeOK, JpegLabels, JpegCounts, [Mt!Next]_(Mt!vars) PROVE JpegQueues'
  OBVIOUS
<1>0. JpegLogs /\ JpegQueues
  BY JpegParts
<1>. USE DEF JpegQueues
<1>1. CASE Mt!Encode
  <2>1. UNCHANGED outQueues /\ mtCalls' \in 1..MaxCalls
    BY <1>1, <1>0, BoundsOK DEF Mt!Encode, JpegLogs
  <2>2. CASE UNCHANGED encQueue
    BY <1>0, <2>1, <2>2
  <2>3. CASE /\ ~(Len(encQueue) >= MaxQueue)
             /\ encQueue' = Append(encQueue, [frame |-> mtCalls', index |-> nextIndex])
    <3>1. [frame |-> mtCalls', index |-> nextIndex] \in Mt!Items
      BY <1>0, <2>1 DEF JpegLogs, Mt!Items
    <3>2. encQueue' \in Seq(Mt!Items) /\ Len(encQueue') = Len(encQueue) + 1 /\ Len(encQueue) \in Nat
      BY <1>0, <2>3, <3>1, AppendIs
    <3>3. Len(encQueue') <= MaxQueue
      BY <2>3, <3>2, BoundsOK
    <3>. QED BY <1>0, <2>1, <3>2, <3>3
  <2>. QED BY <1>1, <2>2, <2>3 DEF Mt!Encode
<1>2. CASE Mt!AbortEncode
  BY <1>2, <1>0 DEF Mt!AbortEncode
<1>3. ASSUME NEW w \in Workers, Mt!TakeFrame(w) PROVE JpegQueues'
  <2>1. encQueue' \in Seq(Mt!Items) /\ Len(encQueue') = Len(encQueue) - 1 /\ Len(encQueue) \in Nat
    BY <1>3, <1>0, TailIs DEF Mt!TakeFrame
  <2>2. Len(encQueue') <= MaxQueue
    BY <1>0, <2>1, BoundsOK
  <2>. QED BY <1>3, <1>0, <2>1, <2>2 DEF Mt!TakeFrame
<1>4. ASSUME NEW w \in Workers, Mt!WorkerExits(w) PROVE JpegQueues'
  BY <1>4, <1>0 DEF Mt!WorkerExits
<1>5. ASSUME NEW w \in Workers, Mt!Copy(w) PROVE JpegQueues'
  BY <1>5, <1>0 DEF Mt!Copy
<1>6. ASSUME NEW w \in Workers, Mt!PushResult(w) PROVE JpegQueues'
  <2>1. mtItem[w] \in Mt!Items /\ outQueues[w] \in Seq(Mt!Items)
    BY <1>6, <1>0 DEF Mt!PushResult, JpegLabels
  <2>2. Append(outQueues[w], mtItem[w]) \in Seq(Mt!Items)
    BY <2>1, AppendIs
  <2>. QED BY <1>6, <1>0, <2>2 DEF Mt!PushResult
<1>7. ASSUME NEW w \in Workers, Mt!FindExpected(w) PROVE JpegQueues'
  <2>1. outQueues[w] \in Seq(Mt!Items) /\ outQueues[w] # <<>>
    BY <1>7, <1>0 DEF Mt!FindExpected
  <2>2. Tail(outQueues[w]) \in Seq(Mt!Items)
    BY <2>1, TailIs
  <2>. QED BY <1>7, <1>0, <2>2 DEF Mt!FindExpected
<1>8. CASE Mt!OutputExits
  BY <1>8, <1>0 DEF Mt!OutputExits
<1>9. CASE Mt!Deliver
  BY <1>9, <1>0 DEF Mt!Deliver
<1>10. CASE Mt!JoinWorkers
  BY <1>10, <1>0 DEF Mt!JoinWorkers
<1>11. CASE Mt!JoinOutput
  BY <1>11, <1>0 DEF Mt!JoinOutput
<1>12. CASE UNCHANGED Mt!vars
  BY <1>12, <1>0 DEF Mt!vars
<1>. QED BY <1>1, <1>2, <1>3, <1>4, <1>5, <1>6, <1>7, <1>8, <1>9, <1>10, <1>11, <1>12
         DEF Mt!Next, Mt!Work, Mt!Reorder, Mt!Join

-----------------------------------------------------------------------------
(* The JPEG workers: the order                                             *)

LEMMA FitLonger ==
  ASSUME NEW S, NEW log \in Seq(S), NEW x \in S, NEW e, e.index \in Nat, Fits(log, e)
  PROVE  Fits(Append(log, x), e)
<1>1. /\ Len(log) \in Nat /\ Len(Append(log, x)) = Len(log) + 1
      /\ \A i \in 1..Len(log) : Append(log, x)[i] = log[i]
  BY AppendIs
<1>2. e.index + 1 \in 1..Len(log) /\ e.index < Len(log) + 1 /\ e.frame = log[e.index + 1]
  BY <1>1 DEF Fits
<1>. QED BY <1>1, <1>2 DEF Fits

LEMMA AllFitAppend ==
  ASSUME NEW R, NEW s \in Seq(R), NEW e \in R, NEW log, AllFit(log, s), Fits(log, e)
  PROVE  AllFit(log, Append(s, e))
<1>1. /\ Len(s) \in Nat /\ Len(Append(s, e)) = Len(s) + 1
      /\ \A i \in 1..Len(s) : Append(s, e)[i] = s[i]
      /\ Append(s, e)[Len(s) + 1] = e
  BY AppendIs
<1>2. \A i \in 1..Len(s) + 1 : i = Len(s) + 1 \/ i \in 1..Len(s)
  BY <1>1
<1>. HIDE DEF Fits
<1>. QED BY <1>1, <1>2 DEF AllFit

LEMMA AllFitTail ==
  ASSUME NEW R, NEW s \in Seq(R), s # <<>>, NEW log, AllFit(log, s)
  PROVE  AllFit(log, Tail(s)) /\ Fits(log, Head(s))
<1>1. /\ Len(s) \in Nat \ {0} /\ Len(Tail(s)) = Len(s) - 1 /\ Head(s) = s[1]
      /\ \A i \in 1..Len(s) - 1 : Tail(s)[i] = s[i + 1]
  BY TailIs
<1>2. 1 \in 1..Len(s) /\ \A i \in 1..Len(s) - 1 : i + 1 \in 1..Len(s)
  BY <1>1
<1>. QED BY <1>1, <1>2 DEF AllFit

LEMMA InAppend ==
  ASSUME NEW R, NEW s \in Seq(R), NEW e \in R, NEW k, In(s, k) \/ e.index = k
  PROVE  In(Append(s, e), k)
<1>1. /\ Len(s) \in Nat /\ Len(Append(s, e)) = Len(s) + 1
      /\ \A i \in 1..Len(s) : Append(s, e)[i] = s[i]
      /\ Append(s, e)[Len(s) + 1] = e
  BY AppendIs
<1>2. Len(s) + 1 \in 1..Len(s) + 1 /\ \A i \in 1..Len(s) : i \in 1..Len(s) + 1
  BY <1>1
<1>. QED BY <1>1, <1>2 DEF In

LEMMA InTail ==
  ASSUME NEW R, NEW s \in Seq(R), s # <<>>, NEW k, In(s, k)
  PROVE  In(Tail(s), k) \/ Head(s).index = k
<1>1. /\ Len(s) \in Nat \ {0} /\ Len(Tail(s)) = Len(s) - 1 /\ Head(s) = s[1]
      /\ \A i \in 1..Len(s) - 1 : Tail(s)[i] = s[i + 1]
  BY TailIs
<1>2. PICK i \in 1..Len(s) : s[i].index = k
  BY DEF In
<1>3. CASE i = 1
  BY <1>1, <1>2, <1>3
<1>4. CASE i # 1
  <2>1. i - 1 \in 1..Len(s) - 1 /\ (i - 1) + 1 = i
    BY <1>1, <1>4
  <2>. QED BY <1>1, <1>2, <2>1 DEF In
<1>. QED BY <1>3, <1>4

LEMMA StepJpegMatches ==
  Mt!TypeOK /\ JpegLabels /\ JpegCounts /\ JpegMatches /\ [Mt!Next]_(Mt!vars) => JpegMatches'
<1>. SUFFICES ASSUME Mt!TypeOK, JpegLabels, JpegCounts, JpegMatches, [Mt!Next]_(Mt!vars)
              PROVE  JpegMatches'
  OBVIOUS
<1>0. JpegLogs /\ JpegThreads /\ JpegQueues /\ Output \notin Workers
  BY JpegParts, WorkersOK
<1>. USE DEF JpegMatches, Working
<1>. HIDE DEF Fits, AllFit
<1>1. CASE Mt!Encode
  <2>1. mtCalls' \in 1..MaxCalls /\ UNCHANGED <<mtPc, mtItem, outQueues, expected>>
    BY <1>1, <1>0, BoundsOK DEF Mt!Encode, JpegLogs
  <2>2. CASE UNCHANGED <<mtAccepted, encQueue>>
    BY <2>1, <2>2
  <2>3. CASE /\ encQueue' = Append(encQueue, [frame |-> mtCalls', index |-> nextIndex])
             /\ mtAccepted' = Append(mtAccepted, mtCalls')
    <3>. DEFINE e == [frame |-> mtCalls', index |-> nextIndex]
    <3>1. e \in Mt!Items /\ e.index \in Nat
      BY <1>0, <2>1 DEF JpegLogs, Mt!Items
    <3>2. Fits(mtAccepted', e)
      <4>1. /\ Len(mtAccepted') = Len(mtAccepted) + 1 /\ Len(mtAccepted) \in Nat
            /\ mtAccepted'[Len(mtAccepted) + 1] = mtCalls'
        BY <1>0, <2>1, <2>3, AppendIs DEF JpegLogs
      <4>2. e.index = Len(mtAccepted) /\ e.frame = mtCalls'
        BY DEF JpegCounts
      <4>3. e.index < Len(mtAccepted') /\ mtAccepted'[e.index + 1] = e.frame
        BY <4>1, <4>2
      <4>. QED BY <4>3 DEF Fits
    <3>3. \A d \in Mt!Items : Fits(mtAccepted, d) => Fits(mtAccepted', d)
      <4>. SUFFICES ASSUME NEW d \in Mt!Items, Fits(mtAccepted, d) PROVE Fits(mtAccepted', d)
        OBVIOUS
      <4>1. d.index \in Nat
        BY BoundsOK DEF Mt!Items
      <4>. QED BY <1>0, <2>1, <2>3, <4>1, FitLonger DEF JpegLogs
    <3>4. \A s \in Seq(Mt!Items) : AllFit(mtAccepted, s) => AllFit(mtAccepted', s)
      BY <3>3, ElementOfSeq DEF AllFit
    <3>. HIDE DEF e
    <3>5. AllFit(mtAccepted', encQueue')
      <4>1. AllFit(mtAccepted', encQueue) /\ encQueue' = Append(encQueue, e)
        BY <1>0, <2>3, <3>4 DEF JpegQueues, e
      <4>. QED BY <1>0, <3>1, <3>2, <4>1, AllFitAppend DEF JpegQueues
    <3>6. \A w \in Workers : AllFit(mtAccepted', outQueues[w])
      BY <1>0, <3>4 DEF JpegQueues
    <3>7. \A w \in Workers : Working(w) => Fits(mtAccepted', mtItem[w])
      BY <3>3 DEF JpegLabels
    <3>8. Mt!At(Output, "deliver") =>
            Fits(mtAccepted', mtItem[Output]) /\ mtItem[Output].index = expected
      BY <3>3 DEF JpegLabels
    <3>. QED BY <2>1, <3>5, <3>6, <3>7, <3>8
  <2>. QED BY <1>1, <2>2, <2>3 DEF Mt!Encode
<1>2. CASE Mt!AbortEncode
  BY <1>2, <1>0 DEF Mt!AbortEncode, JpegThreads, JpegQueues
<1>3. ASSUME NEW w \in Workers, Mt!TakeFrame(w) PROVE JpegMatches'
  <2>1. AllFit(mtAccepted, Tail(encQueue)) /\ Fits(mtAccepted, Head(encQueue))
    BY <1>3, <1>0, AllFitTail DEF Mt!TakeFrame, JpegQueues
  <2>. QED BY <1>3, <1>0, <2>1 DEF Mt!TakeFrame, JpegThreads
<1>4. ASSUME NEW w \in Workers, Mt!WorkerExits(w) PROVE JpegMatches'
  BY <1>4, <1>0 DEF Mt!WorkerExits, JpegThreads, JpegQueues
<1>5. ASSUME NEW w \in Workers, Mt!Copy(w) PROVE JpegMatches'
  BY <1>5, <1>0 DEF Mt!Copy, JpegThreads, JpegQueues
<1>6. ASSUME NEW w \in Workers, Mt!PushResult(w) PROVE JpegMatches'
  <2>1. mtItem[w] \in Mt!Items /\ outQueues[w] \in Seq(Mt!Items) /\ Fits(mtAccepted, mtItem[w])
    BY <1>6, <1>0 DEF Mt!PushResult, JpegLabels, JpegQueues
  <2>2. AllFit(mtAccepted, Append(outQueues[w], mtItem[w]))
    BY <2>1, AllFitAppend
  <2>. QED BY <1>6, <1>0, <2>2 DEF Mt!PushResult, JpegThreads, JpegQueues
<1>7. ASSUME NEW w \in Workers, Mt!FindExpected(w) PROVE JpegMatches'
  <2>1. outQueues[w] \in Seq(Mt!Items) /\ outQueues[w] # <<>>
    BY <1>7, <1>0 DEF Mt!FindExpected, JpegQueues
  <2>2. AllFit(mtAccepted, Tail(outQueues[w])) /\ Fits(mtAccepted, Head(outQueues[w]))
    BY <2>1, AllFitTail
  <2>. QED BY <1>7, <1>0, <2>2 DEF Mt!FindExpected, JpegThreads, JpegQueues
<1>8. CASE Mt!OutputExits
  BY <1>8, <1>0 DEF Mt!OutputExits, JpegThreads, JpegQueues
<1>9. CASE Mt!Deliver
  BY <1>9, <1>0 DEF Mt!Deliver, JpegThreads, JpegQueues
<1>10. CASE Mt!JoinWorkers
  BY <1>10, <1>0 DEF Mt!JoinWorkers, JpegThreads, JpegQueues
<1>11. CASE Mt!JoinOutput
  BY <1>11, <1>0 DEF Mt!JoinOutput, JpegThreads, JpegQueues
<1>12. CASE UNCHANGED Mt!vars
  BY <1>12, <1>0 DEF Mt!vars, JpegThreads, JpegQueues
<1>. QED BY <1>1, <1>2, <1>3, <1>4, <1>5, <1>6, <1>7, <1>8, <1>9, <1>10, <1>11, <1>12
         DEF Mt!Next, Mt!Work, Mt!Reorder, Mt!Join

LEMMA StepJpegCovers ==
  Mt!TypeOK /\ JpegLabels /\ JpegCounts /\ JpegMatches /\ JpegCovers /\ [Mt!Next]_(Mt!vars)
  => JpegCovers'
<1>. SUFFICES ASSUME Mt!TypeOK, JpegLabels, JpegCounts, JpegMatches, JpegCovers,
                     [Mt!Next]_(Mt!vars)
              PROVE  JpegCovers'
  OBVIOUS
<1>0. JpegLogs /\ JpegThreads /\ JpegQueues /\ Output \notin Workers
  BY JpegParts, WorkersOK
<1>a. (\A k : Somewhere(k) => Somewhere(k)') /\ UNCHANGED <<nextIndex, expected>> => JpegCovers'
  BY DEF JpegCovers
<1>. USE DEF Working
<1>. HIDE DEF In
<1>1. CASE Mt!Encode
  <2>1. UNCHANGED <<mtPc, mtItem, outQueues, expected>>
    BY <1>1 DEF Mt!Encode
  <2>2. CASE UNCHANGED <<encQueue, nextIndex>>
    BY <2>1, <2>2 DEF JpegCovers, Somewhere
  <2>3. CASE /\ encQueue' = Append(encQueue, [frame |-> mtCalls', index |-> nextIndex])
             /\ nextIndex' = nextIndex + 1
    <3>. DEFINE e == [frame |-> mtCalls', index |-> nextIndex]
    <3>1. e \in Mt!Items /\ e.index = nextIndex
      BY <1>1, <1>0, BoundsOK DEF Mt!Encode, JpegLogs, Mt!Items
    <3>. HIDE DEF e
    <3>2. \A k : In(encQueue, k) \/ k = nextIndex => In(encQueue', k)
      <4>1. encQueue' = Append(encQueue, e)
        BY <2>3 DEF e
      <4>. QED BY <1>0, <3>1, <4>1, InAppend DEF JpegQueues
    <3>3. \A k : Somewhere(k) \/ k = nextIndex => Somewhere(k)'
      BY <2>1, <3>2 DEF Somewhere
    <3>4. \A k \in expected'..nextIndex' - 1 : k \in expected..nextIndex - 1 \/ k = nextIndex
      BY <1>0, <2>1, <2>3 DEF JpegLogs
    <3>. QED BY <3>3, <3>4 DEF JpegCovers
  <2>. QED BY <1>1, <2>2, <2>3 DEF Mt!Encode
<1>2. CASE Mt!AbortEncode
  <2>1. UNCHANGED <<nextIndex, expected, encQueue, mtItem, outQueues>>
    BY <1>2 DEF Mt!AbortEncode
  <2>2. \A t \in Mt!Threads : mtPc[t] \in {"copy", "encode"} => mtPc'[t] \in {"copy", "encode"}
    BY <1>2, <1>0 DEF Mt!AbortEncode, JpegThreads
  <2>3. Mt!At(Output, "deliver") => Mt!At(Output, "deliver")'
    BY <1>2, <1>0 DEF Mt!AbortEncode, JpegThreads
  <2>. QED BY <1>a, <2>1, <2>2, <2>3 DEF Somewhere
<1>3. ASSUME NEW w \in Workers, Mt!TakeFrame(w) PROVE JpegCovers'
  <2>1. /\ UNCHANGED <<nextIndex, expected, outQueues>> /\ encQueue # <<>>
        /\ encQueue' = Tail(encQueue) /\ mtItem' = [mtItem EXCEPT ![w] = Head(encQueue)]
        /\ mtPc' = [mtPc EXCEPT ![w] = "copy"] /\ mtPc[w] = "take"
    BY <1>3 DEF Mt!TakeFrame
  <2>2. \A k : In(encQueue, k) => In(encQueue', k) \/ mtItem'[w].index = k
    BY <1>0, <2>1, InTail DEF JpegQueues, JpegThreads
  <2>3. Working(w)' /\ \A v \in Workers : Working(v) => Working(v)' /\ mtItem'[v] = mtItem[v]
    BY <1>0, <2>1 DEF JpegThreads
  <2>4. Mt!At(Output, "deliver") => Mt!At(Output, "deliver")' /\ mtItem'[Output] = mtItem[Output]
    BY <1>0, <2>1 DEF JpegThreads
  <2>5. ASSUME NEW k, Somewhere(k) PROVE Somewhere(k)'
    BY <2>1, <2>2, <2>3, <2>4, <2>5 DEF Somewhere
  <2>. QED BY <1>a, <2>1, <2>5
<1>4. ASSUME NEW w \in Workers, Mt!WorkerExits(w) PROVE JpegCovers'
  <2>1. UNCHANGED <<nextIndex, expected, encQueue, mtItem, outQueues>>
    BY <1>4 DEF Mt!WorkerExits
  <2>2. \A t \in Mt!Threads : mtPc[t] \in {"copy", "encode"} => mtPc'[t] \in {"copy", "encode"}
    BY <1>4, <1>0 DEF Mt!WorkerExits, JpegThreads
  <2>3. Mt!At(Output, "deliver") => Mt!At(Output, "deliver")'
    BY <1>4, <1>0 DEF Mt!WorkerExits, JpegThreads
  <2>. QED BY <1>a, <2>1, <2>2, <2>3 DEF Somewhere
<1>5. ASSUME NEW w \in Workers, Mt!Copy(w) PROVE JpegCovers'
  <2>1. UNCHANGED <<nextIndex, expected, encQueue, mtItem, outQueues>>
    BY <1>5 DEF Mt!Copy
  <2>2. \A t \in Mt!Threads : mtPc[t] \in {"copy", "encode"} => mtPc'[t] \in {"copy", "encode"}
    BY <1>5, <1>0 DEF Mt!Copy, JpegThreads
  <2>3. Mt!At(Output, "deliver") => Mt!At(Output, "deliver")'
    BY <1>5, <1>0 DEF Mt!Copy, JpegThreads
  <2>. QED BY <1>a, <2>1, <2>2, <2>3 DEF Somewhere
<1>6. ASSUME NEW w \in Workers, Mt!PushResult(w) PROVE JpegCovers'
  <2>1. /\ UNCHANGED <<nextIndex, expected, encQueue>> /\ mtPc[w] = "encode"
        /\ outQueues' = [outQueues EXCEPT ![w] = Append(outQueues[w], mtItem[w])]
        /\ mtItem' = [mtItem EXCEPT ![w] = Mt!NoItem] /\ mtPc' = [mtPc EXCEPT ![w] = "take"]
    BY <1>6 DEF Mt!PushResult
  <2>2. mtItem[w] \in Mt!Items /\ outQueues[w] \in Seq(Mt!Items)
    BY <1>0, <2>1 DEF JpegLabels, JpegQueues
  <2>3. \A k : In(outQueues[w], k) \/ mtItem[w].index = k => In(outQueues'[w], k)
    BY <1>0, <2>1, <2>2, InAppend DEF JpegQueues
  <2>4. \A v \in Workers \ {w} :
          outQueues'[v] = outQueues[v] /\ mtItem'[v] = mtItem[v] /\ (Working(v) => Working(v)')
    BY <1>0, <2>1 DEF JpegThreads, JpegQueues
  <2>5. Mt!At(Output, "deliver") => Mt!At(Output, "deliver")' /\ mtItem'[Output] = mtItem[Output]
    BY <1>0, <2>1 DEF JpegThreads
  <2>6. ASSUME NEW k, Somewhere(k) PROVE Somewhere(k)'
    <3>1. CASE \E v \in Workers : Working(v) /\ mtItem[v].index = k
      BY <2>3, <2>4, <3>1 DEF Somewhere
    <3>2. CASE \E v \in Workers : In(outQueues[v], k)
      BY <2>3, <2>4, <3>2 DEF Somewhere
    <3>. QED BY <2>1, <2>5, <2>6, <3>1, <3>2 DEF Somewhere
  <2>. QED BY <1>a, <2>1, <2>6
<1>7. ASSUME NEW w \in Workers, Mt!FindExpected(w) PROVE JpegCovers'
  <2>1. /\ UNCHANGED <<nextIndex, expected, encQueue>> /\ outQueues[w] # <<>>
        /\ mtPc[Output] = "take" /\ mtPc' = [mtPc EXCEPT ![Output] = "deliver"]
        /\ outQueues' = [outQueues EXCEPT ![w] = Tail(outQueues[w])]
        /\ mtItem' = [mtItem EXCEPT ![Output] = Head(outQueues[w])]
    BY <1>7 DEF Mt!FindExpected
  <2>2. \A k : In(outQueues[w], k) => In(outQueues'[w], k) \/ mtItem'[Output].index = k
    <3>1. outQueues[w] \in Seq(Mt!Items) /\ mtItem'[Output] = Head(outQueues[w])
      BY <1>0, <2>1 DEF JpegQueues, JpegThreads
    <3>2. outQueues'[w] = Tail(outQueues[w])
      BY <1>0, <2>1 DEF JpegQueues
    <3>. QED BY <2>1, <3>1, <3>2, InTail
  <2>3. \A v \in Workers : mtItem'[v] = mtItem[v] /\ (Working(v) => Working(v)')
    BY <1>0, <2>1 DEF JpegThreads
  <2>4. \A v \in Workers \ {w} : outQueues'[v] = outQueues[v]
    BY <1>0, <2>1 DEF JpegQueues
  <2>5. Mt!At(Output, "deliver")'
    BY <1>0, <2>1 DEF JpegThreads
  <2>6. ASSUME NEW k, Somewhere(k) PROVE Somewhere(k)'
    <3>1. CASE \E v \in Workers : Working(v) /\ mtItem[v].index = k
      BY <2>3, <3>1 DEF Somewhere
    <3>2. CASE \E v \in Workers : In(outQueues[v], k)
      BY <2>2, <2>4, <2>5, <3>2 DEF Somewhere
    <3>. QED BY <2>1, <2>6, <3>1, <3>2 DEF Somewhere
  <2>. QED BY <1>a, <2>1, <2>6
<1>8. CASE Mt!OutputExits
  <2>1. UNCHANGED <<nextIndex, expected, encQueue, mtItem, outQueues>>
    BY <1>8 DEF Mt!OutputExits
  <2>2. \A t \in Mt!Threads : mtPc[t] \in {"copy", "encode"} => mtPc'[t] \in {"copy", "encode"}
    BY <1>8, <1>0 DEF Mt!OutputExits, JpegThreads
  <2>3. Mt!At(Output, "deliver") => Mt!At(Output, "deliver")'
    BY <1>8, <1>0 DEF Mt!OutputExits, JpegThreads
  <2>. QED BY <1>a, <2>1, <2>2, <2>3 DEF Somewhere
<1>9. CASE Mt!Deliver
  <2>1. /\ UNCHANGED <<nextIndex, encQueue, outQueues>> /\ expected' = expected + 1
        /\ mtPc[Output] = "deliver" /\ mtPc' = [mtPc EXCEPT ![Output] = "take"]
        /\ mtItem' = [mtItem EXCEPT ![Output] = Mt!NoItem] /\ mtItem[Output].index = expected
    BY <1>9 DEF Mt!Deliver, JpegMatches
  <2>2. \A v \in Workers : mtItem'[v] = mtItem[v] /\ (Working(v) => Working(v)')
    BY <1>0, <2>1 DEF JpegThreads
  <2>3. ASSUME NEW k, Somewhere(k), k # expected PROVE Somewhere(k)'
    BY <2>1, <2>2, <2>3 DEF Somewhere
  <2>4. \A k \in expected'..nextIndex' - 1 : k \in expected..nextIndex - 1 /\ k # expected
    BY <1>0, <2>1 DEF JpegLogs
  <2>. QED BY <2>3, <2>4 DEF JpegCovers
<1>10. CASE Mt!JoinWorkers
  <2>1. UNCHANGED <<nextIndex, expected, encQueue, mtItem, outQueues>>
    BY <1>10 DEF Mt!JoinWorkers
  <2>2. \A t \in Mt!Threads : mtPc[t] \in {"copy", "encode"} => mtPc'[t] \in {"copy", "encode"}
    BY <1>10, <1>0 DEF Mt!JoinWorkers, JpegThreads
  <2>3. Mt!At(Output, "deliver") => Mt!At(Output, "deliver")'
    BY <1>10, <1>0 DEF Mt!JoinWorkers, JpegThreads
  <2>. QED BY <1>a, <2>1, <2>2, <2>3 DEF Somewhere
<1>11. CASE Mt!JoinOutput
  <2>1. UNCHANGED <<nextIndex, expected, encQueue, mtItem, outQueues>>
    BY <1>11 DEF Mt!JoinOutput
  <2>2. \A t \in Mt!Threads : mtPc[t] \in {"copy", "encode"} => mtPc'[t] \in {"copy", "encode"}
    BY <1>11, <1>0 DEF Mt!JoinOutput, JpegThreads
  <2>3. Mt!At(Output, "deliver") => Mt!At(Output, "deliver")'
    BY <1>11, <1>0 DEF Mt!JoinOutput, JpegThreads
  <2>. QED BY <1>a, <2>1, <2>2, <2>3 DEF Somewhere
<1>12. CASE UNCHANGED Mt!vars
  <2>1. UNCHANGED <<nextIndex, expected, encQueue, mtItem, outQueues>>
    BY <1>12 DEF Mt!vars
  <2>2. \A t \in Mt!Threads : mtPc[t] \in {"copy", "encode"} => mtPc'[t] \in {"copy", "encode"}
    BY <1>12, <1>0 DEF Mt!vars, JpegThreads
  <2>3. Mt!At(Output, "deliver") => Mt!At(Output, "deliver")'
    BY <1>12, <1>0 DEF Mt!vars, JpegThreads
  <2>. QED BY <1>a, <2>1, <2>2, <2>3 DEF Somewhere
<1>. QED BY <1>1, <1>2, <1>3, <1>4, <1>5, <1>6, <1>7, <1>8, <1>9, <1>10, <1>11, <1>12
         DEF Mt!Next, Mt!Work, Mt!Reorder, Mt!Join

LEMMA StepJpegExits ==
  Mt!TypeOK /\ JpegLabels /\ JpegExits /\ [Mt!Next]_(Mt!vars) => JpegExits'
<1>. SUFFICES ASSUME Mt!TypeOK, JpegLabels, JpegExits, [Mt!Next]_(Mt!vars) PROVE JpegExits'
  OBVIOUS
<1>0. JpegThreads /\ JpegQueues /\ Output \notin Workers
  BY JpegParts, WorkersOK
<1>. USE DEF JpegExits
<1>1. CASE Mt!Encode
  <2>1. /\ UNCHANGED <<mtOwner, mtPc, abortEnc, abortOut, outQueues>> /\ mtOwner = "open"
    BY <1>1 DEF Mt!Encode
  <2>2. \A w \in Workers : ~Mt!At(w, "exited")
    BY <2>1
  <2>. QED BY <2>1, <2>2
<1>2. CASE Mt!AbortEncode
  BY <1>2, <1>0 DEF Mt!AbortEncode, JpegThreads, JpegQueues, JpegLabels
<1>3. ASSUME NEW w \in Workers, Mt!TakeFrame(w) PROVE JpegExits'
  <2>1. \A v \in Workers : ~Mt!At(v, "exited")
    BY <1>3 DEF Mt!TakeFrame
  <2>. QED BY <1>3, <1>0, <2>1 DEF Mt!TakeFrame, JpegThreads
<1>4. ASSUME NEW w \in Workers, Mt!WorkerExits(w) PROVE JpegExits'
  BY <1>4, <1>0 DEF Mt!WorkerExits, JpegThreads, JpegQueues, JpegLabels
<1>5. ASSUME NEW w \in Workers, Mt!Copy(w) PROVE JpegExits'
  BY <1>5, <1>0 DEF Mt!Copy, JpegThreads, JpegQueues, JpegLabels
<1>6. ASSUME NEW w \in Workers, Mt!PushResult(w) PROVE JpegExits'
  BY <1>6, <1>0 DEF Mt!PushResult, JpegThreads, JpegQueues, JpegLabels
<1>7. ASSUME NEW w \in Workers, Mt!FindExpected(w) PROVE JpegExits'
  BY <1>7, <1>0 DEF Mt!FindExpected, JpegThreads, JpegQueues, JpegLabels
<1>8. CASE Mt!OutputExits
  BY <1>8, <1>0 DEF Mt!OutputExits, JpegThreads, JpegQueues, JpegLabels
<1>9. CASE Mt!Deliver
  BY <1>9, <1>0 DEF Mt!Deliver, JpegThreads, JpegQueues, JpegLabels
<1>10. CASE Mt!JoinWorkers
  BY <1>10, <1>0 DEF Mt!JoinWorkers, JpegThreads, JpegQueues, JpegLabels
<1>11. CASE Mt!JoinOutput
  BY <1>11, <1>0 DEF Mt!JoinOutput, JpegThreads, JpegQueues, JpegLabels
<1>12. CASE UNCHANGED Mt!vars
  BY <1>12, <1>0 DEF Mt!vars, JpegThreads, JpegQueues, JpegLabels
<1>. QED BY <1>1, <1>2, <1>3, <1>4, <1>5, <1>6, <1>7, <1>8, <1>9, <1>10, <1>11, <1>12
         DEF Mt!Next, Mt!Work, Mt!Reorder, Mt!Join

-----------------------------------------------------------------------------
(* The JPEG workers: they implement Encoder                                *)

LEMMA InitJpeg == Mt!Init => JpegInv
<1>. SUFFICES ASSUME Mt!Init PROVE JpegInv
  OBVIOUS
<1>1. Len(<<>>) = 0
  BY EmptySeq
<1>2. JpegCounts
  BY <1>1 DEF Mt!Init, JpegCounts
<1>3. JpegMatches
  BY <1>1, WorkersOK DEF Mt!Init, JpegMatches, AllFit, Working
<1>4. JpegCovers
  BY DEF Mt!Init, JpegCovers
<1>5. JpegExits
  BY DEF Mt!Init, JpegExits
<1>. QED BY <1>2, <1>3, <1>4, <1>5, InitJpegTypes DEF JpegInv

LEMMA StepJpeg == JpegInv /\ [Mt!Next]_(Mt!vars) => JpegInv'
<1>. SUFFICES ASSUME JpegInv, [Mt!Next]_(Mt!vars) PROVE JpegInv'
  OBVIOUS
<1>1. JpegFlags' /\ JpegLogs' /\ JpegThreads' /\ JpegQueues'
  BY JpegParts, StepJpegFlags, StepJpegThreads, StepJpegLogs, StepJpegQueues DEF JpegInv
<1>2. Mt!TypeOK'
  BY <1>1 DEF Mt!TypeOK, JpegFlags, JpegLogs, JpegThreads, JpegQueues
<1>3. JpegLabels' /\ JpegCounts' /\ JpegMatches' /\ JpegCovers' /\ JpegExits'
  BY StepJpegThreads, StepJpegLogs, StepJpegMatches, StepJpegCovers, StepJpegExits DEF JpegInv
<1>. QED BY <1>2, <1>3 DEF JpegInv

\* The queues, indices and thread labels of JpegMtEncoder keep their types: a worker that
\* copies or encodes and an output thread that delivers have an item.
THEOREM JpegTypeCorrect == Mt!Spec => []Mt!TypeOK
<1>1. JpegInv => Mt!TypeOK
  BY DEF JpegInv
<1>. QED BY InitJpeg, StepJpeg, <1>1, PTL DEF Mt!Spec

\* The state of the contract.
JpegKept  == SubSeq(mtAccepted, Len(mtDelivered) + 1, Len(mtAccepted))
JpegPhase == IF mtOwner = "open" THEN "open" ELSE IF mtOwner = "gone" THEN "closed" ELSE "closing"

LEMMA StepJpegContract == JpegInv /\ [Mt!Next]_(Mt!vars) => [Mt!Contract!Next]_(Mt!Contract!vars)
<1>. SUFFICES ASSUME JpegInv, [Mt!Next]_(Mt!vars) PROVE [Mt!Contract!Next]_(Mt!Contract!vars)
  OBVIOUS
<1>. DEFINE Goal == [Mt!Contract!Next]_(Mt!Contract!vars)
<1>0. /\ mtAccepted \in Seq(1..MaxCalls) /\ mtDelivered \in Seq(1..MaxCalls)
      /\ mtCalls \in 0..MaxCalls
      /\ nextIndex \in Nat /\ expected \in Nat
      /\ nextIndex = Len(mtAccepted) /\ expected = Len(mtDelivered) /\ expected <= nextIndex
  BY BoundsOK DEF JpegInv, Mt!TypeOK, JpegCounts
<1>a. UNCHANGED <<JpegKept, mtDelivered, JpegPhase>> => Goal
  BY DEF Mt!Contract!vars, JpegKept, JpegPhase
<1>b. UNCHANGED <<mtAccepted, mtDelivered, mtOwner>> => Goal
  BY <1>a DEF JpegKept, JpegPhase
<1>. HIDE DEF Goal
<1>1. CASE Mt!Encode
  <2>1. /\ mtOwner = "open" /\ UNCHANGED <<mtDelivered, mtOwner>> /\ mtCalls' \in 1..MaxCalls
    BY <1>1, <1>0, BoundsOK DEF Mt!Encode
  <2>2. CASE UNCHANGED mtAccepted
    BY <1>b, <2>1, <2>2 DEF Goal
  <2>3. CASE mtAccepted' = Append(mtAccepted, mtCalls')
    <3>1. Len(JpegKept') = Len(JpegKept) + 1 /\ SubSeq(JpegKept', 1, Len(JpegKept)) = JpegKept
      <4>1. /\ mtAccepted' \in Seq(1..MaxCalls) /\ Len(mtAccepted') = Len(mtAccepted) + 1
            /\ \A i \in 1..Len(mtAccepted) : mtAccepted'[i] = mtAccepted[i]
        BY <1>0, <2>1, <2>3, AppendIs
      <4>2. /\ JpegKept = SubSeq(mtAccepted, Len(mtDelivered) + 1, Len(mtAccepted))
            /\ JpegKept' = SubSeq(mtAccepted', Len(mtDelivered) + 1, Len(mtAccepted'))
        BY <2>1 DEF JpegKept
      <4>. QED BY SMTT(25), <1>0, <4>1, <4>2, InsideAccept
    <3>2. Mt!Contract!Accept
      BY <2>1, <3>1 DEF Mt!Contract!Accept, JpegKept
    <3>. QED BY <3>2 DEF Mt!Contract!Next, Goal
  <2>. QED BY <1>1, <2>2, <2>3 DEF Mt!Encode
<1>2. CASE Mt!AbortEncode
  <2>1. Mt!Contract!Close
    BY <1>2 DEF Mt!AbortEncode, Mt!Contract!Close
  <2>. QED BY <2>1 DEF Mt!Contract!Next, Goal
<1>3. ASSUME NEW w \in Workers, Mt!TakeFrame(w) PROVE Goal
  BY <1>3, <1>b DEF Mt!TakeFrame, Goal
<1>4. ASSUME NEW w \in Workers, Mt!WorkerExits(w) PROVE Goal
  BY <1>4, <1>b DEF Mt!WorkerExits, Goal
<1>5. ASSUME NEW w \in Workers, Mt!Copy(w) PROVE Goal
  BY <1>5, <1>b DEF Mt!Copy, Goal
<1>6. ASSUME NEW w \in Workers, Mt!PushResult(w) PROVE Goal
  BY <1>6, <1>b DEF Mt!PushResult, Goal
<1>7. ASSUME NEW w \in Workers, Mt!FindExpected(w) PROVE Goal
  BY <1>7, <1>b DEF Mt!FindExpected, Goal
<1>8. CASE Mt!OutputExits
  BY <1>8, <1>b DEF Mt!OutputExits, Goal
<1>9. CASE Mt!Deliver
  <2>1. /\ Mt!At(Output, "deliver") /\ mtDelivered' = Append(mtDelivered, mtItem[Output].frame)
        /\ UNCHANGED <<mtAccepted, mtOwner>>
    BY <1>9 DEF Mt!Deliver
  <2>2. mtOwner # "gone"
    BY <2>1 DEF JpegInv, JpegExits
  <2>3. /\ mtItem[Output].frame = mtAccepted[Len(mtDelivered) + 1] /\ expected + 1 <= nextIndex
        /\ mtItem[Output].frame \in 1..MaxCalls
    <3>1. /\ mtItem[Output] \in Mt!Items /\ Fits(mtAccepted, mtItem[Output])
          /\ mtItem[Output].index = expected
      BY <2>1 DEF JpegInv, JpegMatches, JpegLabels
    <3>2. mtItem[Output].frame \in 1..MaxCalls
      BY <3>1 DEF Mt!Items
    <3>. QED BY <1>0, <3>1, <3>2 DEF Fits
  <2>4. /\ JpegKept # <<>> /\ Head(JpegKept) = mtAccepted[Len(mtDelivered) + 1]
        /\ Tail(JpegKept) = SubSeq(mtAccepted, (Len(mtDelivered) + 1) + 1, Len(mtAccepted))
    BY <1>0, <2>3, InsideDeliver DEF JpegKept
  <2>5. JpegKept' = Tail(JpegKept)
    <3>1. Len(mtDelivered') = Len(mtDelivered) + 1
      BY <1>0, <2>1, <2>3, AppendIs
    <3>. QED BY <2>1, <2>4, <3>1 DEF JpegKept
  <2>6. Mt!Contract!Deliver
    BY <2>1, <2>2, <2>3, <2>4, <2>5 DEF Mt!Contract!Deliver, JpegKept
  <2>. QED BY <2>6 DEF Mt!Contract!Next, Goal
<1>10. CASE Mt!JoinWorkers
  <2>1. UNCHANGED <<JpegKept, mtDelivered, JpegPhase>>
    BY <1>10 DEF Mt!JoinWorkers, JpegKept, JpegPhase
  <2>. QED BY <1>a, <2>1 DEF Goal
<1>11. CASE Mt!JoinOutput
  <2>1. /\ mtOwner = "join_output" /\ mtOwner' = "gone" /\ mtPc[Output] = "exited"
        /\ UNCHANGED <<mtAccepted, mtDelivered>>
    BY <1>11 DEF Mt!JoinOutput
  <2>2. (\A w \in Workers : outQueues[w] = <<>> /\ mtPc[w] = "exited") /\ encQueue = <<>>
    BY <2>1, WorkersOK DEF JpegInv, JpegExits
  <2>3. \A k : ~Somewhere(k)
    BY <2>1, <2>2, EmptySeq DEF Somewhere, In, Working
  <2>4. expected = nextIndex
    <3>1. expected \notin expected..nextIndex - 1
      BY <2>3 DEF JpegInv, JpegCovers
    <3>. QED BY <1>0, <3>1
  <2>5. /\ Len(mtAccepted) < Len(mtDelivered) + 1 /\ Len(mtDelivered) + 1 \in Int
        /\ Len(mtAccepted) \in Int
    BY <1>0, <2>4
  <2>6. JpegKept = <<>>
    BY <2>5, SubSeqEmpty DEF JpegKept
  <2>7. Mt!Contract!Finish
    BY <2>1, <2>6 DEF Mt!Contract!Finish, JpegKept
  <2>. QED BY <2>7 DEF Mt!Contract!Next, Goal
<1>12. CASE UNCHANGED Mt!vars
  BY <1>12, <1>b DEF Mt!vars, Goal
<1>. QED BY <1>1, <1>2, <1>3, <1>4, <1>5, <1>6, <1>7, <1>8, <1>9, <1>10, <1>11, <1>12
         DEF Mt!Next, Mt!Work, Mt!Reorder, Mt!Join, Goal

\* JpegMtEncoder hands on every frame encode() accepted, once and in the order of acceptance,
\* however its workers overtake each other, and its destructor returns only after all of them:
\* output_thread_fn() delivers the index it expects, and ends when no worker is left to bring
\* one. For any number of workers and any length of their queue.
THEOREM JpegImplements == Mt!Spec => Mt!ImplementsEncoder
<1>1. Mt!Init => Mt!Contract!Init
  <2>. SUFFICES ASSUME Mt!Init PROVE Mt!Contract!Init
    OBVIOUS
  <2>1. Len(mtAccepted) = 0 /\ Len(mtDelivered) = 0
    BY EmptySeq DEF Mt!Init
  <2>2. JpegKept = <<>>
    BY <2>1, SubSeqEmpty DEF JpegKept
  <2>. QED BY <2>2 DEF Mt!Init, Mt!Contract!Init, JpegKept
<1>. QED BY InitJpeg, StepJpeg, StepJpegContract, <1>1, PTL
         DEF Mt!Spec, Mt!ImplementsEncoder, Mt!Contract!Spec

-----------------------------------------------------------------------------
(* The stages together                                                     *)

HIDE DEF Hw!Slots, Hw!Calls, Hw!Threads, Hw!Nothing, Hw!logVars, Hw!inVars, Hw!codecVars,
         Hw!flagVars, Hw!At, Hw!Goto, Hw!Set,
         Mt!Threads, Mt!Goto, Mt!At, Mt!logVars, Mt!encVars, Mt!outVars

\* The theorems about the Recorder, in its variables as the stages name them.
RecP == INSTANCE Recorder_proofs WITH
    Faults <- RecorderFaults, accepted <- taking, broken <- dead

\* A behaviour of the pipeline is, for each encoder, one of that encoder.
LEMMA RunCodec == RunSpec => Hw!Spec
<1>1. RunInit => Hw!Init
  BY DEF RunInit
<1>2. [RunNext]_RunVars => [Hw!Next]_(Hw!vars)
  <2>1. UNCHANGED hwVars => UNCHANGED Hw!vars
    BY DEF hwVars, Hw!vars, Hw!logVars, Hw!flagVars, Hw!codecVars, Hw!inVars
  <2>. QED BY <2>1 DEF RunNext, RunVars, Queue, JpegMt, V4l2, Recording
<1>. QED BY <1>1, <1>2, PTL DEF RunSpec, Hw!Spec

\* The same of the JPEG workers.
LEMMA RunJpeg == RunSpec => Mt!Spec
<1>1. RunInit => Mt!Init
  BY DEF RunInit
<1>2. [RunNext]_RunVars => [Mt!Next]_(Mt!vars)
  <2>1. UNCHANGED mtVars => UNCHANGED Mt!vars
    BY DEF mtVars, Mt!vars, Mt!logVars, Mt!encVars, Mt!outVars
  <2>. QED BY <2>1 DEF RunNext, RunVars, Queue, JpegMt, V4l2, Recording
<1>. QED BY <1>1, <1>2, PTL DEF RunSpec, Mt!Spec

\* The same of the Recorder.
LEMMA RunRecorder == RunSpec => RecP!Spec
<1>1. RunInit => RecP!Init
  <2>1. Rec!Init => RecP!Init
    BY DEF Rec!Init, RecP!Init, Rec!Sessions, RecP!Sessions
  <2>. QED BY <2>1 DEF RunInit
<1>2. [RunNext]_RunVars => [fault = "none" /\ RecP!Next]_(RecP!vars)
  <2>1. UNCHANGED recVars => UNCHANGED RecP!vars
    BY DEF recVars, RecP!vars, RecP!apiVars, RecP!encoderVars, RecP!frameVars, RecP!pipeVars,
           RecP!stampVars, RecP!outVars, RecP!pushVars
  <2>2. Rec!Next => RecP!Next
  <3>. USE DEF Rec!apiVars, Rec!encoderVars, Rec!frameVars, Rec!pipeVars, Rec!stampVars,
               Rec!outVars, Rec!pushVars, Rec!Sessions, Rec!Pushes,
               RecP!apiVars, RecP!encoderVars, RecP!frameVars, RecP!pipeVars, RecP!stampVars,
               RecP!outVars, RecP!pushVars, RecP!Sessions, RecP!Pushes
  <3>1. Rec!CallStart => RecP!CallStart
    BY DEF Rec!CallStart, RecP!CallStart
  <3>2. Rec!StartRefused => RecP!StartRefused
    BY DEF Rec!StartRefused, RecP!StartRefused
  <3>3. Rec!Start => RecP!Start
    BY DEF Rec!Start, RecP!Start
  <3>4. Rec!EncoderFails => RecP!EncoderFails
    BY DEF Rec!EncoderFails, RecP!EncoderFails
  <3>5. Rec!Build => RecP!Build
    BY DEF Rec!Build, RecP!Build
  <3>6. Rec!BuildFails => RecP!BuildFails
    BY DEF Rec!BuildFails, RecP!BuildFails
  <3>7. Rec!Publish => RecP!Publish
    BY DEF Rec!Publish, RecP!Publish
  <3>8. Rec!Close => RecP!Close
    BY DEF Rec!Close, RecP!Close
  <3>9. Rec!Drain => RecP!Drain
    BY DEF Rec!Drain, RecP!Drain, Rec!AfterDrain, RecP!AfterDrain
  <3>10. Rec!EndOfStream => RecP!EndOfStream
    BY DEF Rec!EndOfStream, RecP!EndOfStream
  <3>11. Rec!Await => RecP!Await
    BY DEF Rec!Await, RecP!Await
  <3>12. Rec!Members => RecP!Members
    BY DEF Rec!Members, RecP!Members
  <3>13. Rec!PollBus => RecP!PollBus
    BY DEF Rec!PollBus, RecP!PollBus
  <3>14. Rec!PushBuffer => RecP!PushBuffer
    BY DEF Rec!PushBuffer, RecP!PushBuffer
  <3>15. Rec!PushFrame => RecP!PushFrame
    BY DEF Rec!PushFrame, RecP!PushFrame
  <3>16. Rec!Encode => RecP!Encode
    BY DEF Rec!Encode, RecP!Encode
  <3>17. Rec!PipelineError => RecP!PipelineError
    BY DEF Rec!PipelineError, RecP!PipelineError
  <3>18. Rec!EncoderBreaks => RecP!EncoderBreaks
    BY DEF Rec!EncoderBreaks, RecP!EncoderBreaks
  <3>19. ASSUME NEW next \in {"idle", "start", "members"}, Rec!Stop(next) PROVE RecP!Stop(next)
    BY <3>19 DEF Rec!Stop, RecP!Stop
  <3>20. ASSUME NEW s \in Rec!Sessions, Rec!Deliver(s) PROVE RecP!Deliver(s)
    BY <3>20 DEF Rec!Deliver, RecP!Deliver
  <3>. QED BY <3>1, <3>2, <3>3, <3>4, <3>5, <3>6, <3>7, <3>8, <3>9, <3>10, <3>11, <3>12,
              <3>13, <3>14, <3>15, <3>16, <3>17, <3>18, <3>19, <3>20
           DEF Rec!Next, RecP!Next, Rec!Control, RecP!Control, Rec!Starting, RecP!Starting,
               Rec!Stopping, RecP!Stopping, Rec!Callback, RecP!Callback
  <2>. QED BY <2>1, <2>2 DEF RunNext, RunVars, Queue, JpegMt, V4l2, Recording
<1>. QED BY <1>1, <1>2, PTL DEF RunSpec, RecP!Spec

\* No OUTPUT slot of a hardware encoder is lost, whatever fails, for any number of slots,
\* and the h264 encoder keeps a frame as long as its slot is with the codec: encode(),
\* poll_thread_fn() and the destructors of H264HardwareEncoder and JpegHwEncoder.
THEOREM RunSlots == RunSpec => []SlotsConserved
<1>1. CodecInv => SlotsConserved
  BY CodecSlots DEF SlotsConserved
<1>. QED BY RunCodec, InitCodec, StepCodec, <1>1, PTL DEF Hw!Spec

\* In both hardware encoders no CAPTURE buffer is with the codec while its content is handed
\* to the callback, or waits for that: VIDIOC_QBUF gives it back after the callback only.
THEOREM RunCapture == RunSpec => []CaptureApart
<1>1. CodecInv => CaptureApart
  BY CodecCapture DEF CaptureApart
<1>. QED BY RunCodec, InitCodec, StepCodec, <1>1, PTL DEF Hw!Spec

\* Each of the three encoders keeps the contract the Recorder and the viewers rely on: frames
\* come out once and in order, and the destructor leaves nothing behind. The hypothesis is
\* that of CodecImplements.
THEOREM RunEncoders ==
  ASSUME Granted <= NumOutputBuffers
  PROVE  RunSpec => ImplementsEncoder
  BY RunCodec, RunJpeg, CodecImplements, JpegImplements DEF ImplementsEncoder

\* A file has the frames of its own recording, from the first its encoder accepted and without
\* a gap, timed from one frame, which is the first of them unless an error has ended the
\* recording before: start(), push_frame() and the callback of Recorder, for any number of
\* recordings, frames and faults.
THEOREM RunFiles == RunSpec => []FilesInOrder
<1>1. RecP!Spec => []RecP!FilesInOrder
  BY RecP!InOrder, BoundsOK
<1>2. RecP!FilesInOrder => FilesInOrder
  BY DEF FilesInOrder, Rec!FilesInOrder, RecP!FilesInOrder, Rec!Sessions, RecP!Sessions,
         Rec!Written, RecP!Written, Rec!AfterError, RecP!AfterError
<1>. QED BY RunRecorder, <1>1, <1>2, PTL

\* A file that ended with its end of stream has every frame its encoder accepted, unless the
\* encoder's poll thread gave up: Recorder::stop() destroys the encoder, which drains, before
\* it sends EOS.
THEOREM RunComplete == RunSpec => []StoppedComplete
<1>1. RecP!Spec => []RecP!StoppedComplete
  BY RecP!Complete, BoundsOK
<1>2. RecP!StoppedComplete => StoppedComplete
  BY DEF StoppedComplete, Rec!StoppedComplete, RecP!StoppedComplete, Rec!Sessions,
         RecP!Sessions, Rec!Written, RecP!Written
<1>. QED BY RunRecorder, <1>1, <1>2, PTL
=============================================================================
