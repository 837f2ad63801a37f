--------------------------- MODULE LevelHistoryProofs -------------------------
(* Proofs about LevelHistory: types and the number of snapshots, that the    *)
(* input of every cycle is there when the cycle is played, that the history  *)
(* is what was played, and that predictions leave it as it was.              *)
EXTENDS LevelHistory, SequenceTheorems, TLAPS

Level == Seq(Key)

(* ------------------------------- sequences ------------------------------- *)

(* A part of a sequence.                                                     *)
LEMMA PartOf ==
  ASSUME NEW S, NEW s \in Seq(S), NEW i \in Int, NEW j \in Int,
         i >= 1, j <= Len(s)
  PROVE  /\ SubSeq(s, i, j) \in Seq(S)
         /\ Len(SubSeq(s, i, j)) = IF i <= j THEN j - i + 1 ELSE 0
  <1>1. CASE i <= j
    <2>1. i \in 1 .. Len(s) + 1 /\ j \in i - 1 .. Len(s)
      BY <1>1
    <2> QED
      BY <1>1, <2>1, SubSeqProperties
  <1>2. CASE j < i
    <2>1. SubSeq(s, i, j) = << >>
      BY <1>2, SubSeqEmpty
    <2>2. << >> \in Seq(S) /\ Len(<< >>) = 0
      OBVIOUS
    <2> QED
      BY <1>2, <2>1, <2>2
  <1> QED
    BY <1>1, <1>2

(* The newest snapshots are all, or as many as are kept.                     *)
LEMMA NewestKept ==
  ASSUME NEW s \in Seq(Level)
  PROVE  /\ Newest(s) \in Seq(Level)
         /\ Len(Newest(s)) = IF Len(s) > MaxBackups THEN MaxBackups ELSE Len(s)
  <1> DEFINE i == IF Len(s) > MaxBackups THEN Len(s) - MaxBackups + 1 ELSE 1
  <1>1. MaxBackups \in Nat \ {0} /\ Len(s) \in Nat
    BY HistoryAssumption
  <1>2. i \in Int /\ i >= 1 /\ Len(s) \in Int /\ Len(s) <= Len(s)
    BY <1>1
  <1>3. Newest(s) = SubSeq(s, i, Len(s))
    BY DEF Newest
  <1> HIDE DEF i
  <1>4. SubSeq(s, i, Len(s)) \in Seq(Level)
        /\ Len(SubSeq(s, i, Len(s))) = IF i <= Len(s) THEN Len(s) - i + 1 ELSE 0
    BY <1>2, PartOf
  <1>5. CASE Len(s) > MaxBackups
    <2>1. i = Len(s) - MaxBackups + 1
      BY <1>5 DEF i
    <2>2. i <= Len(s) /\ Len(s) - i + 1 = MaxBackups
      BY <1>1, <1>5, <2>1
    <2> QED
      BY <1>3, <1>4, <1>5, <2>2
  <1>6. CASE ~(Len(s) > MaxBackups)
    <2>1. i = 1
      BY <1>6 DEF i
    <2>2. Len(s) = IF i <= Len(s) THEN Len(s) - i + 1 ELSE 0
      BY <1>1, <2>1
    <2> QED
      BY <1>3, <1>4, <1>6, <2>2
  <1> QED
    BY <1>5, <1>6

LEMMA NotYetLevels ==
  ASSUME NEW s \in Seq(Level), NEW l \in Seq(Level)
  PROVE  /\ NotYet(s, l) \in Seq(Level)
         /\ l # << >> /\ s = << >> => NotYet(s, l) # << >>
  BY HeadTailProperties DEF NotYet

(* What backup does to the number of snapshots.                              *)
LEMMA BackedUpLevels ==
  ASSUME NEW s \in Seq(Level), NEW l \in Seq(Level)
  PROVE  /\ BackedUp(s, l) \in Seq(Level)
         /\ Len(BackedUp(s, l)) <= MaxBackups
         /\ Len(s) <= MaxBackups => Len(BackedUp(s, l)) >= Len(s)
         /\ l # << >> => Len(BackedUp(s, l)) >= 1
  <1> DEFINE n == NotYet(s, l)
             both == s \o n
  <1>1. n \in Seq(Level) /\ (l # << >> /\ s = << >> => n # << >>)
    BY NotYetLevels
  <1>2. both \in Seq(Level) /\ Len(both) = Len(s) + Len(n)
    BY <1>1, ConcatProperties
  <1>3. Newest(both) \in Seq(Level)
        /\ Len(Newest(both)) = IF Len(both) > MaxBackups THEN MaxBackups ELSE Len(both)
    BY <1>2, NewestKept
  <1>4. BackedUp(s, l) = Newest(both)
    BY DEF BackedUp
  <1>5. Len(s) \in Nat /\ Len(n) \in Nat /\ MaxBackups \in Nat \ {0}
    BY <1>1, HistoryAssumption
  <1>6. l # << >> => Len(s) >= 1 \/ Len(n) >= 1
    BY <1>1, <1>5, EmptySeq
  <1> HIDE DEF n, both
  <1> QED
    BY <1>2, <1>3, <1>4, <1>5, <1>6

(* The states ahead are states, as long as there are inputs for them.        *)
LEMMA AheadLevels ==
  ASSUME NEW n \in Int, TypeOK, Len(played) + n <= Len(controls)
  PROVE  /\ Ahead(n) \in Seq(Level)
         /\ n >= 1 => Len(Ahead(n)) = n
  <1>1. played \in Level /\ controls \in Level /\ Len(played) \in Nat /\ Len(controls) \in Nat
    BY DEF TypeOK, Level
  <1>2. ASSUME NEW i \in 1 .. n
        PROVE  played \o SubSeq(controls, Len(played) + 1, Len(played) + i) \in Level
    <2>1. Len(played) + 1 \in Int /\ Len(played) + i \in Int
          /\ Len(played) + 1 >= 1 /\ Len(played) + i <= Len(controls)
      BY <1>1
    <2>2. SubSeq(controls, Len(played) + 1, Len(played) + i) \in Level
      BY <1>1, <2>1, PartOf DEF Level
    <2> QED
      BY <1>1, <2>2, ConcatProperties DEF Level
  <1>3. CASE n >= 1
    <2>1. n \in Nat
      BY <1>3
    <2>2. Ahead(n) \in [1 .. n -> Level]
      BY <1>2 DEF Ahead
    <2> QED
      BY <2>1, <2>2
  <1>4. CASE n < 1
    <2>1. Ahead(n) = [i \in {} |-> {}]
      BY <1>4 DEF Ahead
    <2>2. Ahead(n) = << >>
      BY <1>4 DEF Ahead
    <2> QED
      BY <1>4, <2>2
  <1> QED
    BY <1>3, <1>4

(* What read_until leaves.                                                   *)
LEMMA ReadUntilInputs ==
  ASSUME TypeOK, NEW key \in Key, NEW n \in Nat
  PROVE  ReadUntil(n, key) \in Level /\ Len(ReadUntil(n, key)) = n + 1
  <1>1. controls \in Level /\ Len(controls) \in Nat
    BY DEF TypeOK, Level
  <1>2. CASE Len(controls) <= n
    <2> DEFINE k == n + 1 - Len(controls)
               new == [i \in 1 .. k |-> key]
    <2>1. k \in Nat
      BY <1>1, <1>2
    <2> HIDE DEF k
    <2>2. new \in Level /\ Len(new) = k
      BY <2>1 DEF Level
    <2> HIDE DEF new
    <2>3. controls \o new \in Level /\ Len(controls \o new) = Len(controls) + k
      BY <1>1, <2>2, ConcatProperties DEF Level
    <2>4. ReadUntil(n, key) = controls \o new
      BY <1>2 DEF ReadUntil, new, k
    <2>5. Len(controls) + k = n + 1
      BY <1>1 DEF k
    <2> QED
      BY <2>3, <2>4, <2>5
  <1>3. CASE ~(Len(controls) <= n)
    <2>1. ReadUntil(n, key) = SubSeq(controls, 1, n + 1)
      BY <1>3 DEF ReadUntil
    <2>2. n + 1 <= Len(controls) /\ n + 1 \in Int /\ 1 \in Int /\ 1 >= 1 /\ 1 <= n + 1
      BY <1>1, <1>3
    <2>3. SubSeq(controls, 1, n + 1) \in Level /\ Len(SubSeq(controls, 1, n + 1)) = (n + 1) - 1 + 1
      BY <1>1, <2>2, PartOf DEF Level
    <2> QED
      BY <2>1, <2>3
  <1> QED
    BY <1>2, <1>3

(* ------------------------------- invariant ------------------------------- *)

(* Between frames, too, the inputs are in reach, except after rewinding,     *)
(* when the next frame begins with reading them.                             *)
InReach == Len(controls) \in Len(played) .. Len(played) + StartingCycles + 1

IInv ==
  /\ TypeOK
  /\ ~paused /\ (at = "events" \/ ~reversing) => InReach

LEMMA InitInv == Init => IInv
  <1> SUFFICES ASSUME Init
               PROVE  IInv
    OBVIOUS
  <1>1. << >> \in Seq(Key) /\ << >> \in Seq(Seq(Key)) /\ Len(<< >>) = 0
    OBVIOUS
  <1>2. StartingCycles \in Nat /\ MaxBackups \in Nat
    BY HistoryAssumption
  <1>3. at = "top" /\ played = << >> /\ controls = << >> /\ backups = << >>
        /\ ~paused /\ ~reversing /\ seams = {}
    BY DEF Init
  <1>4. {paused, reversing} \subseteq BOOLEAN
    BY DEF Init
  <1>5. Len(backups) <= MaxBackups /\ Len(controls) = 0 /\ Len(played) = 0
    BY <1>1, <1>2, <1>3
  <1>6. TypeOK
    BY <1>1, <1>3, <1>4, <1>5 DEF TypeOK
  <1>7. InReach
    BY <1>2, <1>5 DEF InReach
  <1> QED
    BY <1>6, <1>7 DEF IInv

(* Taking the last snapshot.                                                 *)
LEMMA ReverseOneCycleTypes ==
  ASSUME TypeOK, NEW s \in Seq(Level), Len(s) <= MaxBackups, ReverseOneCycle(s)
  PROVE  played' \in Level /\ backups' \in Seq(Level) /\ Len(backups') <= MaxBackups
  <1>1. CASE s = << >>
    BY <1>1 DEF ReverseOneCycle, TypeOK, Level
  <1>2. CASE s # << >>
    <2>1. Len(s) \in Nat /\ Len(s) >= 1
      BY <1>2, EmptySeq
    <2>2. s[Len(s)] \in Level
      BY <2>1, ElementOfSeq
    <2>3. played' = s[Len(s)] /\ backups' = SubSeq(s, 1, Len(s) - 1)
      BY <1>2 DEF ReverseOneCycle, Last, Front
    <2>4. 1 \in Int /\ Len(s) - 1 \in Int /\ 1 >= 1 /\ Len(s) - 1 <= Len(s)
      BY <2>1
    <2>5. SubSeq(s, 1, Len(s) - 1) \in Seq(Level)
          /\ Len(SubSeq(s, 1, Len(s) - 1)) = IF 1 <= Len(s) - 1 THEN (Len(s) - 1) - 1 + 1 ELSE 0
      BY <2>4, PartOf
    <2>6. MaxBackups \in Nat \ {0}
      BY HistoryAssumption
    <2>7. Len(SubSeq(s, 1, Len(s) - 1)) <= MaxBackups
      BY <2>1, <2>5, <2>6
    <2> QED
      BY <2>2, <2>3, <2>5, <2>7
  <1> QED
    BY <1>1, <1>2

LEMMA Widths ==
  ASSUME TypeOK
  PROVE  /\ Len(played) \in Nat /\ Len(controls) \in Nat /\ StartingCycles \in Nat
         /\ CycleOf(played) \in Nat
         /\ played \in Level /\ controls \in Level
         /\ backups \in Seq(Level) /\ Len(backups) <= MaxBackups
  <1>1. played \in Level /\ controls \in Level /\ backups \in Seq(Level)
        /\ Len(backups) <= MaxBackups
    BY DEF TypeOK, Level
  <1>2. Len(played) \in Nat /\ Len(controls) \in Nat
    BY <1>1 DEF Level
  <1> QED
    BY <1>1, <1>2, HistoryAssumption DEF CycleOf

(* The inputs after read_until are in reach.                                 *)
LEMMA ReadUntilInReach ==
  ASSUME TypeOK, NEW key \in Key
  PROVE  /\ ReadUntil(CycleOf(played), key) \in Level
         /\ Len(ReadUntil(CycleOf(played), key))
              \in Len(played) .. Len(played) + StartingCycles + 1
  <1>1. CycleOf(played) \in Nat /\ Len(played) \in Nat /\ StartingCycles \in Nat
    BY Widths
  <1>2. ReadUntil(CycleOf(played), key) \in Level
        /\ Len(ReadUntil(CycleOf(played), key)) = CycleOf(played) + 1
    BY <1>1, ReadUntilInputs
  <1>3. CycleOf(played) + 1 \in Len(played) .. Len(played) + StartingCycles + 1
    BY <1>1 DEF CycleOf
  <1> QED
    BY <1>2, <1>3

LEMMA ReverseCycleStep ==
  ASSUME IInv, ReverseCycle
  PROVE  IInv'
  <1>1. TypeOK
    BY DEF IInv
  <1>2. played' \in Level /\ backups' \in Seq(Level) /\ Len(backups') <= MaxBackups
    BY <1>1, Widths, ReverseOneCycleTypes DEF ReverseCycle
  <1>3. controls' \in Level
    <2>1. CASE controls = << >>
      BY <2>1 DEF ReverseCycle, Level
    <2>2. CASE controls # << >>
      <3>1. Len(controls) \in Nat /\ controls \in Level
        BY <1>1, Widths
      <3>2. 1 \in Int /\ Len(controls) - 1 \in Int /\ 1 >= 1 /\ Len(controls) - 1 <= Len(controls)
        BY <3>1
      <3>3. SubSeq(controls, 1, Len(controls) - 1) \in Level
        BY <3>1, <3>2, PartOf DEF Level
      <3> QED
        BY <2>2, <3>3 DEF ReverseCycle, Front
    <2> QED
      BY <2>1, <2>2
  <1>4. at' = "top" /\ reversing' = TRUE /\ paused' = paused
        /\ seams' = seams \union {"rewound"}
    BY DEF ReverseCycle
  <1>5. {paused', reversing'} \subseteq BOOLEAN /\ seams' \subseteq {"rewound", "reset", "skipped"}
    BY <1>1, <1>4 DEF TypeOK
  <1>6. TypeOK'
    BY <1>2, <1>3, <1>4, <1>5 DEF TypeOK, Level
  <1> QED
    BY <1>4, <1>6 DEF IInv

LEMMA BeginFrameStep ==
  ASSUME IInv, BeginFrame
  PROVE  IInv'
  <1>1. TypeOK /\ at = "top"
    BY DEF IInv, BeginFrame
  <1>2. at' = "events" /\ reversing' = FALSE /\ played' = played /\ backups' = backups
        /\ paused' = paused /\ seams' = seams
    BY DEF BeginFrame
  <1>3. CASE reversing
    <2>1. PICK key \in Key : controls' = ReadUntil(CycleOf(played), key)
      BY <1>3 DEF BeginFrame
    <2>2. controls' \in Level /\ Len(controls') \in Len(played) .. Len(played) + StartingCycles + 1
      BY <1>1, <2>1, ReadUntilInReach
    <2>3. TypeOK'
      BY <1>1, <1>2, <2>2 DEF TypeOK, Level
    <2>4. InReach'
      BY <1>2, <2>2 DEF InReach
    <2> QED
      BY <2>3, <2>4 DEF IInv
  <1>4. CASE ~reversing
    <2>1. controls' = controls
      BY <1>4 DEF BeginFrame
    <2>2. TypeOK'
      BY <1>1, <1>2, <2>1 DEF TypeOK
    <2>3. ~paused => InReach
      BY <1>1, <1>4 DEF IInv
    <2>4. ~paused' => InReach'
      BY <1>2, <2>1, <2>3 DEF InReach
    <2> QED
      BY <2>2, <2>4 DEF IInv
  <1> QED
    BY <1>3, <1>4

LEMMA PausedStep ==
  ASSUME IInv, NEW flag \in BOOLEAN, Paused(flag),
         UNCHANGED <<at, played, backups, reversing, seams>>
  PROVE  IInv'
  <1>1. TypeOK
    BY DEF IInv
  <1>2. CASE flag
    <2>1. controls' = controls /\ paused' = TRUE
      BY <1>2 DEF Paused
    <2>2. TypeOK'
      BY <1>1, <2>1 DEF TypeOK
    <2> QED
      BY <2>1, <2>2 DEF IInv
  <1>3. CASE ~flag
    <2>1. PICK key \in Key : controls' = ReadUntil(CycleOf(played), key)
      BY <1>3 DEF Paused
    <2>2. paused' = FALSE
      BY <1>3 DEF Paused
    <2>3. controls' \in Level /\ Len(controls') \in Len(played) .. Len(played) + StartingCycles + 1
      BY <1>1, <2>1, ReadUntilInReach
    <2>4. TypeOK'
      BY <1>1, <2>2, <2>3 DEF TypeOK, Level
    <2>5. InReach'
      BY <2>3 DEF InReach
    <2> QED
      BY <2>4, <2>5 DEF IInv
  <1> QED
    BY <1>2, <1>3

(* The slider ends with the record.                                          *)
LEMMA TargetInRecord ==
  ASSUME TypeOK, NEW target_frame \in Frames
  PROVE  target_frame \in Int /\ target_frame <= Len(controls)
  <1>1. /\ Len(controls) \in Nat /\ StartingCycles \in Nat
        /\ CycleOf(played) \in Nat /\ backups \in Seq(Level)
    BY Widths
  <1>2. FirstFrame \in Int
    <2>1. CASE backups = << >>
      BY <1>1, <2>1 DEF FirstFrame
    <2>2. CASE backups # << >>
      <3>1. Head(backups) \in Level
        BY <1>1, <2>2, HeadTailProperties
      <3> QED
        BY <1>1, <2>2, <3>1 DEF FirstFrame, CycleOf, Level
    <2> QED
      BY <2>1, <2>2
  <1> QED
    BY <1>1, <1>2 DEF Frames, LastFrame

LEMMA HistoryChangeStep ==
  ASSUME IInv, NEW target_frame \in Frames, HistoryChange(target_frame)
  PROVE  IInv'
  <1>1. TypeOK /\ paused
    BY DEF IInv, HistoryChange
  <1>2. UNCHANGED <<at, controls, paused, reversing>>
    BY DEF HistoryChange
  <1>3. /\ Len(played) \in Nat /\ Len(controls) \in Nat /\ StartingCycles \in Nat
        /\ CycleOf(played) \in Nat /\ played \in Level /\ backups \in Seq(Level)
        /\ Len(backups) <= MaxBackups
    BY <1>1, Widths
  <1>4. \A i \in DOMAIN backups : backups[i] \in Level
    BY <1>3, ElementOfSeq
  <1>5. target_frame \in Int /\ target_frame <= Len(controls)
    BY <1>1, TargetInRecord
  <1>6. seams' \subseteq {"rewound", "reset", "skipped"}
    BY <1>1 DEF HistoryChange, Skipped, TypeOK
  <1>7. played' \in Level /\ backups' \in Seq(Level) /\ Len(backups') <= MaxBackups
    <2>1. CASE target_frame < CycleOf(played)
      <3>1. ReverseToCycle(target_frame)
        <4>1. target_frame \in Int /\ CycleOf(played) \in Int
          BY <1>3, <1>5
        <4>2. ~(target_frame > CycleOf(played))
          BY <2>1, <4>1
        <4> QED
          BY <2>1, <4>2 DEF HistoryChange
      <3>2. CASE backups = << >> /\ ReverseOneCycle(backups)
        BY <1>1, <1>3, <3>2, ReverseOneCycleTypes
      <3>3. ASSUME NEW n \in DOMAIN backups, ReverseOneCycle(SubSeq(backups, 1, n))
            PROVE  played' \in Level /\ backups' \in Seq(Level) /\ Len(backups') <= MaxBackups
        <4> DEFINE s == SubSeq(backups, 1, n)
        <4>1. Len(backups) \in Nat /\ n \in 1 .. Len(backups)
          BY <1>3
        <4>2. s \in Seq(Level) /\ Len(s) = n - 1 + 1
          BY <1>3, <4>1, PartOf
        <4>3. ReverseOneCycle(s)
          BY <3>3
        <4> HIDE DEF s
        <4>4. Len(s) <= MaxBackups
          BY <1>3, <4>1, <4>2, HistoryAssumption
        <4> QED
          BY <1>1, <4>2, <4>3, <4>4, ReverseOneCycleTypes
      <3> QED
        BY <3>1, <3>2, <3>3 DEF ReverseToCycle
    <2>2. CASE target_frame > CycleOf(played)
      <3> DEFINE n == target_frame - CycleOf(played)
      <3>1. n \in Int /\ n >= 1 /\ Len(played) + n <= Len(controls)
        BY <1>3, <1>5, <2>2 DEF CycleOf
      <3>2. played' = Last(Ahead(n)) /\ backups' = BackedUp(backups, Ahead(n))
        BY <1>3, <1>5, <2>2 DEF HistoryChange
      <3> HIDE DEF n
      <3>3. Ahead(n) \in Seq(Level) /\ Len(Ahead(n)) = n
        BY <1>1, <3>1, AheadLevels
      <3>4. Ahead(n)[n] \in Level
        BY <3>1, <3>3, ElementOfSeq
      <3>5. played' = Ahead(n)[n]
        BY <3>2, <3>3 DEF Last
      <3> QED
        BY <1>3, <3>2, <3>3, <3>4, <3>5, BackedUpLevels
    <2>3. CASE target_frame = CycleOf(played)
      <3>1. UNCHANGED <<played, backups>>
        BY <1>3, <2>3 DEF HistoryChange
      <3> QED
        BY <1>3, <3>1
    <2> QED
      BY <1>3, <1>5, <2>1, <2>2, <2>3
  <1>8. TypeOK'
    BY <1>1, <1>2, <1>6, <1>7 DEF TypeOK, Level
  <1> QED
    BY <1>1, <1>2, <1>8 DEF IInv

LEMMA PredictFutureStep ==
  ASSUME IInv, NEW nframes \in Nat, PredictFuture(nframes)
  PROVE  IInv'
  <1> DEFINE own == BackedUp(backups, <<played>>)
             before == Front(own)
             there == IF nframes = 0 THEN played ELSE Last(Ahead(nframes))
             forth == BackedUp(before, Ahead(nframes))
             traced == BackedUp(forth, <<there>>)
  <1>1. TypeOK /\ paused
    BY DEF IInv, PredictFuture
  <1>2. UNCHANGED <<at, played, controls, paused, reversing, seams>>
    BY DEF PredictFuture
  <1>3. backups' = SubSeq(traced, 1, Len(before))
    BY DEF PredictFuture, Resized
  <1>4. /\ Len(played) \in Nat /\ Len(controls) \in Nat /\ StartingCycles \in Nat
        /\ played \in Level /\ backups \in Seq(Level)
    BY <1>1, Widths
  <1>5. own \in Seq(Level) /\ Len(own) <= MaxBackups /\ Len(own) >= 1
    <2>1. <<played>> \in Seq(Level) /\ <<played>> # << >>
      BY <1>4
    <2> QED
      BY <1>4, <2>1, BackedUpLevels
  <1>6. before \in Seq(Level) /\ Len(before) <= MaxBackups
    <2> HIDE DEF own
    <2>1. Len(own) \in Nat /\ MaxBackups \in Nat
      BY <1>5, HistoryAssumption
    <2>2. 1 \in Int /\ Len(own) - 1 \in Int /\ 1 >= 1 /\ Len(own) - 1 <= Len(own)
      BY <2>1
    <2>3. SubSeq(own, 1, Len(own) - 1) \in Seq(Level)
          /\ Len(SubSeq(own, 1, Len(own) - 1)) = IF 1 <= Len(own) - 1 THEN (Len(own) - 1) - 1 + 1 ELSE 0
      BY <1>5, <2>2, PartOf
    <2>4. Len(SubSeq(own, 1, Len(own) - 1)) <= MaxBackups
      BY <1>5, <2>1, <2>3
    <2> QED
      BY <2>3, <2>4 DEF Front
  <1>7. Len(played) + nframes <= Len(controls) \/ nframes = 0
    BY <1>4 DEF PredictFuture, LastFrame, CycleOf
  <1>8. Ahead(nframes) \in Seq(Level) /\ there \in Level
    <2>1. CASE nframes = 0
      <3>1. there = played
        BY <2>1
      <3>2. Ahead(nframes) = [i \in 1 .. 0 |-> played \o SubSeq(controls, Len(played) + 1, Len(played) + i)]
        BY <2>1 DEF Ahead
      <3>3. Ahead(nframes) = << >>
        BY <3>2
      <3>4. << >> \in Seq(Level)
        OBVIOUS
      <3> QED
        BY <1>4, <3>1, <3>3, <3>4
    <2>2. CASE nframes # 0
      <3>1. nframes \in Int /\ nframes >= 1 /\ Len(played) + nframes <= Len(controls)
        BY <1>7, <2>2
      <3>2. Ahead(nframes) \in Seq(Level) /\ Len(Ahead(nframes)) = nframes
        BY <1>1, <3>1, AheadLevels
      <3>3. Ahead(nframes)[nframes] \in Level
        BY <3>1, <3>2, ElementOfSeq
      <3> QED
        BY <2>2, <3>2, <3>3 DEF Last
    <2> QED
      BY <2>1, <2>2
  <1> HIDE DEF before, there
  <1>9. forth \in Seq(Level) /\ Len(forth) <= MaxBackups /\ Len(forth) >= Len(before)
    BY <1>6, <1>8, BackedUpLevels
  <1> HIDE DEF forth
  <1>10. traced \in Seq(Level) /\ Len(traced) >= Len(forth)
    <2>1. <<there>> \in Seq(Level)
      BY <1>8
    <2> QED
      BY <1>9, <2>1, BackedUpLevels
  <1> HIDE DEF traced
  <1>11. Len(before) \in Nat /\ Len(forth) \in Nat /\ Len(traced) \in Nat
    BY <1>6, <1>9, <1>10
  <1>12. 1 \in Int /\ 1 >= 1 /\ Len(before) \in Int /\ Len(before) <= Len(traced)
    BY <1>9, <1>10, <1>11
  <1>13. backups' \in Seq(Level)
         /\ Len(backups') = IF 1 <= Len(before) THEN Len(before) - 1 + 1 ELSE 0
    BY <1>3, <1>10, <1>12, PartOf
  <1>14. Len(backups') <= MaxBackups
    BY <1>6, <1>11, <1>13, HistoryAssumption
  <1>15. TypeOK'
    BY <1>1, <1>2, <1>13, <1>14 DEF TypeOK, Level
  <1> QED
    BY <1>1, <1>2, <1>15 DEF IInv

LEMMA ResetSteps ==
  ASSUME IInv, ResetPlayingLevel \/ StartEditor
  PROVE  IInv'
  <1>1. TypeOK /\ StartingCycles \in Nat
    BY Widths DEF IInv
  <1>2. played' = << >> /\ backups' = backups /\ UNCHANGED <<at, reversing>>
        /\ seams' = seams \union {"reset"}
    BY DEF ResetPlayingLevel, StartEditor, Reset
  <1>3. << >> \in Level /\ Len(<< >>) = 0
    BY DEF Level
  <1>4. paused' \in BOOLEAN
    BY <1>1 DEF ResetPlayingLevel, StartEditor, TypeOK
  <1>5. controls' \in Level /\ (~paused' => Len(controls') \in 0 .. StartingCycles + 1)
    <2>1. CASE ResetPlayingLevel
      BY <1>1, <1>3, <2>1 DEF ResetPlayingLevel
    <2>2. CASE StartEditor /\ ~paused
      BY <1>1, <1>3, <2>2 DEF StartEditor
    <2>3. CASE StartEditor /\ paused
      <3>1. PICK key \in Key : controls' = [i \in 1 .. StartingCycles + 1 |-> key]
        BY <2>3 DEF StartEditor
      <3>2. StartingCycles + 1 \in Nat
        BY <1>1
      <3>3. controls' \in Level /\ Len(controls') = StartingCycles + 1
        BY <3>1, <3>2 DEF Level
      <3> QED
        BY <1>1, <3>3
    <2> QED
      BY <2>1, <2>2, <2>3
  <1>6. TypeOK'
    BY <1>1, <1>2, <1>3, <1>4, <1>5 DEF TypeOK, Level
  <1>7. ~paused' => InReach'
    BY <1>1, <1>2, <1>3, <1>5 DEF InReach
  <1> QED
    BY <1>6, <1>7 DEF IInv

LEMMA EndFrameStep ==
  ASSUME IInv, EndFrame
  PROVE  IInv'
  <1>1. TypeOK /\ at = "events" /\ at' = "top" /\ UNCHANGED <<paused, reversing>>
    BY DEF IInv, EndFrame
  <1>2. /\ Len(played) \in Nat /\ Len(controls) \in Nat /\ StartingCycles \in Nat
        /\ played \in Level /\ controls \in Level /\ backups \in Seq(Level)
    BY <1>1, Widths
  <1>3. seams' \subseteq {"rewound", "reset", "skipped"}
    BY <1>1 DEF EndFrame, Skipped, TypeOK
  <1>4. played' \in Level /\ controls' \in Level /\ (~paused => InReach')
    <2>1. CASE paused
      BY <1>2, <2>1 DEF EndFrame
    <2>2. CASE ~paused
      <3>1. PICK key \in Key : controls' = Append(controls, key)
        BY <2>2 DEF EndFrame
      <3>2. controls' \in Level /\ Len(controls') = Len(controls) + 1
        BY <1>2, <3>1, AppendProperties DEF Level
      <3>3. Len(controls) \in Len(played) .. Len(played) + StartingCycles + 1
        BY <1>1, <2>2 DEF IInv, InReach
      <3>4. Len(played) + 1 \in 1 .. Len(controls')
        BY <1>2, <3>2, <3>3
      <3>5. controls'[Len(played) + 1] \in Key
        BY <3>2, <3>4, ElementOfSeq DEF Level
      <3>6. played' = Append(played, controls'[Len(played) + 1])
        BY <2>2 DEF EndFrame, Processed, Input
      <3>7. played' \in Level /\ Len(played') = Len(played) + 1
        BY <1>2, <3>5, <3>6, AppendProperties DEF Level
      <3>8. InReach'
        BY <1>2, <3>2, <3>3, <3>7 DEF InReach
      <3> QED
        BY <3>2, <3>7, <3>8
    <2> QED
      BY <2>1, <2>2
  <1>5. backups' \in Seq(Level) /\ Len(backups') <= MaxBackups
    <2>1. <<played'>> \in Seq(Level)
      BY <1>4
    <2>2. backups' = BackedUp(backups, <<played'>>)
      BY DEF EndFrame
    <2> QED
      BY <1>2, <2>1, <2>2, BackedUpLevels
  <1>6. TypeOK'
    BY <1>1, <1>3, <1>4, <1>5 DEF TypeOK, Level
  <1> QED
    BY <1>1, <1>4, <1>6 DEF IInv

LEMMA NextInv == IInv /\ [Next]_vars => IInv'
  <1> SUFFICES ASSUME IInv, [Next]_vars
               PROVE  IInv'
    OBVIOUS
  <1>1. CASE TogglePause
    <2>1. CASE paused
      <3>1. Paused(FALSE)
        BY <1>1, <2>1 DEF TogglePause, Paused
      <3> QED
        BY <1>1, <3>1, PausedStep DEF TogglePause
    <2>2. CASE ~paused
      <3>1. Paused(TRUE)
        BY <1>1, <2>2 DEF TogglePause, Paused
      <3> QED
        BY <1>1, <3>1, PausedStep DEF TogglePause
    <2> QED
      BY <2>1, <2>2
  <1>2. CASE CloseEditor
    BY <1>2, PausedStep DEF CloseEditor
  <1>3. ASSUME NEW target_frame \in Frames, HistoryChange(target_frame)
        PROVE  IInv'
    BY <1>3, HistoryChangeStep
  <1>4. ASSUME NEW nframes \in 0 .. Len(controls), PredictFuture(nframes)
        PROVE  IInv'
    <2>1. Len(controls) \in Nat
      BY Widths DEF IInv
    <2>2. nframes \in Nat
      BY <2>1
    <2> QED
      BY <1>4, <2>2, PredictFutureStep
  <1>5. CASE UNCHANGED vars
    BY <1>5 DEF vars, IInv, TypeOK, InReach
  <1> QED
    BY <1>1, <1>2, <1>3, <1>4, <1>5, ReverseCycleStep, BeginFrameStep, ResetSteps, EndFrameStep
       DEF Next

THEOREM HistoryInvariant == Spec => []IInv
  BY InitInv, NextInv, PTL DEF Spec

(* Never more snapshots than are to be kept, whatever order they are taken,  *)
(* dropped and cut off in.                                                   *)
THEOREM HistoryTypes == Spec => []TypeOK
  <1>1. IInv => TypeOK
    BY DEF IInv
  <1> QED
    BY <1>1, HistoryInvariant, PTL

(* The assertion of get_control_status holds, and a key waits at most one    *)
(* cycle and the cycles the level started with.                              *)
THEOREM InputsAreInReach == Spec => []InputInReach
  <1>1. IInv => InputInReach
    BY DEF IInv, InReach, InputInReach
  <1> QED
    BY <1>1, HistoryInvariant, PTL

(* -------------------------------- the past ------------------------------- *)

(* What happens until a seam: a state x of the past, or the present, is the  *)
(* first inputs of the record.                                               *)
PrefixOf(x, cs) == Len(x) <= Len(cs) /\ \A k \in 1 .. Len(x) : x[k] = cs[k]

Known(s, cs) == \A i \in 1 .. Len(s) : PrefixOf(s[i], cs)

(* Snapshots are one cycle apart and reach up to the present, or the cycle   *)
(* before it; b of them are of earlier cycles.                               *)
Chain(s, level, b) ==
  /\ b <= Len(s) /\ Len(s) <= b + 1 /\ b < MaxBackups
  /\ \A i \in 1 .. Len(s) : Len(s[i]) = Len(level) - b + i - 1

(* Even when all inputs recorded are played, with a snapshot of every cycle, *)
(* no old snapshot has to be dropped.                                        *)
Room(cs, level, b) == b + Len(cs) <= MaxBackups + Len(level) + StartingCycles

Whole ==
  /\ ~reversing
  /\ PrefixOf(played, controls)
  /\ Known(backups, controls)
  /\ \E b \in Nat : Chain(backups, played, b) /\ Room(controls, played, b)

WholeInv == seams = {} => Whole

LEMMA PrefixIs ==
  ASSUME NEW x \in Level, NEW cs \in Level
  PROVE  PrefixOf(x, cs) <=> IsPrefix(x, cs)
  <1>1. Len(x) \in Nat /\ Len(cs) \in Nat
    BY DEF Level
  <1>2. SubSeq(x, 1, Len(x)) = x
    BY SubSeqFull DEF Level
  <1>3. CASE Len(x) <= Len(cs)
    <2> DEFINE t == SubSeq(cs, 1, Len(x))
    <2>1. \A i \in 1 .. Len(x) : cs[i] \in Key
      BY <1>1, <1>3, ElementOfSeq DEF Level
    <2>2. /\ t \in Seq(Key)
          /\ Len(t) = IF 1 <= Len(x) THEN Len(x) - 1 + 1 ELSE 0
          /\ \A i \in 1 .. Len(x) - 1 + 1 : t[i] = cs[1 + i - 1]
      BY <1>1, <2>1, SubSeqProperties
    <2> HIDE DEF t
    <2>3. Len(t) = Len(x) /\ \A i \in 1 .. Len(x) : t[i] = cs[i]
      BY <1>1, <2>2
    <2>4. (\A k \in 1 .. Len(x) : x[k] = cs[k]) => x = t
      BY <2>2, <2>3, SeqEqual DEF Level
    <2>5. x = t => \A k \in 1 .. Len(x) : x[k] = cs[k]
      BY <2>3
    <2>6. PrefixOf(x, cs) <=> x = t
      BY <1>3, <2>4, <2>5 DEF PrefixOf
    <2>7. IsPrefix(x, cs) <=> x = t
      BY <1>2, <1>3 DEF IsPrefix, t
    <2> QED
      BY <2>6, <2>7
  <1> QED
    BY <1>3 DEF PrefixOf, IsPrefix

(* A record that goes on in another way keeps the past it has.               *)
LEMMA PrefixKept ==
  ASSUME NEW x \in Level, NEW cs \in Level, NEW ds \in Level, PrefixOf(x, cs),
         Len(x) <= Len(ds), \A k \in 1 .. Len(x) : cs[k] = ds[k]
  PROVE  PrefixOf(x, ds)
  BY DEF PrefixOf

(* backup, of states that go on from the snapshots.                          *)
LEMMA NewestChain ==
  ASSUME NEW q \in Seq(Level), NEW c \in Int, NEW level \in Level, NEW cs \in Level,
         Len(q) >= 1, Len(level) = c + Len(q), Known(q, cs),
         \A i \in 1 .. Len(q) : Len(q[i]) = c + i
  PROVE  LET r == Newest(q)
         IN /\ r \in Seq(Level)
            /\ Len(r) >= 1 /\ Len(r) <= Len(q)
            /\ Known(r, cs)
            /\ Chain(r, level, Len(r) - 1)
  <1> DEFINE i0 == IF Len(q) > MaxBackups THEN Len(q) - MaxBackups + 1 ELSE 1
             r == Newest(q)
  <1>1. Len(q) \in Nat /\ MaxBackups \in Nat \ {0} /\ Len(level) \in Nat
    BY HistoryAssumption DEF Level
  <1>2. i0 \in Int /\ i0 >= 1 /\ i0 <= Len(q) /\ Len(q) - i0 + 1 <= MaxBackups
    BY <1>1
  <1>3. r = SubSeq(q, i0, Len(q))
    BY DEF Newest
  <1> HIDE DEF i0
  <1>4. \A i \in i0 .. Len(q) : q[i] \in Level
    BY <1>1, <1>2, ElementOfSeq
  <1>5. /\ r \in Seq(Level)
        /\ Len(r) = IF i0 <= Len(q) THEN Len(q) - i0 + 1 ELSE 0
        /\ \A i \in 1 .. Len(q) - i0 + 1 : r[i] = q[i0 + i - 1]
    BY <1>1, <1>2, <1>3, <1>4, SubSeqProperties
  <1> HIDE DEF r
  <1>6. Len(r) = Len(q) - i0 + 1 /\ Len(r) >= 1 /\ Len(r) <= Len(q) /\ Len(r) <= MaxBackups
    BY <1>1, <1>2, <1>5
  <1>7. ASSUME NEW i \in 1 .. Len(r)
        PROVE  r[i] = q[i0 + i - 1] /\ i0 + i - 1 \in 1 .. Len(q)
    <2>1. i \in 1 .. Len(q) - i0 + 1
      BY <1>6
    <2>2. r[i] = q[i0 + i - 1]
      BY <1>5, <2>1
    <2>3. i0 + i - 1 \in 1 .. Len(q)
      BY <1>1, <1>2, <2>1
    <2> QED
      BY <2>2, <2>3
  <1>8. Known(r, cs)
    BY <1>7 DEF Known
  <1>9. Chain(r, level, Len(r) - 1)
    <2>1. ASSUME NEW i \in 1 .. Len(r)
          PROVE  Len(r[i]) = Len(level) - (Len(r) - 1) + i - 1
      <3>1. Len(r[i]) = c + (i0 + i - 1)
        BY <1>7
      <3> QED
        BY <1>1, <1>2, <1>6, <3>1
    <2> QED
      BY <1>1, <1>6, <2>1 DEF Chain
  <1> QED
    BY <1>5, <1>6, <1>8, <1>9 DEF r

(* Snapshots that need not be dropped are not.                               *)
LEMMA NewestAll ==
  ASSUME NEW q \in Seq(Level), Len(q) <= MaxBackups
  PROVE  Newest(q) = q
  <1>1. Len(q) \in Nat /\ MaxBackups \in Nat
    BY HistoryAssumption
  <1>2. ~(Len(q) > MaxBackups)
    BY <1>1
  <1>3. Newest(q) = SubSeq(q, 1, Len(q))
    BY <1>2 DEF Newest
  <1> QED
    BY <1>3, SubSeqFull

LEMMA KnownConcat ==
  ASSUME NEW s \in Seq(Level), NEW t \in Seq(Level), NEW cs, Known(s, cs), Known(t, cs)
  PROVE  Known(s \o t, cs)
  <1>1. Len(s) \in Nat /\ Len(t) \in Nat
    OBVIOUS
  <1>2. Len(s \o t) = Len(s) + Len(t)
        /\ \A i \in 1 .. Len(s) + Len(t) : (s \o t)[i] = IF i <= Len(s) THEN s[i] ELSE t[i - Len(s)]
    BY ConcatProperties
  <1>3. ASSUME NEW i \in 1 .. Len(s) + Len(t)
        PROVE  PrefixOf((s \o t)[i], cs)
    <2>1. CASE i <= Len(s)
      <3>1. i \in 1 .. Len(s)
        BY <1>1, <2>1
      <3> QED
        BY <1>2, <2>1, <3>1 DEF Known
    <2>2. CASE ~(i <= Len(s))
      <3>1. i - Len(s) \in 1 .. Len(t)
        BY <1>1, <2>2
      <3> QED
        BY <1>2, <2>2, <3>1 DEF Known
    <2> QED
      BY <2>1, <2>2
  <1> QED
    BY <1>2, <1>3 DEF Known

(* No snapshot is left out when the first state has another cycle.           *)
LEMMA NotYetNew ==
  ASSUME NEW s \in Seq(Level), NEW l \in Seq(Level),
         s # << >> /\ l # << >> => Len(s[Len(s)]) # Len(l[1])
  PROVE  NotYet(s, l) = l
  <1>1. CASE s = << >> \/ l = << >>
    BY <1>1 DEF NotYet
  <1>2. CASE s # << >> /\ l # << >>
    <2>1. Len(s) \in Nat \ {0} /\ Len(l) \in Nat \ {0}
      BY <1>2, EmptySeq
    <2>2. Len(s) \in 1 .. Len(s) /\ 1 \in 1 .. Len(l)
      BY <2>1
    <2>3. s[Len(s)] \in Level /\ l[1] \in Level
      BY <2>2, ElementOfSeq
    <2>4. Len(s[Len(s)]) \in Nat /\ Len(l[1]) \in Nat /\ StartingCycles \in Nat
      BY <2>3, HistoryAssumption DEF Level
    <2>5. CycleOf(Last(s)) # CycleOf(Head(l))
      BY <1>2, <2>4 DEF CycleOf, Last
    <2> QED
      BY <2>5 DEF NotYet
  <1> QED
    BY <1>1, <1>2

(* Backing up the states that follow the snapshots.                          *)
LEMMA BackUpNext ==
  ASSUME NEW s \in Seq(Level), NEW l \in Seq(Level), NEW c \in Int,
         NEW level \in Level, NEW cs \in Level, Known(s, cs), Known(l, cs),
         Len(l) >= 1, Len(level) = c + Len(s) + Len(l),
         \A i \in 1 .. Len(s) : Len(s[i]) = c + i,
         \A i \in 1 .. Len(l) : Len(l[i]) = c + Len(s) + i
  PROVE  LET r == BackedUp(s, l)
         IN /\ r \in Seq(Level)
            /\ Len(r) >= 1 /\ Len(r) <= Len(s) + Len(l)
            /\ Known(r, cs)
            /\ Chain(r, level, Len(r) - 1)
            /\ Len(s) + Len(l) <= MaxBackups => r = s \o l
  <1> DEFINE q == s \o l
  <1>1. Len(s) \in Nat /\ Len(l) \in Nat
    OBVIOUS
  <1>2. s # << >> => Len(s[Len(s)]) # Len(l[1])
    <2> SUFFICES ASSUME s # << >>
                 PROVE  Len(s[Len(s)]) # Len(l[1])
      OBVIOUS
    <2>1. Len(s) >= 1
      BY EmptySeq
    <2>2. Len(s) \in 1 .. Len(s) /\ 1 \in 1 .. Len(l)
      BY <1>1, <2>1
    <2>3. Len(s[Len(s)]) = c + Len(s) /\ Len(l[1]) = c + Len(s) + 1
      BY <2>2
    <2> QED
      BY <1>1, <2>3
  <1>3. BackedUp(s, l) = Newest(q)
    BY <1>2, NotYetNew DEF BackedUp
  <1>4. q \in Seq(Level) /\ Len(q) = Len(s) + Len(l)
        /\ \A i \in 1 .. Len(s) + Len(l) : q[i] = IF i <= Len(s) THEN s[i] ELSE l[i - Len(s)]
    BY ConcatProperties
  <1>5. Known(q, cs)
    BY KnownConcat
  <1> HIDE DEF q
  <1>6. ASSUME NEW i \in 1 .. Len(q)
        PROVE  Len(q[i]) = c + i
    <2>1. CASE i <= Len(s)
      <3>1. i \in 1 .. Len(s) /\ i \in 1 .. Len(s) + Len(l)
        BY <1>1, <1>4, <2>1
      <3> QED
        BY <1>4, <2>1, <3>1
    <2>2. CASE ~(i <= Len(s))
      <3>1. i - Len(s) \in 1 .. Len(l) /\ i \in 1 .. Len(s) + Len(l)
        BY <1>1, <1>4, <2>2
      <3>2. q[i] = l[i - Len(s)]
        BY <1>4, <2>2, <3>1
      <3>3. Len(l[i - Len(s)]) = c + Len(s) + (i - Len(s))
        BY <3>1
      <3> QED
        BY <1>1, <3>2, <3>3
    <2> QED
      BY <2>1, <2>2
  <1>7. Len(q) >= 1 /\ Len(level) = c + Len(q)
    BY <1>1, <1>4
  <1>8. LET r == Newest(q)
        IN /\ r \in Seq(Level)
           /\ Len(r) >= 1 /\ Len(r) <= Len(q)
           /\ Known(r, cs)
           /\ Chain(r, level, Len(r) - 1)
    BY <1>4, <1>5, <1>6, <1>7, NewestChain
  <1>9. Len(s) + Len(l) <= MaxBackups => Newest(q) = q
    BY <1>4, NewestAll
  <1> QED
    BY <1>3, <1>4, <1>8, <1>9 DEF q

(* Backing up the present state, which may have a snapshot already.          *)
LEMMA BackUpPresent ==
  ASSUME NEW s \in Seq(Level), NEW level \in Level, NEW cs \in Level, NEW b \in Nat,
         Known(s, cs), PrefixOf(level, cs), Chain(s, level, b)
  PROVE  LET r == BackedUp(s, <<level>>)
         IN /\ r \in Seq(Level)
            /\ Len(r) = b + 1
            /\ Known(r, cs)
            /\ Chain(r, level, b)
  <1> DEFINE l == <<level>>
  <1>1. l \in Seq(Level) /\ Len(l) = 1 /\ l[1] = level /\ l # << >>
    OBVIOUS
  <1>2. Len(s) \in Nat /\ Len(level) \in Nat /\ MaxBackups \in Nat
        /\ (Len(s) = b \/ Len(s) = b + 1) /\ b < MaxBackups
    BY HistoryAssumption DEF Chain, Level
  <1>3. Known(l, cs)
    BY <1>1 DEF Known
  <1>4. CASE Len(s) = b
    <2> DEFINE c == Len(level) - b - 1
    <2>1. c \in Int /\ Len(level) = c + Len(s) + Len(l) /\ Len(s) + Len(l) <= MaxBackups
      BY <1>1, <1>2, <1>4
    <2>2. \A i \in 1 .. Len(s) : Len(s[i]) = c + i
      BY <1>2 DEF Chain
    <2>3. \A i \in 1 .. Len(l) : Len(l[i]) = c + Len(s) + i
      BY <1>1, <1>2, <1>4
    <2> HIDE DEF c, l
    <2>4. /\ BackedUp(s, l) \in Seq(Level)
          /\ Known(BackedUp(s, l), cs)
          /\ Chain(BackedUp(s, l), level, Len(BackedUp(s, l)) - 1)
          /\ BackedUp(s, l) = s \o l
      <3>1. Len(l) >= 1
        BY <1>1
      <3>2. LET r == BackedUp(s, l)
            IN /\ r \in Seq(Level)
               /\ Len(r) >= 1 /\ Len(r) <= Len(s) + Len(l)
               /\ Known(r, cs)
               /\ Chain(r, level, Len(r) - 1)
               /\ Len(s) + Len(l) <= MaxBackups => r = s \o l
        BY <1>1, <1>3, <2>1, <2>2, <2>3, <3>1, BackUpNext
      <3> QED
        BY <2>1, <3>2
    <2>5. Len(s \o l) = b + 1
      BY <1>1, <1>4, ConcatProperties, SMTT(30)
    <2>6. Len(BackedUp(s, l)) - 1 = b
      BY <1>2, <2>4, <2>5
    <2> QED
      BY <2>4, <2>5, <2>6 DEF l
  <1>5. CASE Len(s) = b + 1
    <2>1. Len(s) \in 1 .. Len(s) /\ s # << >>
      BY <1>2, <1>5, EmptySeq
    <2>2. Len(s[Len(s)]) = Len(level)
      <3>1. Len(s[Len(s)]) = Len(level) - b + Len(s) - 1
        BY <2>1 DEF Chain
      <3> QED
        BY <1>2, <1>5, <3>1
    <2>3. NotYet(s, l) = Tail(l)
      BY <1>1, <2>1, <2>2 DEF NotYet, CycleOf, Last
    <2>4. Tail(l) = << >>
      BY <1>1
    <2>5. BackedUp(s, l) = Newest(s)
      BY <2>3, <2>4, ConcatEmptySeq DEF BackedUp
    <2>6. Newest(s) = s
      BY <1>2, <1>5, NewestAll
    <2> QED
      BY <1>5, <2>5, <2>6
  <1> QED
    BY <1>2, <1>4, <1>5

(* No snapshot is of the future.                                             *)
LEMMA SnapshotsPast ==
  ASSUME TypeOK, NEW b \in Nat, Chain(backups, played, b)
  PROVE  \A i \in 1 .. Len(backups) :
           backups[i] \in Level /\ Len(backups[i]) \in Nat /\ Len(backups[i]) <= Len(played)
  <1>1. backups \in Seq(Level) /\ Len(backups) \in Nat /\ Len(played) \in Nat
    BY Widths
  <1>2. Len(backups) <= b + 1
    BY DEF Chain
  <1> SUFFICES ASSUME NEW i \in 1 .. Len(backups)
               PROVE  backups[i] \in Level /\ Len(backups[i]) \in Nat
                      /\ Len(backups[i]) <= Len(played)
    OBVIOUS
  <1>3. backups[i] \in Level
    BY <1>1, ElementOfSeq
  <1>4. Len(backups[i]) = Len(played) - b + i - 1
    BY DEF Chain
  <1> QED
    BY <1>1, <1>2, <1>3, <1>4 DEF Level

(* The past is in a record that goes on from the present in another way.     *)
LEMMA RecordKept ==
  ASSUME TypeOK, Whole, NEW cs \in Level, Len(played) <= Len(cs),
         \A k \in 1 .. Len(played) : controls[k] = cs[k]
  PROVE  PrefixOf(played, cs) /\ Known(backups, cs)
  <1>1. played \in Level /\ controls \in Level /\ Len(played) \in Nat /\ Len(cs) \in Nat
    BY Widths DEF Level
  <1>2. PrefixOf(played, cs)
    BY <1>1, PrefixKept DEF Whole
  <1>3. PICK b \in Nat : Chain(backups, played, b)
    BY DEF Whole
  <1>4. ASSUME NEW i \in 1 .. Len(backups)
        PROVE  PrefixOf(backups[i], cs)
    <2>1. backups[i] \in Level /\ Len(backups[i]) \in Nat /\ Len(backups[i]) <= Len(played)
      BY <1>3, SnapshotsPast
    <2>2. PrefixOf(backups[i], controls)
      BY DEF Whole, Known
    <2>3. Len(backups[i]) <= Len(cs) /\ \A k \in 1 .. Len(backups[i]) : controls[k] = cs[k]
      BY <1>1, <2>1
    <2> QED
      BY <1>1, <2>1, <2>2, <2>3, PrefixKept
  <1> QED
    BY <1>2, <1>4 DEF Known

(* read_until changes no input of the past.                                  *)
LEMMA ReadUntilKeeps ==
  ASSUME TypeOK, PrefixOf(played, controls), NEW key \in Key
  PROVE  /\ ReadUntil(CycleOf(played), key) \in Level
         /\ Len(ReadUntil(CycleOf(played), key)) = Len(played) + StartingCycles + 1
         /\ \A k \in 1 .. Len(played) : controls[k] = ReadUntil(CycleOf(played), key)[k]
  <1> DEFINE n == CycleOf(played)
  <1>1. /\ controls \in Level /\ Len(controls) \in Nat /\ Len(played) \in Nat
        /\ StartingCycles \in Nat /\ n \in Nat /\ n = StartingCycles + Len(played)
        /\ Len(played) <= Len(controls)
    BY Widths DEF CycleOf, PrefixOf
  <1> HIDE DEF n
  <1>2. ReadUntil(n, key) \in Level /\ Len(ReadUntil(n, key)) = n + 1
    BY <1>1, ReadUntilInputs
  <1>3. \A k \in 1 .. Len(played) : controls[k] = ReadUntil(n, key)[k]
    <2>1. CASE Len(controls) <= n
      <3> DEFINE new == [i \in 1 .. n + 1 - Len(controls) |-> key]
      <3>1. n + 1 - Len(controls) \in Nat
        BY <1>1, <2>1
      <3>2. new \in Level
        BY <3>1 DEF Level
      <3>3. ReadUntil(n, key) = controls \o new
        BY <2>1 DEF ReadUntil
      <3> HIDE DEF new
      <3>4. \A k \in 1 .. Len(controls) : (controls \o new)[k] = controls[k]
        BY <1>1, <3>2, ConcatProperties DEF Level
      <3> QED
        BY <1>1, <3>3, <3>4
    <2>2. CASE ~(Len(controls) <= n)
      <3>1. ReadUntil(n, key) = SubSeq(controls, 1, n + 1)
        BY <2>2 DEF ReadUntil
      <3>2. n + 1 \in Int /\ n + 1 >= 1 /\ n + 1 <= Len(controls)
        BY <1>1, <2>2
      <3>3. \A k \in 1 .. n + 1 : controls[k] \in Key
        BY <1>1, <3>2, ElementOfSeq DEF Level
      <3>4. \A k \in 1 .. (n + 1) - 1 + 1 : SubSeq(controls, 1, n + 1)[k] = controls[1 + k - 1]
        BY <1>1, <3>2, <3>3, SubSeqProperties
      <3>5. ASSUME NEW k \in 1 .. Len(played)
            PROVE  controls[k] = SubSeq(controls, 1, n + 1)[k]
        <4>1. k \in 1 .. (n + 1) - 1 + 1 /\ 1 + k - 1 = k
          BY <1>1
        <4> QED
          BY <3>4, <4>1
      <3> QED
        BY <3>1, <3>5
    <2> QED
      BY <2>1, <2>2
  <1> QED
    BY <1>1, <1>2, <1>3 DEF n

(* Reading the keyboard.                                                     *)
LEMMA ReadUntilWhole ==
  ASSUME TypeOK, Whole, NEW key \in Key, controls' = ReadUntil(CycleOf(played), key),
         UNCHANGED <<played, backups, reversing>>
  PROVE  Whole'
  <1>1. /\ controls' \in Level /\ Len(controls') = Len(played) + StartingCycles + 1
        /\ \A k \in 1 .. Len(played) : controls[k] = controls'[k]
    BY ReadUntilKeeps DEF Whole
  <1>2. Len(played) \in Nat /\ StartingCycles \in Nat /\ MaxBackups \in Nat
    BY Widths, HistoryAssumption
  <1>3. PrefixOf(played, controls') /\ Known(backups, controls')
    BY <1>1, <1>2, RecordKept
  <1>4. PICK b \in Nat : Chain(backups, played, b)
    BY DEF Whole
  <1>5. b + 1 <= MaxBackups
    BY <1>2, <1>4 DEF Chain
  <1>6. Room(controls', played, b)
    BY <1>1, <1>2, <1>5 DEF Room
  <1> QED
    BY <1>3, <1>4, <1>6 DEF Whole

(* Where no cycle was skipped, the snapshots reach up to the present.        *)
LEMMA Unskipped ==
  ASSUME TypeOK, NEW b \in Nat, Chain(backups, played, b), Skipped = {}
  PROVE  /\ Len(backups) \in Nat /\ Len(backups) <= b + 1
         /\ \A i \in 1 .. Len(backups) :
              Len(backups[i]) = (Len(played) - Len(backups)) + i
  <1>1. backups \in Seq(Level) /\ Len(backups) \in Nat /\ Len(played) \in Nat
    BY Widths
  <1>2. b <= Len(backups) /\ Len(backups) <= b + 1
        /\ \A i \in 1 .. Len(backups) : Len(backups[i]) = Len(played) - b + i - 1
    BY DEF Chain
  <1>3. CASE backups = << >>
    BY <1>1, <1>2, <1>3
  <1>4. CASE backups # << >>
    <2>1. Len(backups) >= 1
      BY <1>1, <1>4, EmptySeq
    <2>2. backups[Len(backups)] = played
      BY <1>4 DEF Skipped, Last
    <2>3. Len(played) = Len(played) - b + Len(backups) - 1
      <3>1. Len(backups) \in 1 .. Len(backups)
        BY <1>1, <2>1
      <3>2. Len(backups[Len(backups)]) = Len(played) - b + Len(backups) - 1
        BY <1>2, <3>1
      <3> QED
        BY <2>2, <3>2
    <2>4. Len(backups) = b + 1
      BY <1>1, <2>3
    <2>5. ASSUME NEW i \in 1 .. Len(backups)
          PROVE  Len(backups[i]) = (Len(played) - Len(backups)) + i
      <3>1. Len(backups[i]) = Len(played) - b + i - 1
        BY <1>2
      <3> QED
        BY <1>1, <2>4, <3>1
    <2> QED
      BY <1>1, <1>2, <2>5
  <1> QED
    BY <1>3, <1>4

(* The states ahead, as the record has them.                                 *)
LEMMA AheadPast ==
  ASSUME TypeOK, PrefixOf(played, controls), NEW n \in Int, n >= 1,
         Len(played) + n <= Len(controls)
  PROVE  /\ Ahead(n) \in Seq(Level) /\ Len(Ahead(n)) = n
         /\ Known(Ahead(n), controls)
         /\ \A i \in 1 .. n : Len(Ahead(n)[i]) = Len(played) + i
  <1>1. /\ played \in Level /\ controls \in Level
        /\ Len(played) \in Nat /\ Len(controls) \in Nat
    BY Widths
  <1>2. Ahead(n) \in Seq(Level) /\ Len(Ahead(n)) = n
    BY AheadLevels
  <1>3. ASSUME NEW i \in 1 .. n
        PROVE  Len(Ahead(n)[i]) = Len(played) + i /\ PrefixOf(Ahead(n)[i], controls)
    <2> DEFINE more == SubSeq(controls, Len(played) + 1, Len(played) + i)
    <2>1. /\ Len(played) + 1 \in Int /\ Len(played) + i \in Int
          /\ Len(played) + 1 >= 1 /\ Len(played) + 1 <= Len(played) + i
          /\ Len(played) + i <= Len(controls)
      BY <1>1
    <2>2. \A k \in Len(played) + 1 .. Len(played) + i : controls[k] \in Key
      BY <1>1, <2>1, ElementOfSeq DEF Level
    <2>3. /\ more \in Seq(Key)
          /\ Len(more) = IF Len(played) + 1 <= Len(played) + i
                         THEN (Len(played) + i) - (Len(played) + 1) + 1 ELSE 0
          /\ \A k \in 1 .. (Len(played) + i) - (Len(played) + 1) + 1 :
               more[k] = controls[Len(played) + 1 + k - 1]
      BY <2>1, <2>2, SubSeqProperties
    <2>4. Ahead(n)[i] = played \o more
      BY DEF Ahead
    <2> HIDE DEF more
    <2>5. Len(more) = i /\ \A k \in 1 .. i : more[k] = controls[Len(played) + k]
      <3>1. (Len(played) + i) - (Len(played) + 1) + 1 = i
        BY <1>1
      <3>2. Len(more) = i
        BY <2>1, <2>3, <3>1
      <3>3. ASSUME NEW k \in 1 .. i
            PROVE  more[k] = controls[Len(played) + k]
        <4>1. more[k] = controls[Len(played) + 1 + k - 1]
          BY <2>3, <3>1
        <4>2. Len(played) + 1 + k - 1 = Len(played) + k
          BY <1>1
        <4> QED
          BY <4>1, <4>2
      <3> QED
        BY <3>2, <3>3
    <2>6. /\ Len(played \o more) = Len(played) + i
          /\ \A k \in 1 .. Len(played) + i :
               (played \o more)[k] = IF k <= Len(played) THEN played[k] ELSE more[k - Len(played)]
      BY <1>1, <2>3, <2>5, ConcatProperties DEF Level
    <2>7. ASSUME NEW k \in 1 .. Len(played) + i
          PROVE  (played \o more)[k] = controls[k]
      <3>1. CASE k <= Len(played)
        <4>1. k \in 1 .. Len(played)
          BY <1>1, <3>1
        <4> QED
          BY <2>6, <3>1, <4>1 DEF PrefixOf
      <3>2. CASE ~(k <= Len(played))
        <4>1. k - Len(played) \in 1 .. i /\ Len(played) + (k - Len(played)) = k
          BY <1>1, <3>2
        <4>2. more[k - Len(played)] = controls[Len(played) + (k - Len(played))]
          BY <2>5, <4>1
        <4> QED
          BY <2>6, <3>2, <4>1, <4>2
      <3> QED
        BY <3>1, <3>2
    <2>8. PrefixOf(played \o more, controls)
      BY <2>1, <2>6, <2>7 DEF PrefixOf
    <2> QED
      BY <2>4, <2>6, <2>8
  <1> QED
    BY <1>2, <1>3 DEF Known

(* The slider goes back: a snapshot that is kept becomes the present, with   *)
(* those before it.                                                          *)
LEMMA BackWhole ==
  ASSUME TypeOK, Whole, NEW target \in Int, ReverseToCycle(target),
         UNCHANGED <<controls, reversing>>
  PROVE  Whole'
  <1>1. /\ backups \in Seq(Level) /\ Len(backups) \in Nat
        /\ Len(played) \in Nat /\ Len(controls) \in Nat
        /\ StartingCycles \in Nat /\ MaxBackups \in Nat
    BY Widths, HistoryAssumption
  <1>2. PICK b \in Nat : Chain(backups, played, b) /\ Room(controls, played, b)
    BY DEF Whole
  <1>3. CASE backups = << >> /\ ReverseOneCycle(backups)
    BY <1>3 DEF ReverseOneCycle, Whole
  <1>4. ASSUME NEW n \in DOMAIN backups, ReverseOneCycle(SubSeq(backups, 1, n))
        PROVE  Whole'
    <2> DEFINE s == SubSeq(backups, 1, n)
               t == SubSeq(s, 1, n - 1)
    <2>1. n \in 1 .. Len(backups) /\ n \in Int /\ n >= 1 /\ n <= Len(backups)
      BY <1>1
    <2>2. \A i \in 1 .. n : backups[i] \in Level
      BY <1>1, <2>1, ElementOfSeq
    <2>3. /\ s \in Seq(Level) /\ Len(s) = IF 1 <= n THEN n - 1 + 1 ELSE 0
          /\ \A i \in 1 .. n - 1 + 1 : s[i] = backups[1 + i - 1]
      BY <1>1, <2>1, <2>2, SubSeqProperties
    <2>4. ReverseOneCycle(s)
      BY <1>4
    <2> HIDE DEF s
    <2>5. Len(s) = n /\ \A i \in 1 .. n : s[i] = backups[i]
      BY <2>1, <2>3
    <2>6. s # << >>
      BY <2>1, <2>5, EmptySeq
    <2>7. played' = s[n] /\ backups' = t
      BY <2>4, <2>5, <2>6 DEF ReverseOneCycle, Last, Front
    <2>8. /\ t \in Seq(Level) /\ Len(t) = n - 1
          /\ \A i \in 1 .. n - 1 : t[i] = s[i]
      <3>1. CASE n = 1
        <4>1. t = << >>
          BY <3>1, SubSeqEmpty
        <4>2. << >> \in Seq(Level) /\ Len(<< >>) = 0
          OBVIOUS
        <4> HIDE DEF t
        <4> QED
          BY <3>1, <4>1, <4>2
      <3>2. CASE n # 1
        <4>1. n - 1 \in Int /\ 1 <= n - 1 /\ n - 1 <= Len(s)
          BY <2>1, <2>5, <3>2
        <4>2. \A i \in 1 .. n - 1 : s[i] \in Level
          BY <2>3, <2>5, <4>1, ElementOfSeq
        <4>3. /\ t \in Seq(Level) /\ Len(t) = IF 1 <= n - 1 THEN (n - 1) - 1 + 1 ELSE 0
              /\ \A i \in 1 .. (n - 1) - 1 + 1 : t[i] = s[1 + i - 1]
          BY <2>3, <4>1, <4>2, SubSeqProperties
        <4> HIDE DEF t
        <4> QED
          BY <4>1, <4>3
      <3> QED
        BY <3>1, <3>2
    <2> HIDE DEF t
    <2>9. played' = backups[n] /\ \A i \in 1 .. n - 1 : t[i] = backups[i]
      BY <2>1, <2>5, <2>7, <2>8
    <2>10. /\ Len(played') = Len(played) - b + n - 1
           /\ \A i \in 1 .. n - 1 : Len(t[i]) = Len(played) - b + i - 1
      <3>1. ASSUME NEW i \in 1 .. Len(backups)
            PROVE  Len(backups[i]) = Len(played) - b + i - 1
        BY <1>2 DEF Chain
      <3>2. ASSUME NEW i \in 1 .. n - 1
            PROVE  i \in 1 .. Len(backups)
        BY <1>1, <2>1
      <3> QED
        BY <2>1, <2>9, <3>1, <3>2
    <2>11. PrefixOf(played', controls) /\ Known(t, controls)
      <3>1. PrefixOf(played', controls)
        BY <2>1, <2>9 DEF Whole, Known
      <3>2. \A i \in 1 .. n - 1 : PrefixOf(t[i], controls)
        BY <2>1, <2>9 DEF Whole, Known
      <3> QED
        BY <2>8, <3>1, <3>2 DEF Known
    <2>12. Chain(t, played', n - 1)
      <3>1. n - 1 < MaxBackups
        BY <1>1, <1>2, <2>1 DEF Chain
      <3>2. ASSUME NEW i \in 1 .. n - 1
            PROVE  Len(t[i]) = Len(played') - (n - 1) + i - 1
        <4>1. Len(t[i]) = Len(played) - b + i - 1
          BY <2>10
        <4>2. b \in Nat /\ Len(played') = Len(played) - b + n - 1
          BY <1>2, <2>10
        <4> QED
          BY <1>1, <2>1, <4>1, <4>2
      <3> QED
        BY <2>1, <2>8, <3>1, <3>2 DEF Chain
    <2>13. Room(controls, played', n - 1)
      BY <1>1, <1>2, <2>1, <2>10, SMTT(30) DEF Room
    <2>14. n - 1 \in Nat /\ backups' = t /\ controls' = controls /\ ~reversing'
      BY <2>1, <2>7 DEF Whole
    <2> QED
      BY <2>11, <2>12, <2>13, <2>14 DEF Whole
  <1> QED
    BY <1>3, <1>4 DEF ReverseToCycle

(* Cycles are played that go on from the newest snapshot.                    *)
LEMMA ForthWhole ==
  ASSUME TypeOK, Whole, Skipped = {}, NEW l \in Seq(Level), Len(l) >= 1,
         controls' \in Level, played' \in Level,
         Len(played') = Len(played) + Len(l),
         Known(l, controls'), Known(backups, controls'), PrefixOf(played', controls'),
         \A i \in 1 .. Len(l) : Len(l[i]) = Len(played) + i,
         backups' = BackedUp(backups, l),
         UNCHANGED reversing,
         NEW b \in Nat, Chain(backups, played, b),
         \A d \in Nat : d <= b + Len(l) /\ d < MaxBackups => Room(controls', played', d)
  PROVE  Whole'
  <1> DEFINE c == Len(played) - Len(backups)
             r == BackedUp(backups, l)
  <1>1. /\ backups \in Seq(Level) /\ Len(backups) \in Nat /\ Len(l) \in Nat
        /\ Len(played) \in Nat /\ MaxBackups \in Nat
    BY Widths, HistoryAssumption
  <1>2. /\ Len(backups) <= b + 1
        /\ \A i \in 1 .. Len(backups) : Len(backups[i]) = c + i
    BY Unskipped
  <1>3. c \in Int /\ c + Len(backups) = Len(played)
    BY <1>1
  <1> HIDE DEF c
  <1>4. \A i \in 1 .. Len(l) : Len(l[i]) = c + Len(backups) + i
    BY <1>3
  <1>5. Len(played') = c + Len(backups) + Len(l)
    BY <1>3
  <1>6. LET q == BackedUp(backups, l)
        IN /\ q \in Seq(Level)
           /\ Len(q) >= 1 /\ Len(q) <= Len(backups) + Len(l)
           /\ Known(q, controls')
           /\ Chain(q, played', Len(q) - 1)
           /\ Len(backups) + Len(l) <= MaxBackups => q = backups \o l
    BY <1>1, <1>2, <1>3, <1>4, <1>5, BackUpNext
  <1>7. /\ r \in Seq(Level)
        /\ Len(r) >= 1 /\ Len(r) <= Len(backups) + Len(l)
        /\ Known(r, controls')
        /\ Chain(r, played', Len(r) - 1)
    BY <1>6
  <1> HIDE DEF r
  <1>8. Len(r) - 1 \in Nat /\ Len(r) - 1 <= b + Len(l)
    BY <1>1, <1>2, <1>7
  <1>9. Room(controls', played', Len(r) - 1)
    BY <1>7, <1>8 DEF Chain
  <1>10. backups' = r /\ ~reversing'
    BY DEF r, Whole
  <1> QED
    BY <1>7, <1>8, <1>9, <1>10 DEF Whole

LEMMA HistoryChangeWhole ==
  ASSUME IInv, Whole, NEW target_frame \in Frames, HistoryChange(target_frame),
         seams' = {}
  PROVE  Whole'
  <1>1. /\ TypeOK /\ IInv'
        /\ UNCHANGED <<controls, reversing>>
    BY HistoryChangeStep DEF IInv, HistoryChange
  <1>2. /\ Len(played) \in Nat /\ Len(controls) \in Nat /\ StartingCycles \in Nat
        /\ CycleOf(played) = StartingCycles + Len(played)
        /\ controls \in Level /\ MaxBackups \in Nat
    BY <1>1, Widths, HistoryAssumption DEF CycleOf
  <1>3. target_frame \in Int /\ target_frame <= Len(controls)
    BY <1>1, TargetInRecord
  <1>4. CASE target_frame < CycleOf(played)
    <2>1. ~(target_frame > CycleOf(played))
      BY <1>2, <1>3, <1>4
    <2>2. ReverseToCycle(target_frame)
      BY <1>4, <2>1 DEF HistoryChange
    <2> QED
      BY <1>1, <1>3, <2>2, BackWhole
  <1>5. CASE target_frame > CycleOf(played)
    <2> DEFINE n == target_frame - CycleOf(played)
    <2>1. n \in Int /\ n >= 1 /\ Len(played) + n <= Len(controls)
      BY <1>2, <1>3, <1>5
    <2>2. ~(target_frame < CycleOf(played))
      BY <1>2, <1>3, <1>5
    <2>3. played' = Last(Ahead(n)) /\ backups' = BackedUp(backups, Ahead(n)) /\ Skipped = {}
      BY <1>5, <2>2 DEF HistoryChange
    <2> HIDE DEF n
    <2>4. /\ Ahead(n) \in Seq(Level) /\ Len(Ahead(n)) = n
          /\ Known(Ahead(n), controls)
          /\ \A i \in 1 .. n : Len(Ahead(n)[i]) = Len(played) + i
      BY <1>1, <2>1, AheadPast DEF Whole
    <2>5. played' = Ahead(n)[n] /\ n \in 1 .. n
      BY <2>1, <2>3, <2>4 DEF Last
    <2>6. /\ played' \in Level /\ Len(played') = Len(played) + n
          /\ PrefixOf(played', controls)
      BY <2>4, <2>5, ElementOfSeq DEF Known
    <2>7. PICK b \in Nat : Chain(backups, played, b) /\ Room(controls, played, b)
      BY DEF Whole
    <2>8. ASSUME NEW d \in Nat, d <= b + n
          PROVE  Room(controls', played', d)
      <3>1. b + Len(controls) <= MaxBackups + Len(played) + StartingCycles /\ b \in Nat
        BY <2>7 DEF Room
      <3>2. d + Len(controls) <= MaxBackups + Len(played') + StartingCycles
        BY <1>2, <2>1, <2>6, <2>8, <3>1
      <3> QED
        BY <1>1, <3>2 DEF Room
    <2>9. Known(backups, controls)
      BY DEF Whole
    <2> DEFINE l == Ahead(n)
    <2>10. /\ l \in Seq(Level) /\ Len(l) >= 1 /\ Len(played') = Len(played) + Len(l)
           /\ Known(l, controls') /\ Known(backups, controls') /\ PrefixOf(played', controls')
           /\ \A i \in 1 .. Len(l) : Len(l[i]) = Len(played) + i
           /\ backups' = BackedUp(backups, l) /\ controls' \in Level
           /\ \A d \in Nat : d <= b + Len(l) /\ d < MaxBackups => Room(controls', played', d)
      BY <1>1, <1>2, <2>1, <2>3, <2>4, <2>6, <2>8, <2>9
    <2> HIDE DEF l
    <2> QED
      BY <1>1, <2>3, <2>6, <2>7, <2>10, ForthWhole
  <1>6. CASE target_frame = CycleOf(played)
    <2>1. ~(target_frame < CycleOf(played)) /\ ~(target_frame > CycleOf(played))
      BY <1>2, <1>3, <1>6
    <2>2. UNCHANGED <<played, backups>>
      BY <2>1 DEF HistoryChange
    <2> QED
      BY <1>1, <2>2 DEF Whole
  <1> QED
    BY <1>2, <1>3, <1>4, <1>5, <1>6

LEMMA EndFrameWhole ==
  ASSUME IInv, Whole, EndFrame, seams' = {}
  PROVE  Whole'
  <1>1. TypeOK /\ IInv' /\ UNCHANGED <<paused, reversing>> /\ at = "events"
        /\ backups' = BackedUp(backups, <<played'>>)
    BY EndFrameStep DEF IInv, EndFrame
  <1>2. /\ Len(played) \in Nat /\ Len(controls) \in Nat /\ StartingCycles \in Nat
        /\ controls \in Level /\ played \in Level /\ backups \in Seq(Level)
        /\ MaxBackups \in Nat
    BY <1>1, Widths, HistoryAssumption
  <1>3. PICK b \in Nat : Chain(backups, played, b) /\ Room(controls, played, b)
    BY DEF Whole
  <1>4. CASE paused
    <2>1. played' = played /\ controls' = controls
      BY <1>4 DEF EndFrame
    <2>2. LET r == BackedUp(backups, <<played>>)
          IN /\ r \in Seq(Level)
             /\ Len(r) = b + 1
             /\ Known(r, controls)
             /\ Chain(r, played, b)
      BY <1>2, <1>3, BackUpPresent DEF Whole
    <2> QED
      BY <1>1, <1>3, <2>1, <2>2 DEF Whole
  <1>5. CASE ~paused
    <2>1. PICK key \in Key : controls' = Append(controls, key)
      BY <1>5 DEF EndFrame
    <2>2. /\ controls' \in Level /\ Len(controls') = Len(controls) + 1
          /\ \A k \in 1 .. Len(controls) : controls'[k] = controls[k]
      BY <1>2, <2>1, AppendProperties DEF Level
    <2>3. Len(played) <= Len(controls)
      BY DEF Whole, PrefixOf
    <2>4. Len(played) + 1 \in 1 .. Len(controls')
      BY <1>2, <2>2, <2>3
    <2>5. controls'[Len(played) + 1] \in Key
      BY <2>2, <2>4, ElementOfSeq DEF Level
    <2>6. played' = Append(played, controls'[Len(played) + 1]) /\ Skipped = {}
      BY <1>5 DEF EndFrame, Processed, Input
    <2>7. /\ played' \in Level /\ Len(played') = Len(played) + 1
          /\ \A k \in 1 .. Len(played) : played'[k] = played[k]
          /\ played'[Len(played) + 1] = controls'[Len(played) + 1]
      BY <1>2, <2>5, <2>6, AppendProperties DEF Level
    <2>8. PrefixOf(played', controls')
      <3>1. ASSUME NEW k \in 1 .. Len(played) + 1
            PROVE  played'[k] = controls'[k]
        <4>1. CASE k = Len(played) + 1
          BY <2>7, <4>1
        <4>2. CASE k # Len(played) + 1
          <5>1. k \in 1 .. Len(played) /\ k \in 1 .. Len(controls)
            BY <1>2, <2>3, <4>2
          <5>2. played[k] = controls[k]
            BY <5>1 DEF Whole, PrefixOf
          <5> QED
            BY <2>2, <2>7, <5>1, <5>2
        <4> QED
          BY <4>1, <4>2
      <3> QED
        BY <1>2, <2>2, <2>3, <2>7, <3>1 DEF PrefixOf
    <2>9. Known(backups, controls')
      <3>1. Len(played) <= Len(controls') /\ \A k \in 1 .. Len(played) : controls[k] = controls'[k]
        BY <1>2, <2>2, <2>3
      <3> QED
        BY <1>1, <2>2, <3>1, RecordKept
    <2>10. ASSUME NEW d \in Nat, d < MaxBackups
           PROVE  Room(controls', played', d)
      <3>1. Len(controls') <= Len(played') + StartingCycles + 1
        <4>1. InReach
          BY <1>1, <1>5 DEF IInv
        <4> QED
          BY <1>2, <2>2, <2>7, <4>1 DEF InReach
      <3> QED
        BY <1>2, <2>2, <2>7, <2>10, <3>1 DEF Room
    <2> DEFINE l == <<played'>>
    <2>11. /\ l \in Seq(Level) /\ Len(l) = 1 /\ l[1] = played'
      BY <2>7
    <2>12. backups' = BackedUp(backups, l)
      BY <1>1
    <2> HIDE DEF l
    <2>13. /\ Len(l) >= 1 /\ Len(played') = Len(played) + Len(l)
           /\ Known(l, controls')
           /\ \A i \in 1 .. Len(l) : Len(l[i]) = Len(played) + i
           /\ \A d \in Nat : d <= b + Len(l) /\ d < MaxBackups => Room(controls', played', d)
      BY <1>2, <2>7, <2>8, <2>10, <2>11 DEF Known
    <2> QED
      BY <1>1, <1>3, <2>2, <2>6, <2>7, <2>8, <2>9, <2>11, <2>12, <2>13, ForthWhole
  <1> QED
    BY <1>4, <1>5

(* All but the newest snapshot.                                              *)
LEMMA FrontOf ==
  ASSUME NEW s \in Seq(Level), NEW b \in Nat, Len(s) = b + 1
  PROVE  /\ Front(s) \in Seq(Level) /\ Len(Front(s)) = b
         /\ \A i \in 1 .. b : Front(s)[i] = s[i]
  <1>1. Front(s) = SubSeq(s, 1, b)
    BY DEF Front
  <1>2. CASE b = 0
    <2>1. SubSeq(s, 1, b) = << >>
      BY <1>2, SubSeqEmpty
    <2>2. << >> \in Seq(Level) /\ Len(<< >>) = 0
      OBVIOUS
    <2> QED
      BY <1>1, <1>2, <2>1, <2>2
  <1>3. CASE b # 0
    <2>1. 1 <= b /\ b <= Len(s)
      BY <1>3
    <2>2. \A i \in 1 .. b : s[i] \in Level
      BY <2>1, ElementOfSeq
    <2>3. /\ SubSeq(s, 1, b) \in Seq(Level)
          /\ Len(SubSeq(s, 1, b)) = IF 1 <= b THEN b - 1 + 1 ELSE 0
          /\ \A i \in 1 .. b - 1 + 1 : SubSeq(s, 1, b)[i] = s[1 + i - 1]
      BY <2>1, <2>2, SubSeqProperties
    <2> QED
      BY <1>1, <2>1, <2>3
  <1> QED
    BY <1>2, <1>3

(* What was appended is cut off.                                             *)
LEMMA ResizedBack ==
  ASSUME NEW s \in Seq(Level), NEW t \in Seq(Level)
  PROVE  Resized(s \o t, Len(s)) = s
  <1>1. Len(s) \in Nat
    OBVIOUS
  <1>2. CASE Len(s) = 0
    <2>1. s = << >>
      BY <1>2, EmptySeq
    <2>2. SubSeq(s \o t, 1, Len(s)) = << >>
      BY <1>2, SubSeqEmpty
    <2> QED
      BY <2>1, <2>2 DEF Resized
  <1>3. CASE Len(s) # 0
    <2>1. 1 \in 1 .. Len(s) /\ Len(s) \in 1 .. Len(s)
      BY <1>1, <1>3
    <2>2. SubSeq(s \o t, 1, Len(s)) = SubSeq(s, 1, Len(s))
      BY <2>1, SubSeqOfConcat1
    <2> QED
      BY <2>2, SubSeqFull DEF Resized
  <1> QED
    BY <1>2, <1>3

(* The prediction drops no old snapshot, since there is room for every cycle *)
(* recorded, so all it appends, and nothing else, is cut off.                *)
LEMMA PredictFutureWhole ==
  ASSUME IInv, Whole, NEW nframes \in Nat, PredictFuture(nframes)
  PROVE  Whole' /\ backups' = Front(BackedUp(backups, <<played>>))
  <1> DEFINE own == BackedUp(backups, <<played>>)
             before == Front(own)
             ahead == Ahead(nframes)
             there == IF nframes = 0 THEN played ELSE Last(ahead)
             forth == BackedUp(before, ahead)
             traced == BackedUp(forth, <<there>>)
  <1>1. TypeOK /\ UNCHANGED <<played, controls, reversing>>
    BY DEF IInv, PredictFuture
  <1>2. /\ Len(played) \in Nat /\ Len(controls) \in Nat /\ StartingCycles \in Nat
        /\ CycleOf(played) = StartingCycles + Len(played)
        /\ controls \in Level /\ played \in Level /\ backups \in Seq(Level)
        /\ MaxBackups \in Nat
    BY <1>1, Widths, HistoryAssumption DEF CycleOf
  <1>3. PICK b \in Nat : Chain(backups, played, b) /\ Room(controls, played, b)
    BY DEF Whole
  <1>4. b < MaxBackups /\ b \in Nat
    BY <1>3 DEF Chain
  <1>5. backups' = Resized(traced, Len(before))
    BY DEF PredictFuture
  <1>6. LET r == BackedUp(backups, <<played>>)
        IN /\ r \in Seq(Level)
           /\ Len(r) = b + 1
           /\ Known(r, controls)
           /\ Chain(r, played, b)
    BY <1>2, <1>3, BackUpPresent DEF Whole
  <1>7. own \in Seq(Level) /\ Len(own) = b + 1 /\ Known(own, controls) /\ Chain(own, played, b)
    BY <1>6
  <1> HIDE DEF own
  <1>8. before \in Seq(Level) /\ Len(before) = b /\ \A i \in 1 .. b : before[i] = own[i]
    BY <1>4, <1>7, FrontOf
  <1> HIDE DEF before
  <1>9. \A i \in 1 .. b : /\ PrefixOf(before[i], controls)
                          /\ Len(before[i]) = Len(played) - b + i - 1
    <2>1. \A i \in 1 .. b : i \in 1 .. Len(own)
      BY <1>4, <1>7
    <2> QED
      BY <1>7, <1>8, <2>1 DEF Known, Chain
  <1>10. Known(before, controls) /\ Chain(before, played, b)
    BY <1>4, <1>8, <1>9 DEF Known, Chain
  <1>11. before # << >> => Len(before[Len(before)]) = Len(played) - 1
    <2> SUFFICES ASSUME before # << >>
                 PROVE  Len(before[b]) = Len(played) - 1
      BY <1>8
    <2>1. b \in 1 .. b
      BY <1>4, <1>8, EmptySeq
    <2>2. Len(before[b]) = Len(played) - b + b - 1
      BY <1>9, <2>1
    <2> QED
      BY <1>2, <1>4, <2>2
  <1>12. PICK rest \in Seq(Level) : traced = before \o rest
    <2>1. CASE nframes = 0
      <3>1. there = played
        BY <2>1
      <3>2. ahead = << >>
        <4>1. ahead = [i \in 1 .. 0 |-> played \o SubSeq(controls, Len(played) + 1, Len(played) + i)]
          BY <2>1 DEF Ahead
        <4> HIDE DEF ahead
        <4> QED
          BY <4>1
      <3> HIDE DEF ahead, there
      <3>3. NotYet(before, ahead) = << >>
        BY <3>2 DEF NotYet
      <3>4. forth = before
        <4>1. BackedUp(before, ahead) = Newest(before)
          BY <1>8, <3>3, ConcatEmptySeq DEF BackedUp
        <4>2. Newest(before) = before
          <5>1. Len(before) <= MaxBackups
            BY <1>2, <1>4, <1>8
          <5> QED
            BY <1>8, <5>1, NewestAll
        <4> QED
          BY <4>1, <4>2
      <3> DEFINE l == <<played>>
      <3>5. l \in Seq(Level) /\ Len(l) = 1 /\ l[1] = played
        BY <1>2
      <3>6. traced = BackedUp(before, l)
        BY <3>1, <3>4
      <3> HIDE DEF l, forth, traced
      <3>7. NotYet(before, l) = l
        <4>1. before # << >> /\ l # << >> => Len(before[Len(before)]) # Len(l[1])
          BY <1>2, <1>11, <3>5
        <4> QED
          BY <1>8, <3>5, <4>1, NotYetNew
      <3>8. before \o l \in Seq(Level) /\ Len(before \o l) = Len(before) + Len(l)
        BY <1>8, <3>5, ConcatProperties
      <3>9. Newest(before \o l) = before \o l
        <4>1. Len(before \o l) <= MaxBackups
          BY <1>2, <1>4, <1>8, <3>5, <3>8
        <4> QED
          BY <3>8, <4>1, NewestAll
      <3> QED
        BY <3>5, <3>6, <3>7, <3>9 DEF BackedUp
    <2>2. CASE nframes # 0
      <3>1. nframes \in Int /\ nframes >= 1 /\ nframes <= Len(controls) - CycleOf(played)
        BY <2>2 DEF PredictFuture, LastFrame
      <3>2. Len(played) + nframes <= Len(controls) /\ b + nframes <= MaxBackups
        BY <1>2, <1>3, <3>1 DEF Room
      <3>3. /\ ahead \in Seq(Level) /\ Len(ahead) = nframes
            /\ \A i \in 1 .. nframes : Len(ahead[i]) = Len(played) + i
        BY <1>1, <3>1, <3>2, AheadPast DEF Whole
      <3>4. there = ahead[nframes]
        BY <2>2, <3>3 DEF Last
      <3> HIDE DEF ahead, there
      <3> DEFINE both == before \o ahead
      <3>5. NotYet(before, ahead) = ahead
        <4>1. 1 \in 1 .. nframes
          BY <3>1
        <4>2. Len(ahead[1]) = Len(played) + 1
          BY <3>3, <4>1
        <4>3. before # << >> /\ ahead # << >> => Len(before[Len(before)]) # Len(ahead[1])
          BY <1>2, <1>11, <4>2
        <4> QED
          BY <1>8, <3>3, <4>3, NotYetNew
      <3>6. /\ both \in Seq(Level) /\ Len(both) = b + nframes
            /\ \A i \in 1 .. b + nframes : both[i] = IF i <= b THEN before[i] ELSE ahead[i - b]
        BY <1>8, <3>3, ConcatProperties
      <3>7. forth = Newest(both)
        BY <3>5 DEF BackedUp
      <3> HIDE DEF both, forth
      <3>8. forth = both
        BY <3>2, <3>6, <3>7, NewestAll
      <3>9. Last(both) = there
        <4>1. b + nframes \in 1 .. b + nframes /\ ~(b + nframes <= b) /\ (b + nframes) - b = nframes
          BY <1>4, <3>1
        <4> QED
          BY <3>4, <3>6, <4>1 DEF Last
      <3>10. both # << >>
        BY <1>4, <3>1, <3>6
      <3>11. NotYet(both, <<there>>) = << >>
        BY <3>9, <3>10 DEF NotYet
      <3>12. BackedUp(both, <<there>>) = Newest(both)
        BY <3>6, <3>11, ConcatEmptySeq DEF BackedUp
      <3>13. traced = both
        BY <3>7, <3>8, <3>12
      <3> QED
        BY <3>3, <3>13 DEF both
    <2> QED
      BY <2>1, <2>2
  <1> HIDE DEF ahead, there, forth, traced
  <1>13. backups' = before
    BY <1>5, <1>8, <1>12, ResizedBack
  <1>14. Whole'
    BY <1>1, <1>3, <1>10, <1>13 DEF Whole
  <1> QED
    BY <1>13, <1>14 DEF before, own

LEMMA InitWhole == Init => WholeInv
  <1> SUFFICES ASSUME Init
               PROVE  Whole
    BY DEF WholeInv
  <1>1. played = << >> /\ controls = << >> /\ backups = << >> /\ ~reversing
    BY DEF Init
  <1>2. Len(played) = 0 /\ Len(controls) = 0 /\ Len(backups) = 0
    BY <1>1
  <1>3. MaxBackups \in Nat \ {0} /\ StartingCycles \in Nat
    BY HistoryAssumption
  <1>4. Chain(backups, played, 0) /\ Room(controls, played, 0)
    BY <1>2, <1>3 DEF Chain, Room
  <1>5. PrefixOf(played, controls) /\ Known(backups, controls)
    BY <1>2 DEF PrefixOf, Known
  <1> QED
    BY <1>1, <1>4, <1>5 DEF Whole

LEMMA NextWhole == IInv /\ WholeInv /\ [Next]_vars => WholeInv'
  <1> SUFFICES ASSUME IInv, WholeInv, [Next]_vars, seams' = {}
               PROVE  Whole'
    BY DEF WholeInv
  <1>1. TypeOK
    BY DEF IInv
  <1>2. CASE ReverseCycle \/ ResetPlayingLevel \/ StartEditor
    BY <1>2 DEF ReverseCycle, ResetPlayingLevel, StartEditor
  <1>3. CASE BeginFrame
    <2>1. Whole
      BY <1>3 DEF BeginFrame, WholeInv
    <2> QED
      BY <1>3, <2>1 DEF BeginFrame, Whole
  <1>4. ASSUME NEW flag \in BOOLEAN, Paused(flag),
               UNCHANGED <<played, backups, reversing, seams>>
        PROVE  Whole'
    <2>1. Whole
      BY <1>4 DEF WholeInv
    <2>2. CASE flag
      <3>1. controls' = controls
        BY <1>4, <2>2 DEF Paused
      <3> QED
        BY <1>4, <2>1, <3>1 DEF Whole
    <2>3. CASE ~flag
      <3>1. PICK key \in Key : controls' = ReadUntil(CycleOf(played), key)
        BY <1>4, <2>3 DEF Paused
      <3> QED
        BY <1>1, <1>4, <2>1, <3>1, ReadUntilWhole
    <2> QED
      BY <2>2, <2>3
  <1>5. CASE TogglePause
    BY <1>1, <1>4, <1>5 DEF TogglePause, TypeOK
  <1>6. CASE CloseEditor
    BY <1>4, <1>6 DEF CloseEditor
  <1>7. ASSUME NEW target_frame \in Frames, HistoryChange(target_frame)
        PROVE  Whole'
    <2>1. Whole
      BY <1>7 DEF HistoryChange, WholeInv
    <2> QED
      BY <1>7, <2>1, HistoryChangeWhole
  <1>8. ASSUME NEW nframes \in 0 .. Len(controls), PredictFuture(nframes)
        PROVE  Whole'
    <2>1. nframes \in Nat
      BY <1>1, Widths
    <2>2. Whole
      BY <1>8 DEF PredictFuture, WholeInv
    <2> QED
      BY <1>8, <2>1, <2>2, PredictFutureWhole
  <1>9. CASE EndFrame
    <2>1. Whole
      BY <1>9 DEF EndFrame, WholeInv
    <2> QED
      BY <1>9, <2>1, EndFrameWhole
  <1>10. CASE UNCHANGED vars
    BY <1>10 DEF vars, WholeInv, Whole
  <1> QED
    BY <1>2, <1>3, <1>5, <1>6, <1>7, <1>8, <1>9, <1>10 DEF Next

(* Until a seam, the record holds all inputs of the past, the snapshots are  *)
(* one cycle apart, and there is room for those of every cycle recorded.     *)
THEOREM PastInvariant == Spec => [](IInv /\ WholeInv)
  <1>1. Init => IInv /\ WholeInv
    BY InitInv, InitWhole
  <1>2. IInv /\ WholeInv /\ [Next]_vars => (IInv /\ WholeInv)'
    BY NextInv, NextWhole
  <1> QED
    BY <1>1, <1>2, PTL DEF Spec

(* Until T is held, a level is reset or a frame ends without the snapshot it *)
(* came from, the present and every snapshot are states that were played.    *)
THEOREM PastIsWhatHappened == Spec => []HistoryIsWhatHappened
  <1>1. IInv /\ WholeInv => HistoryIsWhatHappened
    <2> SUFFICES ASSUME IInv, WholeInv, seams = {}
                 PROVE  /\ IsPrefix(played, controls)
                        /\ \A i \in DOMAIN backups : IsPrefix(backups[i], controls)
      BY DEF HistoryIsWhatHappened
    <2>1. Whole /\ TypeOK
      BY DEF IInv, WholeInv
    <2>2. played \in Level /\ controls \in Level /\ backups \in Seq(Level)
      BY <2>1, Widths
    <2>3. IsPrefix(played, controls)
      BY <2>1, <2>2, PrefixIs DEF Whole
    <2>4. ASSUME NEW i \in DOMAIN backups
          PROVE  IsPrefix(backups[i], controls)
      <3>1. i \in 1 .. Len(backups)
        BY <2>2
      <3>2. backups[i] \in Level
        BY <2>2, <3>1, ElementOfSeq
      <3>3. PrefixOf(backups[i], controls)
        BY <2>1, <3>1 DEF Whole, Known
      <3> QED
        BY <2>2, <3>2, <3>3, PrefixIs
    <2> QED
      BY <2>3, <2>4
  <1> QED
    BY <1>1, PastInvariant, PTL

(* So long, reverse_to_cycle finds the snapshot of the cycle asked for.      *)
THEOREM PastAscends == Spec => []SnapshotsAscend
  <1>1. IInv /\ WholeInv => SnapshotsAscend
    <2> SUFFICES ASSUME IInv, WholeInv, seams = {}
                 PROVE  /\ \A i \in 2 .. Len(backups) : Len(backups[i - 1]) < Len(backups[i])
                        /\ backups # << >> => Len(Last(backups)) <= Len(played)
      BY DEF SnapshotsAscend
    <2>1. Whole /\ TypeOK
      BY DEF IInv, WholeInv
    <2>2. PICK b \in Nat : Chain(backups, played, b)
      BY <2>1 DEF Whole
    <2>3. backups \in Seq(Level) /\ Len(backups) \in Nat /\ Len(played) \in Nat
      BY <2>1, Widths
    <2>4. ASSUME NEW i \in 2 .. Len(backups)
          PROVE  Len(backups[i - 1]) < Len(backups[i])
      <3>1. i \in 1 .. Len(backups) /\ i - 1 \in 1 .. Len(backups) /\ b \in Nat
        BY <2>2, <2>3
      <3>2. /\ Len(backups[i]) = Len(played) - b + i - 1
            /\ Len(backups[i - 1]) = Len(played) - b + (i - 1) - 1
        BY <2>2, <3>1 DEF Chain
      <3> QED
        BY <2>3, <3>1, <3>2
    <2>5. backups # << >> => Len(Last(backups)) <= Len(played)
      <3> SUFFICES ASSUME backups # << >>
                   PROVE  Len(backups[Len(backups)]) <= Len(played)
        BY DEF Last
      <3>1. Len(backups) \in 1 .. Len(backups)
        BY <2>3, EmptySeq
      <3> QED
        BY <2>1, <2>2, <3>1, SnapshotsPast
    <2> QED
      BY <2>4, <2>5
  <1> QED
    BY <1>1, PastInvariant, PTL

(* So long, predict_future never pushes an old snapshot out, and so cuts     *)
(* back to the snapshots there were.                                         *)
THEOREM PredictionsLeaveNoTrace == Spec => PredictionLeavesNoTrace
  <1> DEFINE NoTrace == \A nframes \in 0 .. Len(controls) :
               seams = {} /\ PredictFuture(nframes)
                 => backups' \in {backups, Front(BackedUp(backups, <<played>>))}
  <1>1. IInv /\ WholeInv => NoTrace
    <2> SUFFICES ASSUME IInv, WholeInv, NEW nframes \in 0 .. Len(controls),
                        seams = {}, PredictFuture(nframes)
                 PROVE  backups' = Front(BackedUp(backups, <<played>>))
      OBVIOUS
    <2>1. Whole /\ TypeOK
      BY DEF IInv, WholeInv
    <2>2. nframes \in Nat
      BY <2>1, Widths
    <2> QED
      BY <2>1, <2>2, PredictFutureWhole
  <1>2. IInv /\ WholeInv /\ [Next]_vars => [NoTrace]_vars
    BY <1>1
  <1>3. Spec => [][NoTrace]_vars
    BY <1>2, PastInvariant, PTL DEF Spec
  <1> QED
    BY <1>3 DEF PredictionLeavesNoTrace

=============================================================================
