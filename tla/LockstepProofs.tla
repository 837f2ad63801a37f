--------------------------- MODULE LockstepProofs ---------------------------
(***************************************************************************)
(* Proofs about Lockstep, for any number of players, any inputs and delays,*)
(* and a network that loses, repeats and reorders packets: the inductive   *)
(* invariant IInv, one lemma per action that preserves it, the safety      *)
(* properties of Lockstep as its consequences, and that Lockstep           *)
(* implements SharedInput.                                                 *)
(***************************************************************************)
EXTENDS Lockstep, SequenceTheorems, FiniteSetTheorems, WellFoundedInduction, TLAPS

\* A nonempty set of naturals has the minimum that Min names.
LEMMA MinNat ==
  ASSUME NEW S, S \subseteq Nat, S # {}
  PROVE  Min(S) \in S /\ \A x \in S : Min(S) <= x
<1> DEFINE R == {ss \in Nat \X Nat : ss[1] < ss[2]}
<1>0. IsWellFoundedOn(R, Nat)
  BY NatLessThanWellFounded DEF OpToRel
<1> HIDE DEF R
<1>1. PICK x \in S : \A y \in S : ~(<<y, x>> \in R)
  BY <1>0, WFMin
<1>2. \A y \in S : x <= y
  <2> TAKE y \in S
  <2>1. y < x => <<y, x>> \in R
    <3>1. <<y, x>> \in Nat \X Nat OBVIOUS
    <3>2. <<y, x>>[1] = y /\ <<y, x>>[2] = x OBVIOUS
    <3>3. QED BY <3>1, <3>2, Zenon DEF R
  <2>2. x \in Nat /\ y \in Nat OBVIOUS
  <2>3. QED BY <1>1, <2>1, <2>2
<1>3. QED BY <1>2 DEF Min

\* read_local_controls pads another player's vector to n entries and keeps the
\* inputs it had.
LEMMA PaddedSeq ==
  ASSUME NEW v \in Seq(Input), NEW n \in Nat
  PROVE  /\ Padded(v, n) \in Seq(Input)
         /\ Len(Padded(v, n)) = IF Len(v) >= n THEN Len(v) ELSE n
         /\ \A i \in 1..Len(v) : Padded(v, n)[i] = v[i]
<1>1. CASE Len(v) >= n BY <1>1 DEF Padded
<1>2. CASE ~(Len(v) >= n) 
  BY <1>2, InputAssumption DEF Padded
<1>3. QED BY <1>1, <1>2

\* With no gap, the corrected vector is the old one below h, and the packet's
\* inputs from h to its current cycle.
LEMMA CorrectedSeq ==
  ASSUME NEW v \in Seq(Input), NEW m \in Packet, NEW h \in Nat,
         StartOf(m) \in 0..h, h <= m.current_cycle, h > 0 => h < Len(v)
  PROVE  /\ Corrected(v, m, h) \in Seq(Input)
         /\ Len(Corrected(v, m, h)) >= Len(v)
         /\ Len(Corrected(v, m, h)) > m.current_cycle
         /\ \A c \in 0..m.current_cycle :
              Corrected(v, m, h)[c + 1] =
                IF c < h THEN v[c + 1] ELSE m.inputs[1 + c - StartOf(m)]
<1> DEFINE first == FirstWritten(m, h)
           at(c) == m.inputs[1 + c - StartOf(m)]
           size == IF Len(v) > m.current_cycle THEN Len(v) ELSE m.current_cycle + 1
           cell(i) == IF i - 1 < first
                      THEN IF i <= Len(v) THEN v[i] ELSE at(first)
                      ELSE IF i - 1 <= m.current_cycle THEN at(i - 1)
                           ELSE at(m.current_cycle)
<1>1. first = h
  BY DEF FirstWritten
<1>2. /\ m.current_cycle \in Nat
      /\ m.inputs \in Seq(Input)
      /\ StartOf(m) \in Nat
      /\ size \in Nat /\ size >= Len(v) /\ size > m.current_cycle
  BY DEF Packet
<1>3. \A c \in h..m.current_cycle : at(c) \in Input
  BY <1>2 DEF StartOf
<1>4. \A i \in 1..size : cell(i) \in Input
  <2> TAKE i \in 1..size
  <2>1. CASE i - 1 < h
    BY <2>1, <1>1, <1>2
  <2>2. CASE i - 1 >= h /\ i - 1 <= m.current_cycle
    BY <2>2, <1>1, <1>2, <1>3
  <2>3. CASE i - 1 > m.current_cycle
    <3>1. ~(i - 1 < first) /\ ~(i - 1 <= m.current_cycle)
      BY <2>3, <1>1, <1>2
    <3>2. at(m.current_cycle) \in Input
      BY <1>2, <1>3
    <3>3. QED BY <3>1, <3>2
  <2>4. QED BY <2>1, <2>2, <2>3, <1>2
<1>5. Corrected(v, m, h) = [i \in 1..size |-> cell(i)]
  BY DEF Corrected
<1> HIDE DEF cell, size, at
<1>6. /\ Corrected(v, m, h) \in Seq(Input)
      /\ Len(Corrected(v, m, h)) = size
      /\ \A i \in 1..size : Corrected(v, m, h)[i] = cell(i)
  BY <1>2, <1>4, <1>5
<1>7. \A c \in 0..m.current_cycle :
        Corrected(v, m, h)[c + 1] = IF c < h THEN v[c + 1] ELSE at(c)
  <2> TAKE c \in 0..m.current_cycle
  <2>1. c + 1 \in 1..size /\ c + 1 - 1 = c
    BY <1>2
  <2>2. c < h => c + 1 <= Len(v)
    BY <1>2
  <2>3. cell(c + 1) = IF c < h THEN v[c + 1] ELSE at(c)
    BY <2>1, <2>2, <1>1, <1>2 DEF cell
  <2>4. QED BY <2>1, <2>3, <1>6
<1>8. QED BY <1>2, <1>6, <1>7 DEF at

IInv == TypeOK /\ LockstepInv

\* The fields of a packet.
LEMMA PacketFields ==
  ASSUME NEW q \in Packet
  PROVE  /\ q.slot \in Player
         /\ q.current_cycle \in Nat /\ q.highest_cycle \in Nat
         /\ q.inputs \in Seq(Input) /\ Len(q.inputs) \in Nat
<1>1. /\ q.slot \in Player
      /\ q.current_cycle \in Nat /\ q.highest_cycle \in Nat
      /\ q.inputs \in Seq(Input)
  BY DEF Packet
<1>2. QED BY <1>1, LenProperties

\* The packet a peer builds reaches back to what every receiver has, carries
\* the sender's inputs, and acknowledges only what the sender has confirmed.
LEMMA ControlPacketSound ==
  ASSUME IInv, NEW s \in Player, NEW own \in Seq(Input), NEW hc,
         Len(own) = Len(controls[s][s]) + 1,
         hc = [highest_confirmed[s] EXCEPT ![s] = @ + 1],
         NEW m, m = ControlPacket(s, own, hc)
  PROVE  /\ m \in Packet
         /\ m.slot = s
         /\ m.current_cycle = Len(controls[s][s])
         /\ m.inputs # <<>>
         /\ StartOf(m) \in Nat
         /\ \A p \in Others(s) : StartOf(m) <= highest_confirmed[p][s]
         /\ \A i \in 1..Len(m.inputs) : m.inputs[i] = own[StartOf(m) + i]
         /\ \A p \in Others(s) : m.highest_cycle <= highest_confirmed[s][p]
<1> DEFINE L == Len(own)
           their == TheirHighestConfirmed(s)
           n == CyclesToWrite(s, own)
<1>1. /\ L \in Nat \ {0}
      /\ \A p, q \in Player : highest_confirmed[p][q] \in Nat
      /\ \A p \in Player : remote_highest_confirmed[s][p] \in Nat
      /\ \A p \in Player : hc[p] \in Nat
      /\ \A p \in Others(s) : hc[p] = highest_confirmed[s][p]
  BY DEF IInv, TypeOK, Others
<1>2. /\ their \in Nat
      /\ \A p \in Others(s) : their <= remote_highest_confirmed[s][p]
  <2> DEFINE S == {remote_highest_confirmed[s][p] : p \in Others(s)}
  <2>1. S \subseteq Nat BY <1>1 DEF Others
  <2>2. S # {} BY PlayerAssumption DEF Others
  <2>3. \A p \in Others(s) : remote_highest_confirmed[s][p] \in S OBVIOUS
  <2> HIDE DEF S
  <2>4. Min(S) \in S /\ \A x \in S : Min(S) <= x BY <2>1, <2>2, MinNat
  <2>5. their = Min(S) BY DEF S, TheirHighestConfirmed
  <2>6. QED BY <2>1, <2>3, <2>4, <2>5
<1>3. /\ OurHighestConfirmed(hc) \in Nat
      /\ \A p \in Player : OurHighestConfirmed(hc) <= hc[p]
  <2> DEFINE S == {hc[p] : p \in Player}
  <2>1. S \subseteq Nat BY <1>1
  <2>2. S # {} OBVIOUS
  <2>3. \A p \in Player : hc[p] \in S OBVIOUS
  <2> HIDE DEF S
  <2>4. Min(S) \in S /\ \A x \in S : Min(S) <= x BY <2>1, <2>2, MinNat
  <2>5. OurHighestConfirmed(hc) = Min(S) BY DEF S, OurHighestConfirmed
  <2>6. QED BY <2>1, <2>3, <2>4, <2>5
<1>4. \A p \in Others(s) :
        their <= highest_confirmed[p][s] /\ highest_confirmed[p][s] < L
  <2> TAKE p \in Others(s)
  <2>1. remote_highest_confirmed[s][p] <= highest_confirmed[p][s]
    BY DEF IInv, LockstepInv, AcksTrue, Others
  <2>2. highest_confirmed[p][s] > 0 =>
          highest_confirmed[p][s] < Len(controls[s][s])
    BY <1>1 DEF IInv, LockstepInv, ConfirmedAgreement, Others
  <2>3. Len(controls[s][s]) \in Nat
    BY DEF IInv, TypeOK
  <2>4. p \in Player BY DEF Others
  <2>5. QED BY <1>1, <1>2, <2>1, <2>2, <2>3, <2>4
<1>5. PICK p \in Others(s) : TRUE
  BY PlayerAssumption DEF Others
<1>6. their < L
  BY <1>1, <1>2, <1>4, <1>5 DEF Others
<1>7. n = L - their /\ n \in 1..L
  BY <1>1, <1>2, <1>6 DEF CyclesToWrite
<1> HIDE DEF their, n
<1>8. /\ m.slot = s
      /\ m.current_cycle = L - 1
      /\ m.highest_cycle = OurHighestConfirmed(hc)
      /\ m.inputs = [i \in 1..n |-> own[L - n + i]]
      /\ m = [slot |-> s, current_cycle |-> L - 1,
              highest_cycle |-> OurHighestConfirmed(hc), inputs |-> m.inputs]
  BY DEF ControlPacket, n
<1> HIDE DEF L
<1>9. /\ m.inputs \in Seq(Input)
      /\ Len(m.inputs) = n
      /\ \A i \in 1..n : m.inputs[i] = own[L - n + i]
  <2>1. \A i \in 1..n : own[L - n + i] \in Input
    BY <1>1, <1>7 DEF L
  <2>2. n \in Nat BY <1>1, <1>7
  <2> DEFINE f == [i \in 1..n |-> own[L - n + i]]
  <2>3. f \in Seq(Input) /\ Len(f) = n /\ \A i \in 1..n : f[i] = own[L - n + i]
    BY <2>1, <2>2
  <2>4. m.inputs = f BY <1>8, Zenon
  <2> HIDE DEF f
  <2>5. QED BY <2>3, <2>4
<1>10. StartOf(m) = L - n /\ StartOf(m) = their
  BY <1>1, <1>2, <1>7, <1>8, <1>9 DEF StartOf
<1>11. m \in Packet
  BY <1>1, <1>3, <1>8, <1>9 DEF Packet
<1>12. m.inputs # <<>>
  BY <1>1, <1>7, <1>9
<1>13. \A q \in Others(s) : m.highest_cycle <= highest_confirmed[s][q]
  BY <1>1, <1>3, <1>8 DEF Others
<1>14. m.current_cycle = Len(controls[s][s])
  BY <1>8 DEF L, IInv, TypeOK
<1>15. \A q \in Others(s) : StartOf(m) <= highest_confirmed[q][s]
  BY <1>4, <1>10
<1>16. \A i \in 1..Len(m.inputs) : m.inputs[i] = own[StartOf(m) + i]
  BY <1>9, <1>10
<1>17. QED
  BY <1>2, <1>8, <1>10, <1>11, <1>12, <1>13, <1>14, <1>15, <1>16

\* The empty vectors of controls::new_level satisfy the invariant.
LEMMA InitInv == Init => IInv
BY PlayerAssumption, DelayAssumption
   DEF Init, IInv, TypeOK, LockstepInv, ConfirmedAgreement, PacketsReachBack,
       SimulatedTruth, VectorSizes, PacketsTrue, AcksTrue, SimulatedConfirmed,
       CycleOf, Others

\* Sampling an input, padding the other vectors and sending the packet keep the
\* invariant (level::process).
LEMMA StartCycleInv ==
  ASSUME IInv, NEW s \in Player, StartCycle(s)
  PROVE  IInv'
<1>1. PICK input \in Input :
        LET own == Append(controls[s][s], input)
            row == [p \in Player |-> IF p = s THEN own
                                     ELSE Padded(controls[s][p], Len(own))]
            hc == [highest_confirmed[s] EXCEPT ![s] = @ + 1]
        IN /\ controls' = [controls EXCEPT ![s] = row]
           /\ highest_confirmed' = [highest_confirmed EXCEPT ![s] = hc]
           /\ sent' = sent \union {ControlPacket(s, own, hc)}
  BY DEF StartCycle
<1> DEFINE own == Append(controls[s][s], input)
           row == [p \in Player |-> IF p = s THEN own
                                    ELSE Padded(controls[s][p], Len(own))]
           hc == [highest_confirmed[s] EXCEPT ![s] = @ + 1]
           m == ControlPacket(s, own, hc)
<1>2. /\ first_invalid_cycle' = [first_invalid_cycle EXCEPT ![s] = -1]
      /\ unread' = [unread EXCEPT ![s] = Player]
      /\ unread[s] = {}
      /\ UNCHANGED <<remote_highest_confirmed, aborted, played, lost>>
  BY DEF StartCycle
<1>3. /\ own \in Seq(Input)
      /\ Len(own) = Len(controls[s][s]) + 1
      /\ \A i \in 1..Len(controls[s][s]) : own[i] = controls[s][s][i]
  BY DEF IInv, TypeOK
<1>4. /\ m \in Packet
      /\ m.slot = s
      /\ m.current_cycle = Len(controls[s][s])
      /\ m.inputs # <<>>
      /\ StartOf(m) \in Nat
      /\ \A p \in Others(s) : StartOf(m) <= highest_confirmed[p][s]
      /\ \A i \in 1..Len(m.inputs) : m.inputs[i] = own[StartOf(m) + i]
      /\ \A p \in Others(s) : m.highest_cycle <= highest_confirmed[s][p]
  <2> HIDE DEF own, hc
  <2>1. hc = [highest_confirmed[s] EXCEPT ![s] = @ + 1] BY DEF hc
  <2> HIDE DEF m
  <2>2. m = ControlPacket(s, own, hc) BY DEF m
  <2>3. QED BY <1>3, <2>1, <2>2, ControlPacketSound
<1>5. controls' = [controls EXCEPT ![s] = row] BY <1>1
<1>6. highest_confirmed' = [highest_confirmed EXCEPT ![s] = hc] BY <1>1
<1>7. sent' = sent \union {m} BY <1>1
<1> HIDE DEF m, own
<1>8. \A p \in Player : p # s =>
        /\ Padded(controls[s][p], Len(own)) \in Seq(Input)
        /\ Len(Padded(controls[s][p], Len(own))) >= Len(own)
        /\ Len(Padded(controls[s][p], Len(own))) >= Len(controls[s][p])
        /\ \A i \in 1..Len(controls[s][p]) :
             Padded(controls[s][p], Len(own))[i] = controls[s][p][i]
  <2> TAKE p \in Player
  <2>1. controls[s][p] \in Seq(Input) /\ Len(controls[s][p]) \in Nat
    BY DEF IInv, TypeOK
  <2>2. Len(own) \in Nat BY <1>3
  <2>3. /\ Padded(controls[s][p], Len(own)) \in Seq(Input)
        /\ Len(Padded(controls[s][p], Len(own))) =
             IF Len(controls[s][p]) >= Len(own) THEN Len(controls[s][p])
             ELSE Len(own)
        /\ \A i \in 1..Len(controls[s][p]) :
             Padded(controls[s][p], Len(own))[i] = controls[s][p][i]
    BY <2>1, <2>2, PaddedSeq
  <2>4. QED BY <2>1, <2>2, <2>3
<1>9. row \in [Player -> Seq(Input)]
  BY <1>3, <1>8
<1>10. /\ \A p \in Player : row[p] = IF p = s THEN own
                                       ELSE Padded(controls[s][p], Len(own))
  OBVIOUS
<1> HIDE DEF row
<1>11. TypeOK'
  <2>1. controls' \in [Player -> [Player -> Seq(Input)]]
    BY <1>5, <1>9 DEF IInv, TypeOK
  <2>2. hc \in [Player -> Nat] BY DEF IInv, TypeOK
  <2>3. highest_confirmed' \in [Player -> [Player -> Nat]]
    BY <1>6, <2>2 DEF IInv, TypeOK
  <2>4. sent' \subseteq Packet BY <1>4, <1>7 DEF IInv, TypeOK
  <2>5. QED BY <1>2, <2>1, <2>3, <2>4 DEF IInv, TypeOK
<1>12. \A r, p \in Player :
         /\ Len(controls'[r][p]) >= Len(controls[r][p])
         /\ \A i \in 1..Len(controls[r][p]) : controls'[r][p][i] = controls[r][p][i]
  <2> TAKE r, p \in Player
  <2>1. controls'[r][p] = IF r = s THEN row[p] ELSE controls[r][p]
    BY <1>5 DEF IInv, TypeOK
  <2>2. controls[r][p] \in Seq(Input) /\ Len(controls[r][p]) \in Nat
    BY DEF IInv, TypeOK
  <2>3. CASE r = s /\ p = s BY <1>3, <1>10, <2>1, <2>2, <2>3
  <2>4. CASE r = s /\ p # s BY <1>8, <1>10, <2>1, <2>2, <2>4
  <2>5. CASE r # s BY <2>1, <2>2, <2>5
  <2>6. QED BY <2>3, <2>4, <2>5
<1>13. \A r, p \in Player :
         highest_confirmed'[r][p] =
           IF r = s /\ p = s THEN highest_confirmed[r][p] + 1
           ELSE highest_confirmed[r][p]
  BY <1>6 DEF IInv, TypeOK
<1>14. /\ controls'[s][s] = own
       /\ \A p \in Player : p # s => controls'[p][p] = controls[p][p]
       /\ \A r, p \in Player : r # s => controls'[r][p] = controls[r][p]
       /\ \A p \in Player : Len(controls'[s][p]) >= Len(own)
  <2>1. \A r, p \in Player :
          controls'[r][p] = IF r = s THEN row[p] ELSE controls[r][p]
    BY <1>5 DEF IInv, TypeOK
  <2>2. Len(own) >= Len(own) BY <1>3
  <2>3. QED BY <1>8, <1>10, <2>1, <2>2
<1>15. \A p, q \in Player : /\ controls[p][q] \in Seq(Input)
                            /\ Len(controls[p][q]) \in Nat
                            /\ Len(controls'[p][q]) \in Nat
                            /\ highest_confirmed[p][q] \in Nat
                            /\ played[p][q] \in Seq(Input)
                            /\ Len(played[p][q]) \in Nat
                            /\ Delay[p] \in Nat
  <2> TAKE p, q \in Player
  <2>1. controls[p][q] \in Seq(Input) /\ played[p][q] \in Seq(Input)
    BY DEF IInv, TypeOK
  <2>2. controls'[p][q] \in Seq(Input)
    BY <1>11 DEF TypeOK
  <2>3. Delay[p] \in Nat BY DelayAssumption
  <2>4. highest_confirmed[p][q] \in Nat BY DEF IInv, TypeOK
  <2>5. /\ Len(controls[p][q]) \in Nat /\ Len(controls'[p][q]) \in Nat
        /\ Len(played[p][q]) \in Nat
    BY <2>1, <2>2
  <2>6. QED BY <2>1, <2>2, <2>3, <2>4, <2>5
<1>16. ConfirmedAgreement'
  <2> SUFFICES ASSUME NEW r \in Player, NEW p \in Player, r # p,
                      highest_confirmed'[r][p] > 0,
                      NEW c \in 0..highest_confirmed'[r][p]
               PROVE  /\ c < Len(controls'[r][p])
                      /\ c < Len(controls'[p][p])
                      /\ controls'[r][p][c + 1] = controls'[p][p][c + 1]
    BY DEF ConfirmedAgreement
  <2>1. highest_confirmed'[r][p] = highest_confirmed[r][p] BY <1>13
  <2>2. /\ c < Len(controls[r][p])
        /\ c < Len(controls[p][p])
        /\ controls[r][p][c + 1] = controls[p][p][c + 1]
    BY <2>1 DEF IInv, LockstepInv, ConfirmedAgreement
  <2>3. c + 1 \in 1..Len(controls[r][p]) /\ c + 1 \in 1..Len(controls[p][p])
    BY <2>1, <2>2, <1>15
  <2>4. /\ controls'[r][p][c + 1] = controls[r][p][c + 1]
        /\ controls'[p][p][c + 1] = controls[p][p][c + 1]
    BY <2>3, <1>12
  <2>5. /\ Len(controls'[r][p]) >= Len(controls[r][p])
        /\ Len(controls'[p][p]) >= Len(controls[p][p])
    BY <1>12
  <2>6. /\ c < Len(controls'[r][p])
        /\ c < Len(controls'[p][p])
    BY <2>1, <2>2, <2>5, <1>15, SMTT(30)
  <2>7. QED BY <2>2, <2>4, <2>6
<1>17. PacketsReachBack'
  <2> SUFFICES ASSUME NEW q \in sent', NEW r \in Others(q.slot)
               PROVE  q.inputs # <<>> /\ StartOf(q) \in 0..highest_confirmed'[r][q.slot]
    BY DEF PacketsReachBack, StartOf, Others
  <2>1. q.slot \in Player /\ r \in Player
    BY <1>11 DEF TypeOK, Packet, Others
  <2>2. highest_confirmed'[r][q.slot] = highest_confirmed[r][q.slot]
    BY <2>1, <1>13 DEF Others
  <2>3. CASE q \in sent
    BY <2>2, <2>3 DEF IInv, LockstepInv, PacketsReachBack
  <2>4. CASE q = m
    BY <2>1, <2>2, <2>4, <1>4, <1>15
  <2>5. QED BY <2>3, <2>4, <1>7
<1>18. SimulatedTruth'
  <2> SUFFICES ASSUME NEW r \in Player, NEW p \in Player,
                      NEW k \in Delay[r] + 2 .. Len(played[r][p])
               PROVE  /\ k - Delay[r] <= Len(controls'[p][p])
                      /\ played[r][p][k] = controls'[p][p][k - Delay[r]]
    BY <1>2 DEF SimulatedTruth
  <2>1. /\ k - Delay[r] <= Len(controls[p][p])
        /\ played[r][p][k] = controls[p][p][k - Delay[r]]
    BY DEF IInv, LockstepInv, SimulatedTruth
  <2>2. k - Delay[r] \in 1..Len(controls[p][p]) BY <2>1, <1>15
  <2>3. controls'[p][p][k - Delay[r]] = controls[p][p][k - Delay[r]]
    BY <2>2, <1>12
  <2>4. /\ Len(controls'[p][p]) >= Len(controls[p][p])
        /\ Len(controls[p][p]) \in Nat /\ Len(controls'[p][p]) \in Nat
    BY <1>12, <1>15
  <2>5. QED BY <2>1, <2>2, <2>3, <2>4
<1>19. VectorSizes'
  <2> SUFFICES ASSUME NEW r \in Player, NEW p \in Player
               PROVE  /\ highest_confirmed'[r][r] = Len(controls'[r][r])
                      /\ Len(controls'[r][p]) >= Len(controls'[r][r])
    BY DEF VectorSizes
  <2>1. /\ highest_confirmed[r][r] = Len(controls[r][r])
        /\ Len(controls[r][p]) >= Len(controls[r][r])
    BY DEF IInv, LockstepInv, VectorSizes
  <2>2. CASE r = s BY <2>1, <2>2, <1>3, <1>13, <1>14
  <2>3. CASE r # s BY <2>1, <2>3, <1>13, <1>14
  <2>4. QED BY <2>2, <2>3
<1>20. PacketsTrue'
  <2> SUFFICES ASSUME NEW q \in sent'
               PROVE  /\ q.current_cycle < Len(controls'[q.slot][q.slot])
                      /\ \A i \in 1..Len(q.inputs) :
                           q.inputs[i] = controls'[q.slot][q.slot][StartOf(q) + i]
                      /\ \A r \in Others(q.slot) :
                           q.highest_cycle <= highest_confirmed'[q.slot][r]
    BY DEF PacketsTrue, StartOf, Others
  <2>1. /\ q.slot \in Player /\ q.current_cycle \in Nat
        /\ q.inputs \in Seq(Input) /\ Len(q.inputs) \in Nat
    <3>1. q \in Packet BY <1>11 DEF TypeOK
    <3>2. QED BY <3>1, PacketFields
  <2>2. \A r \in Others(q.slot) :
          highest_confirmed'[q.slot][r] = highest_confirmed[q.slot][r]
    BY <2>1, <1>13 DEF Others
  <2>3. CASE q \in sent
    <3>1. /\ q.current_cycle < Len(controls[q.slot][q.slot])
          /\ \A i \in 1..Len(q.inputs) :
               q.inputs[i] = controls[q.slot][q.slot][StartOf(q) + i]
          /\ \A r \in Others(q.slot) :
               q.highest_cycle <= highest_confirmed[q.slot][r]
      BY <2>3 DEF IInv, LockstepInv, PacketsTrue
    <3>2. PICK t \in Others(q.slot) : TRUE
      BY PlayerAssumption, <2>1 DEF Others
    <3>3. StartOf(q) \in Nat
      BY <2>3, <3>2, <1>15, <2>1 DEF IInv, LockstepInv, PacketsReachBack, Others
    <3>4. \A i \in 1..Len(q.inputs) :
            StartOf(q) + i \in 1..Len(controls[q.slot][q.slot])
      BY <2>1, <3>1, <3>3, <1>15, SMTT(30) DEF StartOf
    <3>5. \A i \in 1..Len(q.inputs) :
            controls'[q.slot][q.slot][StartOf(q) + i] =
              controls[q.slot][q.slot][StartOf(q) + i]
      BY <2>1, <3>4, <1>12
    <3>6. /\ Len(controls'[q.slot][q.slot]) >= Len(controls[q.slot][q.slot])
          /\ Len(controls[q.slot][q.slot]) \in Nat
          /\ Len(controls'[q.slot][q.slot]) \in Nat
      BY <2>1, <1>12, <1>15
    <3>7. q.current_cycle < Len(controls'[q.slot][q.slot])
      BY <2>1, <3>1, <3>6
    <3>8. QED BY <2>2, <3>1, <3>5, <3>7
  <2>4. CASE q = m
    BY <2>1, <2>2, <2>4, <1>3, <1>4, <1>14, <1>15
  <2>5. QED BY <2>3, <2>4, <1>7
<1>21. AcksTrue'
  <2> SUFFICES ASSUME NEW r \in Player, NEW p \in Others(r)
               PROVE  remote_highest_confirmed[r][p] <= highest_confirmed'[p][r]
    BY <1>2 DEF AcksTrue, Others
  <2>1. p \in Player /\ p # r BY DEF Others
  <2>2. QED BY <2>1, <1>13 DEF IInv, LockstepInv, AcksTrue
<1>22. SimulatedConfirmed'
  <2> SUFFICES ASSUME NEW r \in Player, NEW p \in Player
               PROVE  /\ Len(played[r][p]) =
                           IF p \in unread'[r] THEN Len(controls'[r][r]) - 1
                           ELSE Len(controls'[r][r])
                      /\ p \in unread'[r] => Len(controls'[r][r]) > 0
                      /\ p # r => Len(played[r][p]) <=
                                   Delay[r] + 1 + highest_confirmed'[r][p]
    BY <1>2 DEF SimulatedConfirmed, CycleOf
  <2>1. /\ Len(played[r][p]) =
             IF p \in unread[r] THEN Len(controls[r][r]) - 1
             ELSE Len(controls[r][r])
        /\ p \in unread[r] => Len(controls[r][r]) > 0
        /\ p # r => Len(played[r][p]) <= Delay[r] + 1 + highest_confirmed[r][p]
    BY DEF IInv, LockstepInv, SimulatedConfirmed, CycleOf
  <2>2. p # r => highest_confirmed'[r][p] = highest_confirmed[r][p]
    BY <1>13
  <2>3. unread'[r] = IF r = s THEN Player ELSE unread[r]
    BY <1>2 DEF IInv, TypeOK
  <2>4. CASE r = s BY <2>1, <2>2, <2>3, <2>4, <1>2, <1>3, <1>14, <1>15
  <2>5. CASE r # s BY <2>1, <2>2, <2>3, <2>5, <1>14
  <2>6. QED BY <2>4, <2>5
<1>23. QED
  BY <1>11, <1>16, <1>17, <1>18, <1>19, <1>20, <1>21, <1>22 DEF IInv, LockstepInv

\* Storing the inputs of a packet that is not discarded, with its
\* acknowledgement, keeps the invariant.
LEMMA ReadControlPacketInv ==
  ASSUME IInv, NEW s \in Player, NEW m \in sent, ReadControlPacket(s, m)
  PROVE  IInv'
<1> DEFINE p == m.slot
           h == highest_confirmed[s][p]
           v == controls[s][p]
<1>1. /\ p \in Player /\ p # s
      /\ m \in Packet
      /\ m.current_cycle \in Nat /\ h \in Nat /\ m.current_cycle >= h
      /\ m.highest_cycle \in Nat
      /\ v \in Seq(Input) /\ Len(v) \in Nat
  <2>1. m \in Packet BY DEF IInv, TypeOK
  <2>2. p \in Player /\ m.current_cycle \in Nat /\ m.highest_cycle \in Nat
    BY <2>1, PacketFields
  <2>3. p # s /\ m.current_cycle >= h BY DEF ReadControlPacket
  <2>4. h \in Nat /\ v \in Seq(Input) BY <2>2 DEF IInv, TypeOK
  <2> HIDE DEF p, h, v
  <2>5. Len(v) \in Nat BY <2>4
  <2>6. QED BY <2>1, <2>2, <2>3, <2>4, <2>5 DEF p
<1>2. /\ controls' = [controls EXCEPT ![s][p] = Corrected(v, m, h)]
      /\ highest_confirmed' = [highest_confirmed EXCEPT ![s][p] = m.current_cycle]
      /\ remote_highest_confirmed' =
           [remote_highest_confirmed EXCEPT
              ![s][p] = IF m.highest_cycle > @ THEN m.highest_cycle ELSE @]
      /\ UNCHANGED <<unread, aborted, played, sent, lost>>
  BY DEF ReadControlPacket
<1>3. /\ StartOf(m) \in 0..h
      /\ m.inputs # <<>>
  BY <1>1 DEF IInv, LockstepInv, PacketsReachBack, Others
<1>4. h > 0 => h < Len(v) /\ h < Len(controls[p][p])
  BY <1>1 DEF IInv, LockstepInv, ConfirmedAgreement
<1>5. /\ Corrected(v, m, h) \in Seq(Input)
      /\ Len(Corrected(v, m, h)) >= Len(v)
      /\ Len(Corrected(v, m, h)) > m.current_cycle
      /\ \A c \in 0..m.current_cycle :
           Corrected(v, m, h)[c + 1] =
             IF c < h THEN v[c + 1] ELSE m.inputs[1 + c - StartOf(m)]
  BY <1>1, <1>3, <1>4, CorrectedSeq, SMTT(30)
<1>6. first_invalid_cycle' \in [Player -> Nat \union {-1}]
  <2> DEFINE wrong == Corrections(v, m, h)
             invalid == first_invalid_cycle[s]
  <2>1. first_invalid_cycle' =
          [first_invalid_cycle EXCEPT
             ![s] = IF wrong = {} \/ (invalid # -1 /\ invalid <= Min(wrong))
                    THEN invalid ELSE Min(wrong)]
    BY DEF ReadControlPacket
  <2>2. wrong \subseteq Nat
    BY <1>1, <1>3 DEF Corrections, FirstWritten
  <2> HIDE DEF wrong
  <2>3. wrong # {} => Min(wrong) \in Nat
    BY <2>2, MinNat
  <2>4. QED BY <2>1, <2>3 DEF IInv, TypeOK
<1>7. /\ controls' \in [Player -> [Player -> Seq(Input)]]
      /\ highest_confirmed' \in [Player -> [Player -> Nat]]
      /\ remote_highest_confirmed' \in [Player -> [Player -> Nat]]
  BY <1>1, <1>2, <1>5 DEF IInv, TypeOK
<1>8. TypeOK'
  BY <1>2, <1>6, <1>7 DEF IInv, TypeOK
<1>9. /\ controls'[s][p] = Corrected(v, m, h)
      /\ highest_confirmed'[s][p] = m.current_cycle
      /\ \A r, q \in Player : ~(r = s /\ q = p) =>
           /\ controls'[r][q] = controls[r][q]
           /\ highest_confirmed'[r][q] = highest_confirmed[r][q]
           /\ remote_highest_confirmed'[r][q] = remote_highest_confirmed[r][q]
      /\ \/ remote_highest_confirmed'[s][p] = remote_highest_confirmed[s][p]
         \/ remote_highest_confirmed'[s][p] = m.highest_cycle
  BY <1>1, <1>2 DEF IInv, TypeOK
<1>10. \A r \in Player : controls'[r][r] = controls[r][r]
  BY <1>1, <1>9
<1>11. \A r, q \in Player : highest_confirmed'[r][q] >= highest_confirmed[r][q]
  <2> TAKE r, q \in Player
  <2>1. highest_confirmed[r][q] \in Nat BY DEF IInv, TypeOK
  <2>2. CASE r = s /\ q = p BY <2>2, <1>1, <1>9
  <2>3. CASE ~(r = s /\ q = p) BY <2>1, <2>3, <1>9
  <2>4. QED BY <2>2, <2>3
<1>12. \A r, q \in Player : /\ Len(controls[r][q]) \in Nat
                            /\ Len(controls'[r][q]) \in Nat
                            /\ Len(controls'[r][q]) >= Len(controls[r][q])
                            /\ highest_confirmed[r][q] \in Nat
                            /\ highest_confirmed'[r][q] \in Nat
  <2> TAKE r, q \in Player
  <2>1. controls[r][q] \in Seq(Input) /\ controls'[r][q] \in Seq(Input)
    BY <1>7 DEF IInv, TypeOK
  <2>2. highest_confirmed[r][q] \in Nat /\ highest_confirmed'[r][q] \in Nat
    BY <1>7 DEF IInv, TypeOK
  <2>3. QED BY <2>1, <2>2, <1>5, <1>9
<1>13. ConfirmedAgreement'
  <2> SUFFICES ASSUME NEW r \in Player, NEW q \in Player, r # q,
                      highest_confirmed'[r][q] > 0,
                      NEW c \in 0..highest_confirmed'[r][q]
               PROVE  /\ c < Len(controls'[r][q])
                      /\ c < Len(controls'[q][q])
                      /\ controls'[r][q][c + 1] = controls'[q][q][c + 1]
    BY DEF ConfirmedAgreement
  <2>1. CASE ~(r = s /\ q = p)
    BY <2>1, <1>9, <1>10, SMTT(30) DEF IInv, LockstepInv, ConfirmedAgreement
  <2>2. CASE r = s /\ q = p
    <3>1. c \in 0..m.current_cycle BY <2>2, <1>9
    <3>2. m.current_cycle < Len(controls[p][p])
      BY DEF IInv, LockstepInv, PacketsTrue
    <3>3. c < Len(controls'[s][p]) /\ c < Len(controls'[p][p])
      BY <3>1, <3>2, <1>1, <1>5, <1>9, <1>10, <1>12
    <3>4. CASE c < h
      <4>1. v[c + 1] = controls[p][p][c + 1]
        BY <3>1, <3>4, <1>1, SMTT(30) DEF IInv, LockstepInv, ConfirmedAgreement
      <4>2. QED BY <2>2, <3>1, <3>3, <3>4, <4>1, <1>5, <1>9, <1>10
    <3>5. CASE c >= h
      <4> DEFINE i == 1 + c - StartOf(m)
      <4>1. Len(m.inputs) \in Nat BY <1>1 DEF Packet
      <4>2. i \in 1..Len(m.inputs) /\ StartOf(m) + i = c + 1
        <5> DEFINE n == Len(m.inputs)
                   b == StartOf(m)
                   cc == m.current_cycle
        <5>1. b = 1 + cc - n BY DEF StartOf
        <5>2. n \in Nat /\ cc \in Nat /\ b \in 0..h BY <4>1, <1>1, <1>3
        <5>3. c \in 0..cc /\ c >= h /\ h \in Nat BY <3>1, <3>5, <1>1
        <5>4. i = 1 + c - b OBVIOUS
        <5> HIDE DEF n, b, cc, h, i
        <5>5. i \in 1..n /\ b + i = c + 1 BY <5>1, <5>2, <5>3, <5>4
        <5>6. QED BY <5>5 DEF n, b
      <4>3. m.inputs[i] = controls[p][p][c + 1]
        BY <4>2 DEF IInv, LockstepInv, PacketsTrue
      <4>4. controls'[s][p][c + 1] = m.inputs[i]
        BY <3>1, <3>5, <1>1, <1>5, <1>9
      <4>5. QED BY <2>2, <3>3, <4>3, <4>4, <1>1, <1>10
    <3>6. QED BY <3>1, <3>4, <3>5, <1>1
  <2>3. QED BY <2>1, <2>2
<1>14. PacketsReachBack'
  <2> SUFFICES ASSUME NEW q \in sent, NEW r \in Others(q.slot)
               PROVE  q.inputs # <<>> /\ StartOf(q) \in 0..highest_confirmed'[r][q.slot]
    BY <1>2 DEF PacketsReachBack, StartOf, Others
  <2>1. q.slot \in Player /\ r \in Player
    BY <1>8, <1>2 DEF TypeOK, Packet, Others
  <2>2. q.inputs # <<>> /\ StartOf(q) \in 0..highest_confirmed[r][q.slot]
    BY DEF IInv, LockstepInv, PacketsReachBack
  <2>3. QED BY <2>1, <2>2, <1>11, <1>12
<1>15. SimulatedTruth'
  BY <1>2, <1>10 DEF IInv, LockstepInv, SimulatedTruth
<1>16. VectorSizes'
  <2> SUFFICES ASSUME NEW r \in Player, NEW q \in Player
               PROVE  /\ highest_confirmed'[r][r] = Len(controls'[r][r])
                      /\ Len(controls'[r][q]) >= Len(controls'[r][r])
    BY DEF VectorSizes
  <2>1. /\ highest_confirmed[r][r] = Len(controls[r][r])
        /\ Len(controls[r][q]) >= Len(controls[r][r])
    BY DEF IInv, LockstepInv, VectorSizes
  <2>2. highest_confirmed'[r][r] = highest_confirmed[r][r]
    BY <1>1, <1>9
  <2>3. QED BY <2>1, <2>2, <1>10, <1>12
<1>17. PacketsTrue'
  <2> SUFFICES ASSUME NEW q \in sent
               PROVE  /\ q.current_cycle < Len(controls'[q.slot][q.slot])
                      /\ \A i \in 1..Len(q.inputs) :
                           q.inputs[i] = controls'[q.slot][q.slot][StartOf(q) + i]
                      /\ \A r \in Others(q.slot) :
                           q.highest_cycle <= highest_confirmed'[q.slot][r]
    BY <1>2 DEF PacketsTrue, StartOf, Others
  <2>1. q.slot \in Player /\ q.highest_cycle \in Nat
    BY DEF IInv, TypeOK, Packet
  <2>2. /\ q.current_cycle < Len(controls[q.slot][q.slot])
        /\ \A i \in 1..Len(q.inputs) :
             q.inputs[i] = controls[q.slot][q.slot][StartOf(q) + i]
        /\ \A r \in Others(q.slot) :
             q.highest_cycle <= highest_confirmed[q.slot][r]
    BY DEF IInv, LockstepInv, PacketsTrue
  <2>3. controls'[q.slot][q.slot] = controls[q.slot][q.slot]
    BY <2>1, <1>10
  <2>4. ASSUME NEW r \in Others(q.slot)
        PROVE  q.highest_cycle <= highest_confirmed'[q.slot][r]
    <3>1. r \in Player BY DEF Others
    <3>2. QED BY <2>1, <2>2, <3>1, <1>11, <1>12, SMTT(30)
  <2>5. QED BY <2>2, <2>3, <2>4
<1>18. AcksTrue'
  <2> SUFFICES ASSUME NEW r \in Player, NEW q \in Others(r)
               PROVE  remote_highest_confirmed'[r][q] <= highest_confirmed'[q][r]
    BY DEF AcksTrue, Others
  <2>1. q \in Player /\ q # r BY DEF Others
  <2>2. remote_highest_confirmed[r][q] <= highest_confirmed[q][r]
    BY DEF IInv, LockstepInv, AcksTrue
  <2>3. remote_highest_confirmed[r][q] \in Nat
    BY <2>1 DEF IInv, TypeOK
  <2>4. remote_highest_confirmed'[r][q] = remote_highest_confirmed[r][q] =>
          remote_highest_confirmed'[r][q] <= highest_confirmed'[q][r]
    BY <2>1, <2>2, <2>3, <1>11, <1>12
  <2>5. CASE r = s /\ q = p /\ remote_highest_confirmed'[s][p] = m.highest_cycle
    <3>1. m.highest_cycle <= highest_confirmed[p][s]
      BY <1>1 DEF IInv, LockstepInv, PacketsTrue, Others
    <3>2. QED BY <2>1, <2>5, <3>1, <1>1, <1>11, <1>12
  <2>6. QED BY <2>1, <2>4, <2>5, <1>9
<1>19. SimulatedConfirmed'
  <2> SUFFICES ASSUME NEW r \in Player, NEW q \in Player
               PROVE  /\ Len(played[r][q]) =
                           IF q \in unread[r] THEN Len(controls'[r][r]) - 1
                           ELSE Len(controls'[r][r])
                      /\ q \in unread[r] => Len(controls'[r][r]) > 0
                      /\ q # r => Len(played[r][q]) <=
                                   Delay[r] + 1 + highest_confirmed'[r][q]
    BY <1>2 DEF SimulatedConfirmed, CycleOf
  <2>1. /\ Len(played[r][q]) =
             IF q \in unread[r] THEN Len(controls[r][r]) - 1
             ELSE Len(controls[r][r])
        /\ q \in unread[r] => Len(controls[r][r]) > 0
        /\ q # r => Len(played[r][q]) <= Delay[r] + 1 + highest_confirmed[r][q]
    BY DEF IInv, LockstepInv, SimulatedConfirmed, CycleOf
  <2>2. Len(played[r][q]) \in Nat /\ Delay[r] \in Nat
    BY DelayAssumption DEF IInv, TypeOK
  <2>3. /\ highest_confirmed'[r][q] >= highest_confirmed[r][q]
        /\ highest_confirmed[r][q] \in Nat /\ highest_confirmed'[r][q] \in Nat
        /\ controls'[r][r] = controls[r][r]
    BY <1>10, <1>11, <1>12
  <2>4. q # r => Len(played[r][q]) <= Delay[r] + 1 + highest_confirmed'[r][q]
    <3> DEFINE a == Len(played[r][q])
               old == highest_confirmed[r][q]
               new == highest_confirmed'[r][q]
    <3>1. q # r => a <= Delay[r] + 1 + old BY <2>1, Zenon
    <3>2. a \in Nat /\ Delay[r] \in Nat /\ old \in Nat /\ new \in Nat /\ new >= old
      BY <2>2, <2>3
    <3> HIDE DEF a, old, new
    <3>3. q # r => a <= Delay[r] + 1 + new BY <3>1, <3>2
    <3>4. QED BY <3>3 DEF a, new
  <2>5. QED BY <2>1, <2>3, <2>4, Zenon
<1>20. QED
  BY <1>8, <1>13, <1>14, <1>15, <1>16, <1>17, <1>18, <1>19 DEF IInv, LockstepInv

\* Reading a confirmed input into the simulation keeps the invariant.
LEMMA GetControlStatusInv ==
  ASSUME IInv, NEW s \in Player, NEW p \in Player, GetControlStatus(s, p)
  PROVE  IInv'
<1>1. PICK used \in Input :
        /\ ReadIndex(s) >= 0 => used = controls[s][p][ReadIndex(s) + 1]
        /\ played' = [played EXCEPT ![s][p] = Append(@, used)]
  BY DEF GetControlStatus
<1>2. /\ p \in unread[s]
      /\ ~aborted[s] /\ ~Waiting(s, p)
      /\ unread' = [unread EXCEPT ![s] = @ \ {p}]
      /\ UNCHANGED <<controls, highest_confirmed, remote_highest_confirmed,
                     first_invalid_cycle, aborted, sent, lost>>
  BY DEF GetControlStatus
<1>3. TypeOK'
  <2>1. played' \in [Player -> [Player -> Seq(Input)]]
    <3>1. Append(played[s][p], used) \in Seq(Input)
      BY DEF IInv, TypeOK
    <3>2. played' = [played EXCEPT ![s][p] = Append(played[s][p], used)]
      BY <1>1
    <3>3. QED BY <3>1, <3>2 DEF IInv, TypeOK
  <2>2. unread' \in [Player -> SUBSET Player]
    BY <1>2 DEF IInv, TypeOK
  <2>3. QED BY <2>1, <2>2, <1>2 DEF IInv, TypeOK
<1> DEFINE n == Len(controls[s][s])
<1>4. /\ n \in Nat /\ n > 0
      /\ Len(played[s][p]) = n - 1
      /\ played[s][p] \in Seq(Input)
      /\ Delay[s] \in Nat
      /\ highest_confirmed[s][p] \in Nat
      /\ ReadIndex(s) = n - 1 - Delay[s]
  <2>1. n \in Nat /\ played[s][p] \in Seq(Input) /\ highest_confirmed[s][p] \in Nat
    BY DEF IInv, TypeOK
  <2>2. n > 0 /\ Len(played[s][p]) = n - 1
    BY <1>2 DEF IInv, LockstepInv, SimulatedConfirmed, CycleOf
  <2>3. QED BY <2>1, <2>2, DelayAssumption DEF ReadIndex, CycleOf
<1>5. p # s => ReadIndex(s) <= highest_confirmed[s][p]
  BY <1>2, <1>4 DEF Waiting
<1>6. /\ Len(played'[s][p]) = n
      /\ played'[s][p][n] = used
      /\ \A k \in 1..(n - 1) : played'[s][p][k] = played[s][p][k]
      /\ \A r, q \in Player : ~(r = s /\ q = p) => played'[r][q] = played[r][q]
  <2>1. played'[s][p] = Append(played[s][p], used)
    BY <1>1 DEF IInv, TypeOK
  <2>2. \A r, q \in Player : ~(r = s /\ q = p) => played'[r][q] = played[r][q]
    BY <1>1 DEF IInv, TypeOK
  <2>3. QED BY <2>1, <2>2, <1>4
<1>7. SimulatedTruth'
  <2> SUFFICES ASSUME NEW r \in Player, NEW q \in Player,
                      NEW k \in Delay[r] + 2 .. Len(played'[r][q])
               PROVE  /\ k - Delay[r] <= Len(controls[q][q])
                      /\ played'[r][q][k] = controls[q][q][k - Delay[r]]
    BY <1>2 DEF SimulatedTruth
  <2>1. CASE ~(r = s /\ q = p)
    BY <2>1, <1>6 DEF IInv, LockstepInv, SimulatedTruth
  <2>2. CASE r = s /\ q = p /\ k < n
    <3>1. k \in Delay[s] + 2 .. Len(played[s][p]) /\ k \in 1..(n - 1)
      BY <2>2, <1>4, <1>6
    <3>2. /\ k - Delay[s] <= Len(controls[p][p])
          /\ played[s][p][k] = controls[p][p][k - Delay[s]]
      BY <3>1 DEF IInv, LockstepInv, SimulatedTruth
    <3>3. QED BY <2>2, <3>1, <3>2, <1>6
  <2>3. CASE r = s /\ q = p /\ k = n
    <3>1. ReadIndex(s) >= 1 /\ ReadIndex(s) + 1 = n - Delay[s]
      BY <2>3, <1>4, SMTT(30)
    <3>2. played'[s][p][n] = controls[s][p][n - Delay[s]]
      <4>1. ReadIndex(s) >= 0 BY <3>1, <1>4
      <4>2. used = controls[s][p][ReadIndex(s) + 1] BY <4>1, <1>1
      <4>3. QED BY <4>2, <3>1, <1>6
    <3>3. CASE p = s
      BY <2>3, <3>2, <3>3, <1>4
    <3>4. CASE p # s
      <4>1. highest_confirmed[s][p] > 0
        BY <3>1, <3>4, <1>4, <1>5
      <4>2. ReadIndex(s) \in 0..highest_confirmed[s][p]
        BY <3>1, <3>4, <1>4, <1>5
      <4>3. /\ ReadIndex(s) < Len(controls[p][p])
            /\ controls[s][p][ReadIndex(s) + 1] = controls[p][p][ReadIndex(s) + 1]
        BY <3>4, <4>1, <4>2 DEF IInv, LockstepInv, ConfirmedAgreement
      <4>4. Len(controls[p][p]) \in Nat
        BY DEF IInv, TypeOK
      <4>5. n - Delay[s] <= Len(controls[p][p])
        <5>1. ReadIndex(s) + 1 <= Len(controls[p][p])
          <6> DEFINE a == Len(controls[p][p])
                     b == ReadIndex(s)
          <6>1. a \in Nat /\ b \in Int /\ b < a
            <7>1. b \in Int BY <1>4
            <7>2. QED BY <4>3, <4>4, <7>1
          <6> HIDE DEF a, b
          <6>2. b + 1 <= a BY <6>1
          <6>3. QED BY <6>2 DEF a, b
        <5>2. QED BY <3>1, <5>1
      <4>6. played'[s][p][n] = controls[p][p][n - Delay[s]]
        BY <3>1, <3>2, <4>3
      <4>7. QED BY <2>3, <4>5, <4>6
    <3>5. QED BY <3>3, <3>4
  <2>4. QED BY <2>1, <2>2, <2>3, <1>4, <1>6
<1>8. SimulatedConfirmed'
  <2> SUFFICES ASSUME NEW r \in Player, NEW q \in Player
               PROVE  /\ Len(played'[r][q]) =
                           IF q \in unread'[r] THEN Len(controls[r][r]) - 1
                           ELSE Len(controls[r][r])
                      /\ q \in unread'[r] => Len(controls[r][r]) > 0
                      /\ q # r => Len(played'[r][q]) <=
                                   Delay[r] + 1 + highest_confirmed[r][q]
    BY <1>2 DEF SimulatedConfirmed, CycleOf
  <2>1. /\ Len(played[r][q]) =
             IF q \in unread[r] THEN Len(controls[r][r]) - 1
             ELSE Len(controls[r][r])
        /\ q \in unread[r] => Len(controls[r][r]) > 0
        /\ q # r => Len(played[r][q]) <= Delay[r] + 1 + highest_confirmed[r][q]
    BY DEF IInv, LockstepInv, SimulatedConfirmed, CycleOf
  <2>2. ~(r = s /\ q = p) => (q \in unread'[r] <=> q \in unread[r])
    BY <1>2 DEF IInv, TypeOK
  <2>3. p \notin unread'[s]
    BY <1>2 DEF IInv, TypeOK
  <2>4. CASE r = s /\ q = p
    BY <2>3, <2>4, <1>4, <1>5, <1>6
  <2>5. CASE ~(r = s /\ q = p)
    BY <2>1, <2>2, <2>5, <1>6
  <2>6. QED BY <2>4, <2>5
<1>9. /\ ConfirmedAgreement' /\ PacketsReachBack' /\ VectorSizes'
      /\ PacketsTrue' /\ AcksTrue'
  BY <1>2 DEF IInv, LockstepInv, ConfirmedAgreement, PacketsReachBack,
              VectorSizes, PacketsTrue, AcksTrue, StartOf, Others
<1>10. QED
  BY <1>3, <1>7, <1>8, <1>9 DEF IInv, LockstepInv

\* Giving up, losing a packet and stuttering touch nothing the invariant names.
LEMMA RemainingInv ==
  ASSUME IInv,
         \/ \E s \in Player : RemoteHostTimedOut(s)
         \/ \E s \in Player : \E m \in sent : Lose(s, m)
         \/ UNCHANGED vars
  PROVE  IInv'
<1>1. /\ UNCHANGED <<controls, highest_confirmed, remote_highest_confirmed,
                     first_invalid_cycle, unread, played, sent>>
      /\ aborted' \in [Player -> BOOLEAN]
      /\ lost' \subseteq Player \X Packet
  <2>1. CASE \E s \in Player : RemoteHostTimedOut(s)
    BY <2>1 DEF RemoteHostTimedOut, IInv, TypeOK
  <2>2. CASE \E s \in Player : \E m \in sent : Lose(s, m)
    BY <2>2, SMTT(30) DEF Lose, IInv, TypeOK
  <2>3. CASE UNCHANGED vars
    BY <2>3 DEF vars, IInv, TypeOK
  <2>4. QED BY <2>1, <2>2, <2>3
<1>2. TypeOK' BY <1>1 DEF IInv, TypeOK
<1>3. LockstepInv'
  BY <1>1 DEF IInv, LockstepInv, ConfirmedAgreement, PacketsReachBack,
              SimulatedTruth, VectorSizes, PacketsTrue, AcksTrue,
              SimulatedConfirmed, CycleOf, StartOf, Others
<1>4. QED BY <1>2, <1>3 DEF IInv

\* The invariant is inductive, for any number of players, any inputs and any
\* delays, over a network that loses, repeats and reorders packets.
THEOREM LockstepInvariant == Spec => []IInv
<1>1. Init => IInv BY InitInv
<1>2. IInv /\ [Next]_vars => IInv'
  BY StartCycleInv, ReadControlPacketInv, GetControlStatusInv, RemainingInv
     DEF Next
<1>3. QED BY <1>1, <1>2, PTL DEF Spec

\* The variables of the loop keep their shape: the vectors stay vectors of
\* inputs, the counters stay natural (controls.cpp:40-62).
THEOREM TypeCorrect == Spec => []TypeOK
<1>1. IInv => TypeOK BY DEF IInv
<1>2. QED BY <1>1, LockstepInvariant, PTL

\* What a peer calls confirmed is what the player did (controls.cpp:48).
THEOREM ConfirmedInputsAgree == Spec => []ConfirmedAgreement
<1>1. IInv => ConfirmedAgreement BY DEF IInv, LockstepInv
<1>2. QED BY <1>1, LockstepInvariant, PTL

\* No packet leaves a hole in the receiver's inputs, and read_control_packet
\* consumes each packet exactly (the assertion at controls.cpp:454).
THEOREM PacketsLeaveNoHole == Spec => []PacketsReachBack
<1>1. IInv => PacketsReachBack BY DEF IInv, LockstepInv
<1>2. QED BY <1>1, LockstepInvariant, PTL

\* After the warm-up and cycle 0, every simulation uses the players' true
\* inputs: the promise of lockstep.
THEOREM SimulationsAgree == Spec => []SimulatedTruth
<1>1. IInv => SimulatedTruth BY DEF IInv, LockstepInv
<1>2. QED BY <1>1, LockstepInvariant, PTL

\* Peers with one delay simulate one game: whatever either has simulated of
\* a player after the start, the other simulates the same.  That all peers
\* have one delay is what the pings of sync_start_time are for (SyncStart).
SameGame ==
  \A s, t, p \in Player : Delay[s] = Delay[t] =>
    \A k \in Delay[s] + 2 .. Len(played[s][p]) :
      k <= Len(played[t][p]) => played[s][p][k] = played[t][p][k]

THEOREM EqualDelaysPlaySameGame == Spec => []SameGame
<1>1. ASSUME IInv, NEW s \in Player, NEW t \in Player, NEW p \in Player, Delay[s] = Delay[t],
             NEW k \in Delay[s] + 2 .. Len(played[s][p]), k <= Len(played[t][p])
      PROVE  played[s][p][k] = played[t][p][k]
  <2>1. Delay[s] \in Nat /\ Len(played[t][p]) \in Nat /\ Len(played[s][p]) \in Nat
    <3>1. played[t][p] \in Seq(Input) /\ played[s][p] \in Seq(Input)
      BY <1>1 DEF IInv, TypeOK
    <3>2. Delay[s] \in Nat BY DelayAssumption
    <3>3. QED BY <3>1, <3>2
  <2>2. k \in Delay[t] + 2 .. Len(played[t][p]) BY <1>1, <2>1
  <2>3. SimulatedTruth BY <1>1 DEF IInv, LockstepInv
  <2>4. /\ played[s][p][k] = controls[p][p][k - Delay[s]]
        /\ played[t][p][k] = controls[p][p][k - Delay[t]]
    BY <1>1, <2>2, <2>3, Zenon DEF SimulatedTruth
  <2>5. QED BY <1>1, <2>4
<1>2. IInv => SameGame BY <1>1 DEF SameGame
<1>3. QED BY <1>2, LockstepInvariant, PTL

\* No peer runs ahead of another by more than its delay and the cycle it has
\* just started: get_control_status holds it back.
THEOREM LeadIsBounded == Spec => []BoundedLead
<1>1. IInv => BoundedLead
  <2> SUFFICES ASSUME IInv, NEW s \in Player, NEW p \in Player
               PROVE  CycleOf(s) <= Delay[s] + 1 +
                        (IF CycleOf(p) > 0 THEN CycleOf(p) ELSE 1)
    BY DEF BoundedLead
  <2>1. /\ CycleOf(s) \in Nat /\ CycleOf(p) \in Nat /\ Delay[s] \in Nat
        /\ Len(played[s][p]) \in Nat /\ highest_confirmed[s][p] \in Nat
    BY DelayAssumption, SMTT(30) DEF IInv, TypeOK, CycleOf
  <2>2. CASE p = s BY <2>1, <2>2
  <2>3. CASE p # s
    <3>1. /\ CycleOf(s) - 1 <= Len(played[s][p])
          /\ Len(played[s][p]) <= Delay[s] + 1 + highest_confirmed[s][p]
      BY <2>1, <2>3 DEF IInv, LockstepInv, SimulatedConfirmed
    <3>2. highest_confirmed[s][p] > 0 => highest_confirmed[s][p] < CycleOf(p)
      BY <2>1, <2>3 DEF IInv, LockstepInv, ConfirmedAgreement, CycleOf
    <3>3. QED BY <2>1, <3>1, <3>2, SMTT(30)
  <2>4. QED BY <2>2, <2>3
<1>2. QED BY <1>1, LockstepInvariant, PTL

\* The inputs a simulation has used are a record that only grows.
LEMMA PlayedGrows ==
  ASSUME IInv, [Next]_vars, NEW s \in Player, NEW p \in Player
  PROVE  /\ Len(played'[s][p]) >= Len(played[s][p])
         /\ \A k \in 1..Len(played[s][p]) : played'[s][p][k] = played[s][p][k]
<1>1. played[s][p] \in Seq(Input)
  BY DEF IInv, TypeOK
<1>2. CASE UNCHANGED played BY <1>1, <1>2
<1>3. ASSUME NEW r \in Player, NEW q \in Player, GetControlStatus(r, q)
      PROVE  /\ Len(played'[s][p]) >= Len(played[s][p])
             /\ \A k \in 1..Len(played[s][p]) : played'[s][p][k] = played[s][p][k]
  <2>1. PICK used \in Input :
          played' = [played EXCEPT ![r][q] = Append(played[r][q], used)]
    BY <1>3 DEF GetControlStatus
  <2>2. played'[s][p] = IF r = s /\ q = p THEN Append(played[s][p], used)
                        ELSE played[s][p]
    BY <2>1 DEF IInv, TypeOK
  <2>3. QED BY <1>1, <2>2
<1>4. QED BY <1>2, <1>3 DEF Next, StartCycle, ReadControlPacket,
                            RemoteHostTimedOut, Lose, vars

\* No packet rewrites an input that has been simulated, cycle 0 apart, so
\* nothing is lost when play_cycle forgets first_invalid_cycle.
THEOREM SimulatedInputsNeverRewritten == Spec => SimulatedInputsAreFinal
<1>1. ASSUME IInv, IInv', [Next]_vars, NEW s \in Player, NEW p \in Player,
             NEW k \in Delay[s] + 2 .. Len(played[s][p])
      PROVE  controls'[s][p][k - Delay[s]] = controls[s][p][k - Delay[s]]
  <2> DEFINE c == k - Delay[s] - 1
  <2>1. /\ Delay[s] \in Nat
        /\ Len(played[s][p]) \in Nat /\ Len(played'[s][p]) \in Nat
        /\ highest_confirmed[s][p] \in Nat /\ highest_confirmed'[s][p] \in Nat
    <3>1. /\ played[s][p] \in Seq(Input)
          /\ highest_confirmed[s][p] \in Nat
      BY <1>1 DEF IInv, TypeOK
    <3>2. /\ played'[s][p] \in Seq(Input)
          /\ highest_confirmed'[s][p] \in Nat
      BY <1>1 DEF IInv, TypeOK
    <3>3. QED BY <3>1, <3>2, DelayAssumption
  <2>2. /\ Len(played'[s][p]) >= Len(played[s][p])
        /\ played'[s][p][k] = played[s][p][k]
    BY <1>1, <2>1, PlayedGrows
  <2>3. k \in Delay[s] + 2 .. Len(played'[s][p])
    BY <2>1, <2>2
  <2>4. controls'[p][p][k - Delay[s]] = controls[p][p][k - Delay[s]]
    BY <1>1, <2>2, <2>3 DEF IInv, LockstepInv, SimulatedTruth
  <2>5. CASE p = s BY <2>4, <2>5
  <2>6. CASE p # s
    <3>1. c \in 1..highest_confirmed[s][p]
      <4>1. Len(played[s][p]) <= Delay[s] + 1 + highest_confirmed[s][p]
        BY <1>1, <2>6 DEF IInv, LockstepInv, SimulatedConfirmed
      <4>2. k \in Int /\ k >= Delay[s] + 2 /\ k <= Len(played[s][p])
        BY <2>1
      <4>3. c \in Int /\ c >= 1 /\ c <= highest_confirmed[s][p]
        <5>1. k <= Delay[s] + 1 + highest_confirmed[s][p]
          BY <2>1, <4>1, <4>2, SMTT(30)
        <5>2. Delay[s] \in Int /\ highest_confirmed[s][p] \in Int
          BY <2>1
        <5>3. QED BY <5>1, <5>2, <4>2
      <4> HIDE DEF c
      <4>4. QED BY <2>1, <4>3
    <3>2. c \in 1..highest_confirmed'[s][p]
      <4>1. Len(played'[s][p]) <= Delay[s] + 1 + highest_confirmed'[s][p]
        BY <1>1, <2>6 DEF IInv, LockstepInv, SimulatedConfirmed
      <4>2. k \in Int /\ k >= Delay[s] + 2 /\ k <= Len(played'[s][p])
        BY <2>1, <2>3
      <4>3. c \in Int /\ c >= 1 /\ c <= highest_confirmed'[s][p]
        BY <2>1, <4>1, <4>2, SMTT(30)
      <4> HIDE DEF c
      <4>4. QED BY <2>1, <4>3
    <3>3. controls[s][p][c + 1] = controls[p][p][c + 1]
      <4>1. /\ highest_confirmed[s][p] > 0
            /\ c \in 0..highest_confirmed[s][p]
        BY <2>1, <3>1
      <4> HIDE DEF c
      <4>2. QED BY <1>1, <2>6, <4>1 DEF IInv, LockstepInv, ConfirmedAgreement
    <3>4. controls'[s][p][c + 1] = controls'[p][p][c + 1]
      <4>1. /\ highest_confirmed'[s][p] > 0
            /\ c \in 0..highest_confirmed'[s][p]
        BY <2>1, <3>2
      <4> HIDE DEF c
      <4>2. QED BY <1>1, <2>6, <4>1 DEF IInv, LockstepInv, ConfirmedAgreement
    <3>5. c + 1 = k - Delay[s] BY <2>1
    <3>6. QED BY <2>4, <3>3, <3>4, <3>5
  <2>7. QED BY <2>5, <2>6
<1>2. IInv /\ IInv' /\ [Next]_vars =>
        [\A s, p \in Player : \A k \in Delay[s] + 2 .. Len(played[s][p]) :
           controls'[s][p][k - Delay[s]] = controls[s][p][k - Delay[s]]]_vars
  BY <1>1
<1>3. QED BY <1>2, LockstepInvariant, PTL DEF Spec, SimulatedInputsAreFinal

-----------------------------------------------------------------------------
(* How many packets must be lost before all peers wait for each other.      *)

\* Every cycle a peer has begun was sent, and finitely many packets are lost.
SentAndLost ==
  /\ \A p \in Player : \A c \in 0 .. CycleOf(p) - 1 :
       \E m \in sent : m.slot = p /\ m.current_cycle = c
  /\ IsFiniteSet(lost)

\* Only its own StartCycle makes a peer's own vector longer, and it sends the
\* new cycle.
LEMMA SentAndLostStep ==
  ASSUME IInv, SentAndLost, [Next]_vars
  PROVE  SentAndLost'
<1>1. ASSUME NEW s \in Player, StartCycle(s)
      PROVE  SentAndLost'
  <2>1. PICK input \in Input :
          LET own == Append(controls[s][s], input)
              row == [p \in Player |-> IF p = s THEN own
                                       ELSE Padded(controls[s][p], Len(own))]
              hc == [highest_confirmed[s] EXCEPT ![s] = @ + 1]
          IN /\ controls' = [controls EXCEPT ![s] = row]
             /\ sent' = sent \union {ControlPacket(s, own, hc)}
    BY <1>1 DEF StartCycle
  <2> DEFINE own == Append(controls[s][s], input)
             new == ControlPacket(s, own, [highest_confirmed[s] EXCEPT ![s] = @ + 1])
  <2>2. sent' = sent \union {new} /\ lost' = lost
    BY <1>1, <2>1 DEF StartCycle
  <2>3. controls[s][s] \in Seq(Input) /\ Len(controls[s][s]) \in Nat
    BY DEF IInv, TypeOK
  <2>4. Len(own) = Len(controls[s][s]) + 1
    BY <2>3, AppendProperties
  <2>5. new.slot = s /\ new.current_cycle = Len(controls[s][s])
    BY <2>3, <2>4 DEF ControlPacket
  <2>6. \A p \in Player : controls'[p][p] = IF p = s THEN own ELSE controls[p][p]
    BY <2>1 DEF IInv, TypeOK
  <2> HIDE DEF own, new
  <2>7. ASSUME NEW p \in Player, NEW c \in 0 .. Len(controls'[p][p]) - 1
        PROVE  \E m \in sent' : m.slot = p /\ m.current_cycle = c
    <3>1. CASE p = s /\ c = Len(controls[s][s])
      BY <2>2, <2>5, <3>1
    <3>2. CASE ~(p = s /\ c = Len(controls[s][s]))
      <4>1. c \in 0 .. Len(controls[p][p]) - 1
        <5>1. Len(controls[p][p]) \in Nat
          BY DEF IInv, TypeOK
        <5>2. Len(controls'[p][p]) = IF p = s THEN Len(controls[s][s]) + 1
                                     ELSE Len(controls[p][p])
          BY <2>4, <2>6
        <5> QED BY <2>3, <2>7, <3>2, <5>1, <5>2
      <4> QED BY <2>2, <4>1 DEF SentAndLost, CycleOf
    <3> QED BY <3>1, <3>2
  <2> QED BY <2>2, <2>7 DEF SentAndLost, CycleOf
<1>2. ASSUME NEW s \in Player, NEW m \in sent, ReadControlPacket(s, m)
      PROVE  SentAndLost'
  <2>1. m.slot # s /\ controls' = [controls EXCEPT ![s][m.slot] =
                                     Corrected(@, m, highest_confirmed[s][m.slot])]
    BY <1>2 DEF ReadControlPacket
  <2>2. \A p \in Player : controls'[p][p] = controls[p][p]
    BY <2>1 DEF IInv, TypeOK
  <2>3. UNCHANGED <<sent, lost>>
    BY <1>2 DEF ReadControlPacket
  <2> QED BY <2>2, <2>3 DEF SentAndLost, CycleOf
<1>3. ASSUME NEW s \in Player, NEW m \in sent, Lose(s, m)
      PROVE  SentAndLost'
  <2>1. lost' = lost \union {<<s, m>>} /\ UNCHANGED <<controls, sent>>
    BY <1>3 DEF Lose
  <2>2. IsFiniteSet(lost')
    BY <2>1, FS_AddElement DEF SentAndLost
  <2> QED BY <2>1, <2>2 DEF SentAndLost, CycleOf
<1>4. CASE UNCHANGED <<controls, sent, lost>>
  BY <1>4 DEF SentAndLost, CycleOf
<1> QED
  BY <1>1, <1>2, <1>3, <1>4 DEF Next, vars, GetControlStatus, RemoteHostTimedOut

LEMMA CycleOfNat ==
  ASSUME IInv
  PROVE  \A p \in Player : CycleOf(p) \in Nat
<1>1. ASSUME NEW p \in Player
      PROVE  CycleOf(p) \in Nat
  <2>1. controls[p][p] \in Seq(Input)
    BY DEF IInv, TypeOK
  <2> QED BY <2>1, LenProperties DEF CycleOf
<1> QED BY <1>1

\* The packets of p that s has lost.
LostOf(s, p) == {x \in lost : x[1] = s /\ x[2].slot = p}

\* When s waits for p and no packet can help it, all packets of p since the
\* cycle confirmed last are lost.
LEMMA LostWhileWaiting ==
  ASSUME IInv, SentAndLost, NEW s \in Player, NEW p \in Player,
         Waiting(s, p), \A m \in sent : ~Helps(s, m)
  PROVE  /\ Cardinality(LostOf(s, p)) \in Nat
         /\ Cardinality(LostOf(s, p)) >= CycleOf(p) - CycleOf(s) + 1 + Delay[s]
<1> DEFINE h == highest_confirmed[s][p]
           n == CycleOf(p)
           cycles == h + 1 .. n - 1
           packet == [c \in cycles |-> <<s, CHOOSE m \in sent : m.slot = p /\ m.current_cycle = c>>]
<1>1. h \in Nat /\ n \in Nat /\ CycleOf(s) \in Nat /\ Delay[s] \in Nat
  BY DelayAssumption, CycleOfNat DEF IInv, TypeOK
<1>2. CycleOf(s) - 1 - Delay[s] > h
  BY DEF Waiting, ReadIndex
<1> HIDE DEF h, n
<1>3. ASSUME NEW c \in cycles
      PROVE  /\ packet[c] \in LostOf(s, p)
             /\ packet[c][2].current_cycle = c
  <2>1. c \in 0 .. n - 1 /\ c > h
    BY <1>1
  <2>2. \E m \in sent : m.slot = p /\ m.current_cycle = c
    BY <2>1 DEF SentAndLost, n
  <2> DEFINE m == CHOOSE k \in sent : k.slot = p /\ k.current_cycle = c
  <2>3. m \in sent /\ m.slot = p /\ m.current_cycle = c
    BY <2>2
  <2>4. packet[c] = <<s, m>>
    BY DEF packet
  <2> HIDE DEF m, packet
  <2>5. <<s, m>> \in lost
    BY <2>1, <2>3 DEF Helps, h
  <2> QED BY <2>3, <2>4, <2>5 DEF LostOf
<1> HIDE DEF packet
<1>4. IsFiniteSet(LostOf(s, p)) /\ Cardinality(LostOf(s, p)) \in Nat
  <2>1. LostOf(s, p) \in SUBSET lost
    BY DEF LostOf
  <2> QED BY <2>1, FS_Subset, FS_CardinalityType DEF SentAndLost
<1>5. packet \in Injection(cycles, LostOf(s, p))
  <2>1. packet \in [cycles -> LostOf(s, p)]
    BY <1>3 DEF packet
  <2>2. \A c, d \in cycles : packet[c] = packet[d] => c = d
    BY <1>3
  <2> QED BY <2>1, <2>2 DEF Injection, IsInjective
<1>6. Cardinality(cycles) <= Cardinality(LostOf(s, p))
  BY <1>4, <1>5, FS_Injection
<1>7. Cardinality(cycles) = IF h + 1 > n - 1 THEN 0 ELSE n - 1 - (h + 1) + 1
  <2>1. h + 1 \in Int /\ n - 1 \in Int
    BY <1>1
  <2> QED BY <2>1, FS_Interval
<1> HIDE DEF cycles
<1> QED BY <1>1, <1>2, <1>4, <1>6, <1>7 DEF n

\* Among numbers of players there is a smallest.
LEMMA FewestCycles ==
  ASSUME IInv
  PROVE  \E s \in Player : \A p \in Player : CycleOf(s) <= CycleOf(p)
<1> DEFINE S == {CycleOf(p) : p \in Player}
<1>1. S \subseteq Nat /\ S # {}
  BY PlayerAssumption, CycleOfNat
<1>2. Min(S) \in S /\ \A x \in S : Min(S) <= x
  BY <1>1, MinNat
<1> QED BY <1>2

\* All peers wait for each other, with no packet on its way that would help,
\* only after 2 * (d + 1) packets were lost, d being the smallest delay: the
\* peer that is behind misses those of the peer it waits for, and that one
\* those of a third, or of the first (get_control_status and
\* multiplayer::receive, for any number of peers).
THEOREM LossIsTolerated == Spec => []LossTolerance
<1>1. Init => SentAndLost
  <2> SUFFICES ASSUME Init PROVE SentAndLost
    OBVIOUS
  <2>1. \A p \in Player : 0 .. CycleOf(p) - 1 = {}
    BY DEF Init, CycleOf
  <2>2. IsFiniteSet(lost)
    BY FS_EmptySet DEF Init
  <2> QED BY <2>1, <2>2 DEF SentAndLost
<1>2. ASSUME IInv, SentAndLost, Stuck
      PROVE  Cardinality(lost) >= 2 * (1 + Min({Delay[s] : s \in Player}))
  <2>1. PICK s \in Player : \A t \in Player : CycleOf(s) <= CycleOf(t)
    BY <1>2, FewestCycles
  <2>2. PICK p \in Player : Waiting(s, p)
    BY <1>2 DEF Stuck
  <2>3. PICK q \in Player : Waiting(p, q)
    BY <1>2 DEF Stuck
  <2>4. p # s
    BY <2>2 DEF Waiting
  <2>5. /\ Cardinality(LostOf(s, p)) \in Nat
        /\ Cardinality(LostOf(s, p)) >= CycleOf(p) - CycleOf(s) + 1 + Delay[s]
    BY <1>2, <2>2, LostWhileWaiting DEF Stuck
  <2>6. /\ Cardinality(LostOf(p, q)) \in Nat
        /\ Cardinality(LostOf(p, q)) >= CycleOf(q) - CycleOf(p) + 1 + Delay[p]
    BY <1>2, <2>3, LostWhileWaiting DEF Stuck
  <2>7. CycleOf(s) \in Nat /\ CycleOf(p) \in Nat /\ CycleOf(q) \in Nat
    BY <1>2, CycleOfNat
  <2>8. Cardinality(LostOf(s, p)) + Cardinality(LostOf(p, q)) <= Cardinality(lost)
    <3> DEFINE A == LostOf(s, p)
               B == LostOf(p, q)
    <3>1. A \in SUBSET lost /\ B \in SUBSET lost /\ A \intersect B = {}
      BY <2>4 DEF LostOf
    <3>2. IsFiniteSet(lost) /\ IsFiniteSet(A) /\ IsFiniteSet(B)
      BY <1>2, <3>1, FS_Subset DEF SentAndLost
    <3> HIDE DEF A, B
    <3>3. Cardinality(A \union B) = Cardinality(A) + Cardinality(B) - Cardinality(A \intersect B)
      BY <3>2, FS_Union
    <3>4. Cardinality(A \intersect B) = 0
      BY <3>1, FS_EmptySet
    <3>5. A \union B \in SUBSET lost
      BY <3>1
    <3>6. Cardinality(A \union B) <= Cardinality(lost)
      BY <3>2, <3>5, FS_Subset
    <3>7. Cardinality(A) \in Nat /\ Cardinality(B) \in Nat
      BY <3>2, FS_CardinalityType
    <3>8. Cardinality(A) + Cardinality(B) <= Cardinality(lost)
      BY <3>3, <3>4, <3>6, <3>7
    <3> QED BY <3>8 DEF A, B
  <2>9. Cardinality(lost) \in Nat
    BY <1>2, FS_CardinalityType DEF SentAndLost
  <2> DEFINE d == Min({Delay[t] : t \in Player})
  <2>10. d \in Nat /\ d <= Delay[s] /\ d <= Delay[p] /\ Delay[s] \in Nat /\ Delay[p] \in Nat
    <3> DEFINE D == {Delay[t] : t \in Player}
    <3>1. D \subseteq Nat /\ D # {}
      BY DelayAssumption
    <3>2. Min(D) \in D /\ \A x \in D : Min(D) <= x
      BY <3>1, MinNat
    <3> QED BY <3>1, <3>2
  <2> HIDE DEF d
  <2>11. Cardinality(lost) >= 2 * (1 + d)
    <3>1. CycleOf(s) <= CycleOf(q)
      BY <2>1
    <3> QED BY <2>5, <2>6, <2>7, <2>8, <2>9, <2>10, <3>1
  <2> QED BY <2>11 DEF d
<1>3. IInv /\ SentAndLost => LossTolerance
  BY <1>2 DEF LossTolerance
<1>4. IInv /\ SentAndLost /\ [Next]_vars => SentAndLost'
  BY SentAndLostStep
<1> QED BY <1>1, <1>3, <1>4, LockstepInvariant, PTL DEF Spec

-----------------------------------------------------------------------------
(* Lockstep implements the shared input record of SharedInput: a new cycle *)
(* is Give, a read input is Simulate, and every other step, the packets'   *)
(* included, changes nothing seen from outside.                            *)


\* The part of a vector from position k on.
LEMMA FromSeq ==
  ASSUME NEW v \in Seq(Input), NEW k \in Nat \ {0}
  PROVE  /\ From(v, k) \in Seq(Input)
         /\ Len(From(v, k)) = IF k <= Len(v) THEN Len(v) - k + 1 ELSE 0
         /\ \A i \in 1..Len(From(v, k)) : From(v, k)[i] = v[k + i - 1]
<1>1. Len(v) \in Nat OBVIOUS
<1>2. \A i \in k..Len(v) : v[i] \in Input BY <1>1
<1>3. /\ SubSeq(v, k, Len(v)) \in Seq(Input)
      /\ Len(SubSeq(v, k, Len(v))) = IF k <= Len(v) THEN Len(v) - k + 1 ELSE 0
      /\ \A i \in 1 .. Len(v) - k + 1 : SubSeq(v, k, Len(v))[i] = v[k + i - 1]
  BY <1>1, <1>2, SubSeqProperties
<1>4. QED BY <1>1, <1>3 DEF From

\* Appending to a vector shows from position k on once the vector reaches it.
LEMMA FromAppend ==
  ASSUME NEW v \in Seq(Input), NEW x \in Input, NEW k \in Nat \ {0}
  PROVE  From(Append(v, x), k) =
           IF k <= Len(v) + 1 THEN Append(From(v, k), x) ELSE From(v, k)
<1> DEFINE w == Append(v, x)
           new == From(w, k)
           old == From(v, k)
<1>1. /\ w \in Seq(Input)
      /\ Len(w) = Len(v) + 1
      /\ Len(v) \in Nat
      /\ \A i \in 1..Len(v) : w[i] = v[i]
      /\ w[Len(v) + 1] = x
  BY AppendProperties
<1> HIDE DEF w
<1>2. /\ new \in Seq(Input)
      /\ Len(new) = IF k <= Len(v) + 1 THEN Len(v) - k + 2 ELSE 0
      /\ \A i \in 1..Len(new) : new[i] = w[k + i - 1]
  BY <1>1, FromSeq, SMTT(30)
<1>3. /\ old \in Seq(Input)
      /\ Len(old) = IF k <= Len(v) THEN Len(v) - k + 1 ELSE 0
      /\ \A i \in 1..Len(old) : old[i] = v[k + i - 1]
  BY FromSeq
<1> HIDE DEF new, old
<1>4. CASE k <= Len(v) + 1
  <2> DEFINE app == Append(old, x)
  <2>1. /\ app \in Seq(Input)
        /\ Len(app) = Len(old) + 1
        /\ \A i \in 1..Len(old) : app[i] = old[i]
        /\ app[Len(old) + 1] = x
    BY <1>3, AppendProperties
  <2> HIDE DEF app
  <2>2. Len(old) = Len(v) - k + 1 /\ Len(new) = Len(old) + 1
    BY <1>1, <1>2, <1>3, <1>4
  <2>3. \A i \in 1..Len(new) : new[i] = app[i]
    <3> TAKE i \in 1..Len(new)
    <3>1. CASE i = Len(new)
      BY <1>1, <1>2, <2>1, <2>2, <3>1
    <3>2. CASE i < Len(new)
      <4>1. i \in 1..Len(old) /\ k + i - 1 \in 1..Len(v)
        BY <1>1, <1>3, <2>2, <3>2
      <4>2. QED BY <1>1, <1>2, <1>3, <2>1, <4>1
    <3>3. QED BY <1>2, <3>1, <3>2
  <2>4. new = app BY <1>2, <2>1, <2>2, <2>3
  <2>5. QED BY <1>4, <2>4 DEF app, new, old, w
<1>5. CASE ~(k <= Len(v) + 1)
  <2>1. Len(new) = 0 /\ Len(old) = 0 BY <1>1, <1>2, <1>3, <1>5
  <2>2. new = <<>> /\ old = <<>> BY <1>2, <1>3, <2>1
  <2>3. QED BY <1>5, <2>2 DEF new, old, w
<1>6. QED BY <1>4, <1>5

\* The empty vectors show an empty record.
LEMMA InitImplements == Init => Shared!SharedInit
<1> SUFFICES ASSUME Init PROVE Shared!SharedInit OBVIOUS
<1>1. \A k \in Nat \ {0} : From(<<>>, k) = <<>>
  <2> TAKE k \in Nat \ {0}
  <2> DEFINE v == <<>>
  <2>1. v \in Seq(Input) /\ Len(v) = 0 OBVIOUS
  <2> HIDE DEF v
  <2>2. /\ From(v, k) \in Seq(Input)
        /\ Len(From(v, k)) = IF k <= Len(v) THEN Len(v) - k + 1 ELSE 0
    BY <2>1, FromSeq, Zenon
  <2>3. From(v, k) = <<>> BY <2>1, <2>2
  <2>4. QED BY <2>3 DEF v
<1>2. \A s \in Player : Delay[s] + 2 \in Nat \ {0}
  BY DelayAssumption
<1>3. QED BY <1>1, <1>2 DEF Init, Shared!SharedInit, SharedLog, SharedSeen

\* A new cycle gives its player's input to the record, except the first one.
LEMMA StartCycleImplements ==
  ASSUME IInv, NEW s \in Player, StartCycle(s)
  PROVE  [Shared!SharedNext]_(Shared!sharedVars)
<1>1. PICK input \in Input :
        controls' = [controls EXCEPT ![s] =
          [p \in Player |-> IF p = s THEN Append(controls[s][s], input)
                            ELSE Padded(controls[s][p],
                                        Len(Append(controls[s][s], input)))]]
  BY DEF StartCycle
<1>2. \A p \in Player :
        controls'[p][p] = IF p = s THEN Append(controls[s][s], input)
                          ELSE controls[p][p]
  BY <1>1 DEF IInv, TypeOK
<1>3. SharedSeen' = SharedSeen BY DEF StartCycle, SharedSeen
<1>4. controls[s][s] \in Seq(Input) BY DEF IInv, TypeOK
<1>5. From(Append(controls[s][s], input), 2) =
        IF 2 <= Len(controls[s][s]) + 1
        THEN Append(From(controls[s][s], 2), input)
        ELSE From(controls[s][s], 2)
  <2> DEFINE own == controls[s][s]
  <2>1. own \in Seq(Input) /\ 2 \in Nat \ {0} BY <1>4
  <2> HIDE DEF own
  <2>2. From(Append(own, input), 2) =
          IF 2 <= Len(own) + 1 THEN Append(From(own, 2), input) ELSE From(own, 2)
    BY <2>1, FromAppend
  <2>3. QED BY <2>2 DEF own
<1>6. CASE 2 <= Len(controls[s][s]) + 1
  <2>1. SharedLog' = [SharedLog EXCEPT ![s] = Append(@, input)]
    BY <1>2, <1>5, <1>6 DEF SharedLog
  <2>2. Shared!Give(s) BY <1>3, <2>1 DEF Shared!Give
  <2>3. QED BY <2>2 DEF Shared!SharedNext
<1>7. CASE ~(2 <= Len(controls[s][s]) + 1)
  <2>1. SharedLog' = SharedLog BY <1>2, <1>5, <1>7 DEF SharedLog
  <2>2. QED BY <1>3, <2>1 DEF Shared!sharedVars
<1>8. QED BY <1>6, <1>7

\* Reading an input simulates the next one of the record, once Delay cycles and
\* the first input are past.
LEMMA GetControlStatusImplements ==
  ASSUME IInv, IInv', NEW s \in Player, NEW p \in Player, GetControlStatus(s, p)
  PROVE  [Shared!SharedNext]_(Shared!sharedVars)
<1> DEFINE v == played[s][p]
           k == Delay[s] + 2
<1>1. PICK used \in Input : played' = [played EXCEPT ![s][p] = Append(@, used)]
  BY DEF GetControlStatus
<1>2. controls' = controls BY DEF GetControlStatus
<1>3. SharedLog' = SharedLog BY <1>2 DEF SharedLog
<1>4. /\ v \in Seq(Input)
      /\ Len(v) \in Nat
      /\ k \in Nat \ {0}
      /\ controls[p][p] \in Seq(Input)
      /\ Len(controls[p][p]) \in Nat
      /\ Delay[s] \in Nat
  <2>1. v \in Seq(Input) /\ controls[p][p] \in Seq(Input)
    BY DEF IInv, TypeOK
  <2>2. Delay[s] \in Nat BY DelayAssumption
  <2> HIDE DEF v
  <2>3. QED BY <2>1, <2>2
<1>5. \A r, q \in Player :
        played'[r][q] = IF r = s /\ q = p THEN Append(v, used) ELSE played[r][q]
  BY <1>1 DEF IInv, TypeOK
<1> HIDE DEF v
<1>6. From(Append(v, used), k) =
        IF k <= Len(v) + 1 THEN Append(From(v, k), used) ELSE From(v, k)
  BY <1>4, FromAppend
<1>7. CASE k <= Len(v) + 1
  <2> DEFINE j == Len(v) + 1
             next == Len(SharedSeen[s][p]) + 1
  <2>1. /\ j - Delay[s] <= Len(controls[p][p])
        /\ used = controls[p][p][j - Delay[s]]
    <3>1. /\ Append(v, used)[j] = used
          /\ Len(Append(v, used)) = j
      BY <1>4, AppendProperties
    <3>2. j \in k .. Len(played'[s][p]) /\ played'[s][p][j] = used
      <4>1. played'[s][p] = Append(v, used) BY <1>5
      <4>2. j \in k .. j BY <1>4, <1>7
      <4>3. QED BY <3>1, <4>1, <4>2
    <3>3. /\ j - Delay[s] <= Len(controls'[p][p])
          /\ played'[s][p][j] = controls'[p][p][j - Delay[s]]
      BY <3>2 DEF IInv, LockstepInv, SimulatedTruth
    <3>4. QED BY <1>2, <3>2, <3>3
  <2>2. SharedSeen[s][p] = From(v, k) /\ SharedLog[p] = From(controls[p][p], 2)
    BY DEF SharedSeen, SharedLog, v
  <2>3. next = Len(v) - Delay[s] /\ Delay[s] \in Nat
    <3>1. Len(From(v, k)) = IF k <= Len(v) THEN Len(v) - k + 1 ELSE 0
      BY <1>4, FromSeq
    <3>2. QED BY <1>4, <1>7, <2>2, <3>1, DelayAssumption
  <2>4. /\ next <= Len(SharedLog[p])
        /\ SharedLog[p][next] = used
    <3>1. /\ Len(From(controls[p][p], 2)) =
               IF 2 <= Len(controls[p][p]) THEN Len(controls[p][p]) - 1 ELSE 0
          /\ \A i \in 1..Len(From(controls[p][p], 2)) :
               From(controls[p][p], 2)[i] = controls[p][p][2 + i - 1]
      BY <1>4, FromSeq, SMTT(30)
    <3>2. /\ next \in 1..(Len(controls[p][p]) - 1)
          /\ 2 + next - 1 = j - Delay[s]
      <4> DEFINE a == Len(v)
                 b == Len(controls[p][p])
      <4>1. /\ a \in Nat /\ b \in Nat /\ Delay[s] \in Nat
            /\ Delay[s] + 2 <= a + 1
            /\ a + 1 - Delay[s] <= b
            /\ next = a - Delay[s]
        BY <1>4, <1>7, <2>1, <2>3
      <4> HIDE DEF next, a, b
      <4>2. /\ next \in 1..(b - 1)
            /\ 2 + next - 1 = a + 1 - Delay[s]
        BY <4>1
      <4>3. j = a + 1 /\ b = Len(controls[p][p]) BY DEF a, b
      <4> HIDE DEF j
      <4>4. QED BY <4>1, <4>2, <4>3, SMTT(30)
    <3> HIDE DEF next
    <3>3. next \in 1..Len(From(controls[p][p], 2))
      BY <1>4, <3>1, <3>2
    <3>4. From(controls[p][p], 2)[next] = used
      BY <2>1, <3>1, <3>2, <3>3
    <3>5. QED BY <1>4, <2>2, <3>1, <3>3, <3>4
  <2>5. SharedSeen' = [SharedSeen EXCEPT ![s][p] = Append(@, used)]
    <3>1. \A r, q \in Player :
            SharedSeen'[r][q] = IF r = s /\ q = p THEN Append(SharedSeen[s][p], used)
                                ELSE SharedSeen[r][q]
      BY <1>5, <1>6, <1>7, <2>2 DEF SharedSeen
    <3>2. /\ SharedSeen = [r \in Player |-> [q \in Player |-> SharedSeen[r][q]]]
          /\ SharedSeen' = [r \in Player |-> [q \in Player |-> SharedSeen'[r][q]]]
      BY DEF SharedSeen
    <3>3. \A r \in Player :
            [q \in Player |-> SharedSeen'[r][q]] =
              IF r = s THEN [SharedSeen[s] EXCEPT ![p] = Append(@, used)]
              ELSE SharedSeen[r]
      <4> TAKE r \in Player
      <4> DEFINE old == SharedSeen[r]
      <4>1. old = [q \in Player |-> old[q]] BY <3>2
      <4>2. CASE r = s
        <5>1. \A q \in Player : SharedSeen'[r][q] =
                IF q = p THEN Append(old[p], used) ELSE old[q]
          BY <3>1, <4>2
        <5>2. [q \in Player |-> SharedSeen'[r][q]] =
                [q \in Player |-> IF q = p THEN Append(old[p], used) ELSE old[q]]
          BY <5>1
        <5> HIDE DEF old
        <5>3. [old EXCEPT ![p] = Append(@, used)] =
                [q \in Player |-> IF q = p THEN Append(old[p], used) ELSE old[q]]
          BY <4>1
        <5>4. QED BY <4>2, <5>2, <5>3 DEF old
      <4>3. CASE r # s BY <3>1, <4>1, <4>3
      <4>4. QED BY <4>1, <4>2, <4>3
    <3>4. QED BY <3>2, <3>3
  <2> HIDE DEF next
  <2>6. Shared!Simulate(s, p)
    BY <1>3, <2>4, <2>5 DEF Shared!Simulate, next
  <2>7. QED BY <2>6 DEF Shared!SharedNext
<1>8. CASE ~(k <= Len(v) + 1)
  <2>1. SharedSeen' = SharedSeen BY <1>5, <1>6, <1>8 DEF SharedSeen, v
  <2>2. QED BY <1>3, <2>1 DEF Shared!sharedVars
<1>9. QED BY <1>7, <1>8

\* Packets, losses and giving up change no player's own inputs and simulate
\* nothing.
LEMMA RemainingImplements ==
  ASSUME IInv,
         \/ \E s \in Player : \E m \in sent : ReadControlPacket(s, m)
         \/ \E s \in Player : RemoteHostTimedOut(s)
         \/ \E s \in Player : \E m \in sent : Lose(s, m)
         \/ UNCHANGED vars
  PROVE  UNCHANGED Shared!sharedVars
<1>1. played' = played
  BY DEF ReadControlPacket, RemoteHostTimedOut, Lose, vars
<1>2. \A p \in Player : controls'[p][p] = controls[p][p]
  <2>1. ASSUME NEW s \in Player, NEW m \in sent, ReadControlPacket(s, m)
        PROVE  \A p \in Player : controls'[p][p] = controls[p][p]
    <3>1. /\ m.slot # s
          /\ controls' = [controls EXCEPT ![s][m.slot] =
               Corrected(@, m, highest_confirmed[s][m.slot])]
      BY <2>1 DEF ReadControlPacket
    <3>2. QED BY <3>1 DEF IInv, TypeOK
  <2>2. QED BY <2>1 DEF RemoteHostTimedOut, Lose, vars
<1>3. QED BY <1>1, <1>2 DEF Shared!sharedVars, SharedLog, SharedSeen

\* The networked loop implements the shared input record, for any number of
\* players, any inputs and delays, and any losses, repetitions and reorderings:
\* every simulation runs on the players' true inputs, in order, without a gap
\* (get_control_status, read_control_packet, write_control_packet together).
THEOREM LockstepImplementsSharedInput == Spec => ImplementsSharedInput
<1>1. Init => Shared!SharedInit BY InitImplements
<1>2. IInv /\ IInv' /\ [Next]_vars => [Shared!SharedNext]_(Shared!sharedVars)
  BY StartCycleImplements, GetControlStatusImplements, RemainingImplements
     DEF Next
<1>3. QED
  BY <1>1, <1>2, LockstepInvariant, PTL
     DEF Spec, ImplementsSharedInput, Shared!SharedSpec
=============================================================================
