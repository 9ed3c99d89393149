---------------------------- MODULE HealthProofs ----------------------------
(***************************************************************************)
(* Proofs about module Health, for every set of models, whatever the sizes  *)
(* of the window and of the thresholds.                                     *)
(***************************************************************************)
EXTENDS Health, TLAPS

USE HealthAssumption

\* What the counter and the window of one model say about each other.
Agree(h, n) ==
    /\ \A i \in 1..Len(h) : i + n > Len(h) => ~h[i].ok
    /\ n < Len(h) => h[Len(h) - n].ok

-----------------------------------------------------------------------------
(* The operators of record(). *)

\* The deque keeps its length, and its last element is the new one; the others
\* are the old ones, shifted if it was full.
LEMMA AppendedShape ==
  ASSUME NEW h \in Seq(Result), Len(h) <= Window, NEW x \in Result
  PROVE  LET g == Appended(h, x) IN
         /\ g \in Seq(Result) /\ Len(g) \in 1..Window /\ g[Len(g)] = x
         /\ Len(h) < Window => /\ Len(g) = Len(h) + 1
                               /\ \A i \in 1..Len(h) : g[i] = h[i]
         /\ Len(h) = Window => /\ Len(g) = Len(h)
                               /\ \A i \in 1..(Len(h) - 1) : g[i] = h[i + 1]
  <1>1. CASE Len(h) < Window
    BY <1>1 DEF Appended
  <1>2. CASE Len(h) = Window
    <2>1. h # <<>> /\ Tail(h) \in Seq(Result) /\ Len(Tail(h)) = Len(h) - 1
      BY <1>2
    <2>2. \A i \in 1..(Len(h) - 1) : Tail(h)[i] = h[i + 1]
      BY <2>1
    <2>3. Appended(h, x) = Append(Tail(h), x)
      BY <1>2 DEF Appended
    <2> QED
      BY <1>2, <2>1, <2>2, <2>3
  <1> QED
    BY <1>1, <1>2

LEMMA CountedType ==
  ASSUME NEW n \in 0..MaxCounter, NEW ok \in BOOLEAN
  PROVE  Counted(n, ok) \in 0..MaxCounter
  BY DEF Counted

\* One result keeps the counter and the window in agreement: the counter is cut
\* off above the length of the window only.
LEMMA RecordKeepsAgreement ==
  ASSUME NEW h \in Seq(Result), Len(h) <= Window, NEW n \in 0..MaxCounter, Agree(h, n),
         NEW x \in Result
  PROVE  Agree(Appended(h, x), Counted(n, x.ok))
  <1> DEFINE g == Appended(h, x)
             k == Counted(n, x.ok)
  <1>0. Len(h) \in Nat /\ x.ok \in BOOLEAN
    BY DEF Result
  <1>1. /\ Len(g) \in 1..Window /\ g[Len(g)] = x
        /\ Len(h) < Window => Len(g) = Len(h) + 1 /\ \A i \in 1..Len(h) : g[i] = h[i]
        /\ Len(h) = Window => Len(g) = Len(h) /\ \A i \in 1..(Len(h) - 1) : g[i] = h[i + 1]
    BY AppendedShape
  <1>2. CASE x.ok
    <2>1. k = 0
      BY <1>2 DEF Counted
    <2> HIDE DEF g, k
    <2>2. \A i \in 1..Len(g) : ~(i + k > Len(g))
      BY <1>1, <2>1
    <2>3. Len(g) - k = Len(g)
      BY <1>1, <2>1
    <2>4. Agree(g, k)
      BY <1>1, <1>2, <2>2, <2>3 DEF Agree
    <2> QED
      BY <2>4 DEF g, k
  <1>3. CASE ~x.ok
    <2>1. k = IF n < MaxCounter THEN n + 1 ELSE n
      BY <1>3 DEF Counted
    <2> HIDE DEF g, k
    <2>2. ASSUME NEW i \in 1..Len(g), i + k > Len(g) PROVE ~g[i].ok
      <3>1. CASE i = Len(g)
        BY <1>1, <1>3, <3>1
      <3>2. CASE i < Len(g) /\ Len(h) < Window
        <4>1. i \in 1..Len(h) /\ i + n > Len(h) /\ g[i] = h[i]
          BY <1>0, <1>1, <2>1, <2>2, <3>2
        <4> QED
          BY <4>1 DEF Agree
      <3>3. CASE i < Len(g) /\ Len(h) = Window
        <4>1. i + 1 \in 1..Len(h) /\ (i + 1) + n > Len(h) /\ g[i] = h[i + 1]
          BY <1>0, <1>1, <2>1, <2>2, <3>3
        <4> QED
          BY <4>1 DEF Agree
      <3> QED
        BY <1>0, <1>1, <3>1, <3>2, <3>3
    <2>3. ASSUME k < Len(g) PROVE g[Len(g) - k].ok
      <3>1. k = n + 1 /\ n < Len(h) /\ Len(h) - n \in 1..Len(h)
        BY <1>0, <1>1, <2>1, <2>3
      <3>2. h[Len(h) - n].ok
        BY <3>1 DEF Agree
      <3>3. CASE Len(h) < Window
        <4>1. Len(g) - k = Len(h) - n
          BY <1>0, <1>1, <3>1, <3>3
        <4> QED
          BY <1>1, <3>1, <3>2, <3>3, <4>1
      <3>4. CASE Len(h) = Window
        <4>1. Len(g) - k \in 1..(Len(h) - 1) /\ (Len(g) - k) + 1 = Len(h) - n
          BY <1>0, <1>1, <2>3, <3>1, <3>4
        <4> QED
          BY <1>1, <3>2, <3>4, <4>1
      <3> QED
        BY <1>0, <3>3, <3>4
    <2> QED
      BY <2>2, <2>3 DEF Agree, g, k
  <1> QED
    BY <1>0, <1>2, <1>3

-----------------------------------------------------------------------------
\* What Record enters is a result.
LEMMA RecordedResult ==
  ASSUME TypeOK, NEW m \in Probed, Record(m)
  PROVE  \E x \in Result :
            /\ history' = [history EXCEPT ![m] = Appended(@, x)]
            /\ consecutive' = [consecutive EXCEPT ![m] = Counted(@, x.ok)]
  <1> DEFINE x == [ok |-> Outcome(m, probe[m]) = "success",
                   ms |-> IF probe[m] = "slow" THEN SlowMs ELSE FastMs]
  <1>1. x \in Result
    BY DEF Result
  <1>2. /\ history' = [history EXCEPT ![m] = Appended(@, x)]
        /\ consecutive' = [consecutive EXCEPT ![m] = Counted(@, x.ok)]
    BY DEF Record
  <1> QED
    BY <1>1, <1>2

LEMMA TypeStep == TypeOK /\ [Next]_vars => TypeOK'
  <1> SUFFICES ASSUME TypeOK, [Next]_vars PROVE TypeOK'
    OBVIOUS
  <1> USE DEF TypeOK
  <1>1. ASSUME NEW m \in Probed, NEW c \in Condition, Change(m, c) PROVE TypeOK'
    BY <1>1 DEF Change
  <1>2. ASSUME NEW m \in Probed, Arrives(m) PROVE TypeOK'
    BY <1>2 DEF Arrives
  <1>3. ASSUME NEW m \in Probed, Record(m) PROVE TypeOK'
    <2>1. PICK x \in Result :
             /\ history' = [history EXCEPT ![m] = Appended(@, x)]
             /\ consecutive' = [consecutive EXCEPT ![m] = Counted(@, x.ok)]
      BY <1>3, RecordedResult
    <2>2. Appended(history[m], x) \in Seq(Result) /\ Len(Appended(history[m], x)) <= Window
      BY AppendedShape
    <2>3. Counted(consecutive[m], x.ok) \in 0..MaxCounter
      BY CountedType DEF Result
    <2>4. /\ history' \in [Probed -> Seq(Result)]
          /\ \A d \in Probed : Len(history'[d]) <= Window
          /\ consecutive' \in [Probed -> 0..MaxCounter]
      BY <2>1, <2>2, <2>3
    <2>5. /\ api' \in [Probed -> Condition]
          /\ loop' \in {"sleeping", "probing", "stopped"}
          /\ probe' \in [Probed -> Condition \cup {"none", "asked"}]
          /\ loop' # "probing" => \A d \in Probed : probe'[d] = "none"
      BY <1>3 DEF Record
    <2> QED
      BY <2>4, <2>5
  <1>4. ASSUME NEW m \in Probed, Swallow(m) PROVE TypeOK'
    BY <1>4 DEF Swallow
  <1>5. CASE StartRound
    BY <1>5 DEF StartRound
  <1>6. CASE EndRound
    BY <1>6 DEF EndRound
  <1>7. CASE Stop
    BY <1>7 DEF Stop
  <1>8. CASE UNCHANGED vars
    BY <1>8 DEF vars
  <1> QED
    BY <1>1, <1>2, <1>3, <1>4, <1>5, <1>6, <1>7, <1>8 DEF Next, Step

\* The windows keep their length, and a probe is under way in a round only.
THEOREM TypeCorrect == Spec => []TypeOK
  <1>1. Init => TypeOK
    BY DEF Init, TypeOK
  <1> QED
    BY <1>1, TypeStep, PTL DEF Spec

\* The counter of consecutive failures and the window of results, which record()
\* keeps side by side, never contradict one another.
THEOREM CounterMatchesWindowHolds == Spec => []CounterMatchesWindow
  <1> DEFINE Agreement == \A m \in Probed : Agree(history[m], consecutive[m])
  <1>1. Agreement <=> CounterMatchesWindow
    BY DEF Agree, CounterMatchesWindow
  <1>2. Init => Agreement
    BY DEF Init, Agree
  <1>3. TypeOK /\ Agreement /\ [Next]_vars => Agreement'
    <2> SUFFICES ASSUME TypeOK, Agreement, [Next]_vars, NEW d \in Probed
                 PROVE  Agree(history[d], consecutive[d])'
      OBVIOUS
    <2>0. Agree(history[d], consecutive[d])
      OBVIOUS
    <2>1. ASSUME NEW m \in Probed, Record(m) PROVE Agree(history[d], consecutive[d])'
      <3>1. PICK x \in Result :
               /\ history' = [history EXCEPT ![m] = Appended(@, x)]
               /\ consecutive' = [consecutive EXCEPT ![m] = Counted(@, x.ok)]
        BY <2>1, RecordedResult
      <3>2. CASE d = m
        <4>1. /\ history'[d] = Appended(history[d], x)
              /\ consecutive'[d] = Counted(consecutive[d], x.ok)
          BY <3>1, <3>2 DEF TypeOK
        <4>2. Agree(Appended(history[d], x), Counted(consecutive[d], x.ok))
          BY <2>0, RecordKeepsAgreement DEF TypeOK
        <4> QED
          BY <4>1, <4>2 DEF Agree
      <3>3. CASE d # m
        <4>1. history'[d] = history[d] /\ consecutive'[d] = consecutive[d]
          BY <3>1, <3>3 DEF TypeOK
        <4> QED
          BY <2>0, <4>1 DEF Agree
      <3> QED
        BY <3>2, <3>3
    <2>2. CASE UNCHANGED <<history, consecutive>>
      BY <2>0, <2>2 DEF Agree
    <2> QED
      BY <2>1, <2>2 DEF Next, Step, Change, Arrives, Swallow, StartRound, EndRound, Stop, vars
  <1> QED
    BY <1>1, <1>2, <1>3, TypeCorrect, PTL DEF Spec
=============================================================================
