---------------------------------- MODULE HealthProofs ----------------------------------
(* Proofs about ProviderHealth, for every number of loops, every window, every threshold   *)
(* and every size of a batch: types, how many calls in a row a provider that is down can    *)
(* get, and how many retries are under way to it when its failures tell.                    *)
EXTENDS ProviderHealth, SequenceTheorems, WellFoundedInduction,
        FiniteSetTheorems, TLAPS

SampleWindows == Seq(Sample)

\* The newest n samples are failures, and no more.
Trailing(window, n) ==
  /\ n \in 0 .. Len(window)
  /\ \A j \in Len(window) - n + 1 .. Len(window) : window[j].outcome \in Failures
  /\ n < Len(window) => window[Len(window) - n].outcome \notin Failures

Ordered(window) == \A i, j \in 1 .. Len(window) : i < j => window[i].age >= window[j].age

Young(window) == \A i \in 1 .. Len(window) : window[i].age <= HEALTH_WINDOW

--------------------------------------------------------------------------------------
(* The operators of the window.                                                        *)

LEMMA WindowTypes ==
  ASSUME NEW window \in SampleWindows
  PROVE  /\ Len(window) \in Nat
         /\ \A i \in 1 .. Len(window) : window[i] \in Sample /\ window[i].age \in Nat
<1>1. Len(window) \in Nat /\ \A i \in 1 .. Len(window) : window[i] \in Sample
  BY DEF SampleWindows
<1>2. \A s \in Sample : s.age \in Ages
  BY DEF Sample
<1>3. Ages \subseteq Nat
  BY HealthAssumption DEF Ages, MaxAge
<1> QED BY <1>1, <1>2, <1>3

LEMMA Least ==
  ASSUME NEW S, S \subseteq Nat, S # {}
  PROVE  \E m \in S : \A n \in S : m <= n
<1>1. PICK m \in S : \A n \in S : ~(<<n, m>> \in OpToRel(<, Nat))
  BY NatLessThanWellFounded, WFMin, Zenon
<1>2. \A n \in S : ~(n < m)
  BY <1>1, Zenon DEF OpToRel
<1> QED BY <1>2

\* Both CHOOSEs of the module have something to choose.
LEMMA CountIsTrailing ==
  ASSUME NEW window \in SampleWindows
  PROVE  Trailing(window, TrailingFailures(window))
<1> DEFINE N == Len(window)
           Fits(i) == /\ i > 0 => window[i].outcome \notin Failures
                      /\ \A j \in i + 1 .. N : window[j].outcome \in Failures
           S == { i \in 0 .. N : \A j \in i + 1 .. N : window[j].outcome \in Failures }
           last == CHOOSE i \in 0 .. N : Fits(i)
<1>1. N \in Nat
  BY WindowTypes
<1>2. N \in S
  BY <1>1
<1>3. PICK m \in S : \A n \in S : m <= n
  <2>1. S \subseteq Nat /\ S # {}
    BY <1>1, <1>2
  <2> HIDE DEF S
  <2> QED BY <2>1, Least
<1>4. m \in 0 .. N /\ Fits(m)
  <2>1. m \in 0 .. N /\ \A j \in m + 1 .. N : window[j].outcome \in Failures
    BY <1>3
  <2>2. ASSUME m > 0, window[m].outcome \in Failures PROVE FALSE
    <3>1. m - 1 \in 0 .. N /\ \A j \in (m - 1) + 1 .. N : j = m \/ j \in m + 1 .. N
      BY <1>1, <2>1, <2>2
    <3>2. m - 1 \in S
      BY <2>1, <2>2, <3>1
    <3> HIDE DEF S
    <3>3. m <= m - 1
      BY <1>3, <3>2
    <3> QED BY <1>1, <2>1, <3>3
  <2> QED BY <2>1, <2>2
<1>5. last \in 0 .. N /\ Fits(last)
  BY <1>4
<1>6. TrailingFailures(window) = N - last
  BY DEF TrailingFailures
<1> HIDE DEF last
<1> QED BY <1>1, <1>5, <1>6 DEF Trailing

LEMMA TrailingIsOne ==
  ASSUME NEW window \in SampleWindows, NEW m, Trailing(window, m), NEW n, Trailing(window, n)
  PROVE  m = n
<1>1. Len(window) \in Nat /\ m \in 0 .. Len(window) /\ n \in 0 .. Len(window)
  BY WindowTypes DEF Trailing
<1>2. ASSUME NEW x \in 0 .. Len(window), NEW y \in 0 .. Len(window), Trailing(window, x),
             Trailing(window, y), x < y
      PROVE  FALSE
  <2>1. Len(window) - x \in Len(window) - y + 1 .. Len(window) /\ x < Len(window)
    BY <1>1, <1>2
  <2>2. window[Len(window) - x].outcome \in Failures
    BY <1>2, <2>1 DEF Trailing
  <2>3. window[Len(window) - x].outcome \notin Failures
    BY <1>2, <2>1 DEF Trailing
  <2> QED BY <2>2, <2>3
<1> QED BY <1>1, <1>2

LEMMA CountIs ==
  ASSUME NEW window \in SampleWindows, NEW n, Trailing(window, n)
  PROVE  TrailingFailures(window) = n
  BY CountIsTrailing, TrailingIsOne

LEMMA CountIsNumber ==
  ASSUME NEW window \in SampleWindows
  PROVE  TrailingFailures(window) \in 0 .. Len(window)
  BY CountIsTrailing DEF Trailing

LEMMA ExpiredIsPrefix ==
  ASSUME NEW window \in SampleWindows
  PROVE  /\ Expired(window) \in 0 .. Len(window)
         /\ \A i \in 1 .. Expired(window) : window[i].age > HEALTH_WINDOW
         /\ Expired(window) < Len(window) => window[Expired(window) + 1].age <= HEALTH_WINDOW
<1> DEFINE N == Len(window)
           Fits(n) == /\ \A i \in 1 .. n : window[i].age > HEALTH_WINDOW
                      /\ n < N => window[n + 1].age <= HEALTH_WINDOW
           S == { n \in 0 .. N : n < N => window[n + 1].age <= HEALTH_WINDOW }
<1>1. N \in Nat /\ \A i \in 1 .. N : window[i].age \in Nat
  BY WindowTypes
<1>2. N \in S
  BY <1>1
<1>3. PICK m \in S : \A n \in S : m <= n
  <2>1. S \subseteq Nat /\ S # {}
    BY <1>1, <1>2
  <2> HIDE DEF S
  <2> QED BY <2>1, Least
<1>4. m \in 0 .. N /\ Fits(m)
  <2>1. ASSUME NEW i \in 1 .. m, ~(window[i].age > HEALTH_WINDOW) PROVE FALSE
    <3>1. i \in 1 .. N /\ i - 1 \in 0 .. N /\ (i - 1) + 1 = i
      BY <1>1, <1>3
    <3>2. window[i].age <= HEALTH_WINDOW
      BY <1>1, <2>1, <3>1, HealthAssumption
    <3>3. i - 1 \in S
      BY <3>1, <3>2
    <3>4. m \in 0 .. N
      BY <1>3
    <3> HIDE DEF S
    <3>5. m <= i - 1
      BY <1>3, <3>3
    <3> QED BY <1>1, <2>1, <3>4, <3>5
  <2> QED BY <1>3, <2>1
<1>5. \E n \in 0 .. N : Fits(n)
  BY <1>4
<1> QED BY <1>5 DEF Expired

\* What is left after a trim: the newest samples, in their order.
LEMMA TrimDropsPrefix ==
  ASSUME NEW window \in SampleWindows
  PROVE  LET n == Expired(window) IN
         /\ n \in 0 .. Len(window)
         /\ Trim(window) \in SampleWindows /\ Len(Trim(window)) = Len(window) - n
         /\ \A i \in 1 .. Len(window) - n : Trim(window)[i] = window[n + i]
<1> DEFINE n == Expired(window)
           N == Len(window)
<1>1. n \in 0 .. N /\ N \in Nat
  BY ExpiredIsPrefix
<1>2. Trim(window) = SubSeq(window, n + 1, N)
  BY DEF Trim
<1> HIDE DEF n
<1>3. /\ SubSeq(window, n + 1, N) \in Seq(Sample)
      /\ Len(SubSeq(window, n + 1, N)) = N - n
      /\ \A i \in 1 .. N - n : SubSeq(window, n + 1, N)[i] = window[n + i]
  BY <1>1, SubSeqProperties DEF SampleWindows
<1> QED BY <1>1, <1>2, <1>3 DEF SampleWindows, n

LEMMA TrimCounts ==
  ASSUME NEW window \in SampleWindows
  PROVE  TrailingFailures(Trim(window)) <= TrailingFailures(window)
<1> DEFINE n == Expired(window)
           N == Len(window)
           t == TrailingFailures(window)
           rest == Trim(window)
           r == IF t <= N - n THEN t ELSE N - n
<1>1. /\ n \in 0 .. N /\ N \in Nat
      /\ rest \in SampleWindows /\ Len(rest) = N - n
      /\ \A i \in 1 .. N - n : rest[i] = window[n + i]
  BY TrimDropsPrefix
<1>2. Trailing(window, t)
  BY CountIsTrailing
<1>3. t \in 0 .. N /\ r \in 0 .. N - n
  BY <1>1, <1>2 DEF Trailing
<1> HIDE DEF n, t, rest
<1>4. ASSUME NEW j \in Len(rest) - r + 1 .. Len(rest) PROVE rest[j].outcome \in Failures
  <2>1. j \in 1 .. N - n /\ n + j \in N - t + 1 .. N
    BY <1>1, <1>3
  <2> QED BY <1>1, <1>2, <2>1 DEF Trailing
<1>5. ASSUME r < Len(rest) PROVE rest[Len(rest) - r].outcome \notin Failures
  <2>1. r = t /\ t < N /\ Len(rest) - r \in 1 .. N - n /\ n + (Len(rest) - r) = N - t
    BY <1>1, <1>3, <1>5
  <2> QED BY <1>1, <1>2, <2>1 DEF Trailing
<1>6. Trailing(rest, r)
  BY <1>1, <1>3, <1>4, <1>5 DEF Trailing
<1>7. TrailingFailures(rest) = r
  BY <1>1, <1>6, CountIs
<1> QED BY <1>1, <1>3, <1>7 DEF rest, t

LEMMA TrimKeeps ==
  ASSUME NEW window \in SampleWindows, Ordered(window)
  PROVE  Ordered(Trim(window))
<1>1. PICK n : /\ n \in 0 .. Len(window)
               /\ Trim(window) \in SampleWindows /\ Len(Trim(window)) = Len(window) - n
               /\ \A i \in 1 .. Len(window) - n : Trim(window)[i] = window[n + i]
  BY TrimDropsPrefix
<1>2. Len(window) \in Nat
  OBVIOUS
<1>3. ASSUME NEW i \in 1 .. Len(window) - n, NEW j \in 1 .. Len(window) - n, i < j
      PROVE  Trim(window)[i].age >= Trim(window)[j].age
  <2>1. n + i \in 1 .. Len(window) /\ n + j \in 1 .. Len(window) /\ n + i < n + j
    BY <1>1, <1>2, <1>3
  <2> QED BY <1>1, <2>1 DEF Ordered
<1> QED BY <1>1, <1>3 DEF Ordered

\* Nothing that is too old is left: the samples are ordered by age.
LEMMA TrimIsYoung ==
  ASSUME NEW window \in SampleWindows, Ordered(window)
  PROVE  Young(Trim(window))
<1>1. PICK n : /\ n = Expired(window) /\ n \in 0 .. Len(window)
               /\ Trim(window) \in SampleWindows /\ Len(Trim(window)) = Len(window) - n
               /\ \A i \in 1 .. Len(window) - n : Trim(window)[i] = window[n + i]
  BY TrimDropsPrefix
<1>2. /\ Len(window) \in Nat
      /\ \A i \in 1 .. Len(window) : window[i].age \in Nat
      /\ n < Len(window) => window[n + 1].age <= HEALTH_WINDOW
  BY <1>1, WindowTypes, ExpiredIsPrefix
<1>3. ASSUME NEW i \in 1 .. Len(window) - n PROVE window[n + i].age <= HEALTH_WINDOW
  <2>1. /\ n < Len(window) /\ n + 1 \in 1 .. Len(window) /\ n + i \in 1 .. Len(window)
        /\ (i = 1 \/ n + 1 < n + i)
    BY <1>1, <1>2
  <2>2. window[n + 1].age >= window[n + i].age
    BY <1>2, <2>1 DEF Ordered
  <2> QED BY <1>2, <2>1, <2>2, HealthAssumption
<1> QED BY <1>1, <1>3 DEF Young

\* Time passes for every sample alike.
LEMMA AgedKeeps ==
  ASSUME NEW window \in SampleWindows
  PROVE  /\ Aged(window) \in SampleWindows
         /\ TrailingFailures(Aged(window)) = TrailingFailures(window)
         /\ Ordered(window) => Ordered(Aged(window))
<1> DEFINE older == Aged(window)
           N == Len(window)
           next(i) == IF window[i].age < MaxAge THEN window[i].age + 1 ELSE window[i].age
<1>1. N \in Nat /\ \A i \in 1 .. N : window[i] \in Sample /\ window[i].age \in Ages
  BY WindowTypes DEF Sample
<1>2. MaxAge \in Nat /\ \A i \in 1 .. N : next(i) \in Ages
  BY <1>1, HealthAssumption DEF Ages, MaxAge
<1>3. ASSUME NEW i \in 1 .. N
      PROVE  older[i] \in Sample /\ older[i].age = next(i) /\ older[i].outcome = window[i].outcome
  <2>1. older[i] = [window[i] EXCEPT !.age = next(i)]
    BY DEF Aged
  <2> QED BY <1>1, <1>2, <2>1 DEF Sample
<1>4. older = [i \in 1 .. N |-> older[i]]
  BY DEF Aged
<1> HIDE DEF older
<1>5. older \in [1 .. N -> Sample]
  BY <1>3, <1>4
<1>6. older \in SampleWindows /\ Len(older) = N
  BY <1>1, <1>5, SeqDef DEF SampleWindows
<1>7. TrailingFailures(older) = TrailingFailures(window)
  <2> DEFINE t == TrailingFailures(window)
  <2>1. Trailing(window, t)
    BY CountIsTrailing
  <2> HIDE DEF t
  <2>2. Trailing(older, t)
    BY <1>1, <1>3, <1>6, <2>1 DEF Trailing
  <2> QED BY <1>6, <2>2, CountIs DEF t
<1>8. Ordered(window) => Ordered(older)
  <2>1. SUFFICES ASSUME Ordered(window), NEW i \in 1 .. N, NEW j \in 1 .. N, i < j
                 PROVE  older[i].age >= older[j].age
    BY <1>6 DEF Ordered
  <2>2. window[i].age >= window[j].age /\ window[i].age \in Nat /\ window[j].age \in Nat
    BY <2>1, WindowTypes DEF Ordered
  <2>3. next(i) >= next(j)
    BY <1>2, <2>2
  <2> QED BY <1>3, <2>3
<1> QED BY <1>6, <1>7, <1>8 DEF older

\* An outcome comes last, and it is the newest.
LEMMA AppendedKeeps ==
  ASSUME NEW window \in SampleWindows, Ordered(window), NEW outcome \in Outcomes
  PROVE  LET longer == Append(window, [outcome |-> outcome, age |-> 0]) IN
         /\ longer \in SampleWindows /\ Ordered(longer)
         /\ TrailingFailures(longer) <= TrailingFailures(window) + 1
<1> DEFINE sample == [outcome |-> outcome, age |-> 0]
           longer == Append(window, sample)
           N == Len(window)
           t == TrailingFailures(window)
<1>1. /\ N \in Nat /\ t \in 0 .. N /\ Trailing(window, t)
      /\ \A i \in 1 .. N : window[i].age \in Nat
  BY WindowTypes, CountIsTrailing DEF Trailing
<1>2. sample \in Sample /\ sample.outcome = outcome /\ sample.age = 0
  BY HealthAssumption DEF Sample, Ages, MaxAge
<1> HIDE DEF sample, t
<1>3. /\ longer \in SampleWindows /\ Len(longer) = N + 1
      /\ \A i \in 1 .. N : longer[i] = window[i]
      /\ longer[N + 1] = sample
  BY <1>1, <1>2, AppendProperties DEF SampleWindows
<1> HIDE DEF longer
<1>4. Ordered(longer)
  <2>1. SUFFICES ASSUME NEW i \in 1 .. N + 1, NEW j \in 1 .. N + 1, i < j
                 PROVE  longer[i].age >= longer[j].age
    BY <1>3 DEF Ordered
  <2>2. i \in 1 .. N /\ (j \in 1 .. N \/ j = N + 1)
    BY <1>1, <2>1
  <2>3. CASE j \in 1 .. N
    BY <1>3, <2>1, <2>2, <2>3 DEF Ordered
  <2>4. CASE j = N + 1
    BY <1>1, <1>2, <1>3, <2>2, <2>4
  <2> QED BY <2>2, <2>3, <2>4
<1>5. CASE outcome \notin Failures
  <2>1. Trailing(longer, 0)
    BY <1>1, <1>2, <1>3, <1>5 DEF Trailing
  <2>2. TrailingFailures(longer) = 0
    BY <1>3, <2>1, CountIs
  <2> QED BY <1>1, <1>3, <1>4, <2>2 DEF longer, sample, t
<1>6. CASE outcome \in Failures
  <2>1. ASSUME NEW j \in (N + 1) - (t + 1) + 1 .. N + 1 PROVE longer[j].outcome \in Failures
    <3>1. j = N + 1 \/ j \in N - t + 1 .. N
      BY <1>1
    <3>2. N - t + 1 .. N \subseteq 1 .. N
      BY <1>1
    <3> QED BY <1>1, <1>2, <1>3, <1>6, <3>1, <3>2 DEF Trailing
  <2>2. ASSUME t + 1 < N + 1 PROVE longer[(N + 1) - (t + 1)].outcome \notin Failures
    <3>1. (N + 1) - (t + 1) = N - t /\ N - t \in 1 .. N /\ t < N
      BY <1>1, <2>2
    <3> QED BY <1>1, <1>3, <3>1 DEF Trailing
  <2>3. t + 1 \in 0 .. N + 1
    BY <1>1
  <2>4. Trailing(longer, t + 1)
    BY <1>3, <2>1, <2>2, <2>3 DEF Trailing
  <2>5. TrailingFailures(longer) = t + 1
    BY <1>3, <2>4, CountIs
  <2> QED BY <1>1, <1>3, <1>4, <2>5 DEF longer, sample, t
<1> QED BY <1>5, <1>6

LEMMA TrimmedIs ==
  ASSUME NEW window \in SampleWindows, Ordered(window)
  PROVE  /\ Trim(window) \in SampleWindows /\ Ordered(Trim(window)) /\ Young(Trim(window))
         /\ TrailingFailures(Trim(window)) \in Nat /\ TrailingFailures(window) \in Nat
         /\ TrailingFailures(Trim(window)) <= TrailingFailures(window)
<1>1. Trim(window) \in SampleWindows
  BY TrimDropsPrefix
<1>2. \A w \in SampleWindows : TrailingFailures(w) \in Nat
  BY CountIsNumber, WindowTypes
<1> QED BY <1>1, <1>2, TrimKeeps, TrimIsYoung, TrimCounts

LEMMA RecordedIs ==
  ASSUME NEW window \in SampleWindows, Ordered(window), NEW outcome \in Outcomes
  PROVE  /\ Record(outcome, window) \in SampleWindows
         /\ Ordered(Record(outcome, window)) /\ Young(Record(outcome, window))
         /\ TrailingFailures(Record(outcome, window)) \in Nat
         /\ TrailingFailures(Record(outcome, window)) <= TrailingFailures(window) + 1
<1> DEFINE longer == Append(window, [outcome |-> outcome, age |-> 0])
<1>1. /\ longer \in SampleWindows /\ Ordered(longer)
      /\ TrailingFailures(longer) <= TrailingFailures(window) + 1
  BY AppendedKeeps
<1>2. Record(outcome, window) = Trim(longer)
  BY DEF Record
<1> HIDE DEF longer
<1>3. TrailingFailures(window) \in Nat
  BY TrimmedIs
<1> QED BY <1>1, <1>2, <1>3, TrimmedIs

\* Enough failures in a row make a provider UNHEALTHY, however few the samples.
LEMMA ManyFailures ==
  ASSUME status # "UNHEALTHY"
  PROVE  ~FailuresTell(samples)
  BY DEF status, derive_status, FailuresTell

--------------------------------------------------------------------------------------
(* The calls still open: those a loop's batch may make and the one it is making.  They are  *)
(* counted as the elements of a set.                                                        *)

LoopStates == {"asleep", "awake", "batch", "dialling", "calling"}

Open(state, rest) == rest + (IF state \in {"dialling", "calling"} THEN 1 ELSE 0)

Slots(states, rests) ==
  { slot \in Loops \X (1 .. MAX_REQUEST_PER_TICK) :
      slot[2] <= Open(states[slot[1]], rests[slot[1]]) }

LEMMA SlotsFit ==
  ASSUME NEW states, NEW rests
  PROVE  /\ IsFiniteSet(Slots(states, rests)) /\ Cardinality(Slots(states, rests)) \in Nat
         /\ Cardinality(Slots(states, rests)) <= Cardinality(Loops) * MAX_REQUEST_PER_TICK
         /\ Cardinality(Loops) \in Nat
         /\ Cardinality(Loops) * MAX_REQUEST_PER_TICK \in Nat
<1> DEFINE Numbers == 1 .. MAX_REQUEST_PER_TICK
           All == Loops \X Numbers
<1>1. IsFiniteSet(Loops) /\ Cardinality(Loops) \in Nat /\ MAX_REQUEST_PER_TICK \in Nat
  BY HealthAssumption, PacingAssumption, FS_CardinalityType
<1>2. IsFiniteSet(Numbers) /\ Cardinality(Numbers) = MAX_REQUEST_PER_TICK
  <2>1. 1 \in Int /\ MAX_REQUEST_PER_TICK \in Int
    BY <1>1
  <2>2. Cardinality(Numbers) = IF 1 > MAX_REQUEST_PER_TICK THEN 0 ELSE MAX_REQUEST_PER_TICK - 1 + 1
    BY <2>1, FS_Interval
  <2> QED BY <1>1, <2>1, <2>2, FS_Interval
<1> HIDE DEF Numbers
<1>3. IsFiniteSet(All) /\ Cardinality(All) = Cardinality(Loops) * MAX_REQUEST_PER_TICK
  BY <1>1, <1>2, FS_Product
<1>4. Slots(states, rests) \subseteq All
  BY DEF Slots, Numbers
<1> HIDE DEF All
<1>5. /\ IsFiniteSet(Slots(states, rests))
      /\ Cardinality(Slots(states, rests)) <= Cardinality(All)
  BY <1>3, <1>4, FS_Subset
<1>6. Cardinality(Slots(states, rests)) \in Nat
  BY <1>5, FS_CardinalityType
<1>7. Cardinality(Loops) * MAX_REQUEST_PER_TICK \in Nat
  BY <1>1
<1> QED BY <1>1, <1>3, <1>5, <1>6, <1>7

\* One loop moves on: its calls that were open and are not any longer are out of the count.
LEMMA SlotsMove ==
  ASSUME NEW states \in [Loops -> LoopStates], NEW rests \in [Loops -> Nat],
         NEW l \in Loops, NEW state, NEW rest \in Nat,
         Open(state, rest) <= Open(states[l], rests[l])
  PROVE  Cardinality(Slots([states EXCEPT ![l] = state], [rests EXCEPT ![l] = rest]))
           <= Cardinality(Slots(states, rests))
<1> DEFINE before == Slots(states, rests)
           after == Slots([states EXCEPT ![l] = state], [rests EXCEPT ![l] = rest])
<1>1. after \subseteq before
  <2>1. SUFFICES ASSUME NEW slot \in after PROVE slot \in before
    OBVIOUS
  <2>2. /\ slot \in Loops \X (1 .. MAX_REQUEST_PER_TICK) /\ slot[1] \in Loops /\ slot[2] \in Nat
        /\ slot[2] <= Open([states EXCEPT ![l] = state][slot[1]], [rests EXCEPT ![l] = rest][slot[1]])
    BY PacingAssumption DEF Slots
  <2>3. CASE slot[1] = l
    <3>1. /\ slot[2] <= Open(state, rest) /\ Open(state, rest) \in Nat
          /\ Open(states[l], rests[l]) \in Nat
      BY <2>2, <2>3 DEF Open
    <3>2. slot[2] <= Open(states[slot[1]], rests[slot[1]])
      BY <2>2, <2>3, <3>1
    <3> QED BY <2>2, <3>2 DEF Slots
  <2>4. CASE slot[1] # l
    <3>1. slot[2] <= Open(states[slot[1]], rests[slot[1]])
      BY <2>2, <2>4
    <3> QED BY <2>2, <3>1 DEF Slots
  <2> QED BY <2>3, <2>4
<1>2. IsFiniteSet(before)
  BY SlotsFit
<1> HIDE DEF before, after
<1>3. Cardinality(after) <= Cardinality(before)
  BY <1>1, <1>2, FS_Subset
<1> QED BY <1>3 DEF before, after

\* A call that is answered is one less.
LEMMA SlotsAnswer ==
  ASSUME NEW states \in [Loops -> LoopStates], NEW rests \in [Loops -> Nat],
         NEW l \in Loops, states[l] = "calling", rests[l] < MAX_REQUEST_PER_TICK
  PROVE  Cardinality(Slots([states EXCEPT ![l] = "batch"], rests))
           <= Cardinality(Slots(states, rests)) - 1
<1> DEFINE before == Slots(states, rests)
           after == Slots([states EXCEPT ![l] = "batch"], rests)
           answered == <<l, rests[l] + 1>>
<1>1. rests[l] \in Nat /\ MAX_REQUEST_PER_TICK \in Nat
  BY PacingAssumption
<1>2. answered \in before
  <2>1. rests[l] + 1 \in 1 .. MAX_REQUEST_PER_TICK /\ rests[l] + 1 <= Open(states[l], rests[l])
    BY <1>1 DEF Open
  <2> QED BY <2>1 DEF Slots
<1>3. after \subseteq before \ {answered}
  <2>1. SUFFICES ASSUME NEW slot \in after PROVE slot \in before /\ slot # answered
    OBVIOUS
  <2>2. /\ slot \in Loops \X (1 .. MAX_REQUEST_PER_TICK) /\ slot[1] \in Loops /\ slot[2] \in Nat
        /\ slot[2] <= Open([states EXCEPT ![l] = "batch"][slot[1]], rests[slot[1]])
    BY PacingAssumption DEF Slots
  <2>3. CASE slot[1] = l
    <3>1. slot[2] <= rests[l]
      BY <1>1, <2>2, <2>3 DEF Open
    <3>2. slot[2] <= Open(states[slot[1]], rests[slot[1]])
      BY <1>1, <2>2, <2>3, <3>1 DEF Open
    <3>3. slot[2] # rests[l] + 1
      BY <1>1, <2>2, <3>1
    <3> QED BY <2>2, <3>2, <3>3 DEF Slots
  <2>4. CASE slot[1] # l
    <3>1. slot[2] <= Open(states[slot[1]], rests[slot[1]])
      BY <2>2, <2>4
    <3> QED BY <2>2, <2>4, <3>1 DEF Slots
  <2> QED BY <2>3, <2>4
<1>4. IsFiniteSet(before) /\ Cardinality(before) \in Nat
  BY SlotsFit
<1> HIDE DEF before, after, answered
<1>5. /\ IsFiniteSet(before \ {answered})
      /\ Cardinality(before \ {answered}) = Cardinality(before) - 1
  BY <1>2, <1>4, FS_RemoveElement
<1>6. Cardinality(after) <= Cardinality(before \ {answered})
  BY <1>3, <1>5, FS_Subset
<1> QED BY <1>5, <1>6 DEF before, after

--------------------------------------------------------------------------------------
(* The invariant.  What the open calls may add to the failures is bounded; a retry that has *)
(* passed the gate belongs to a loop that has sent none since the failures tell, and the    *)
(* loop whose failure told has none under way.                                              *)

Limit == UNHEALTHY_CONSECUTIVE_FAILURES - 1 + Cardinality(Loops) * MAX_REQUEST_PER_TICK

History(tell, retries, sent) ==
  /\ \A l \in Loops : sent[l] <= 1
  /\ IF tell
     THEN /\ \A l \in Loops : retries[l] => sent[l] = 0
          /\ \E l \in Loops : sent[l] = 0 /\ ~retries[l]
     ELSE \A l \in Loops : sent[l] = 0

HealthInv ==
  /\ TypeOK
  /\ \A l \in Loops : pc[l] \in {"asleep", "awake"} => left[l] = 0
  /\ TrailingFailures(samples) + Cardinality(Slots(pc, left)) <= Limit
  /\ \A l \in Loops : retrying[l] => pc[l] = "dialling"
  /\ History(FailuresTell(samples), retrying, late)

\* No failure and no retry more than before.
LEMMA HistoryKeeps ==
  ASSUME NEW tell \in BOOLEAN, NEW tells \in BOOLEAN, tells => tell,
         NEW retries, NEW fewer, \A l \in Loops : fewer[l] => retries[l],
         NEW sent, History(tell, retries, sent)
  PROVE  History(tells, fewer, IF tells THEN sent ELSE [l \in Loops |-> 0])
<1>1. CASE tells
  BY <1>1 DEF History
<1>2. CASE ~tells
  BY <1>2 DEF History
<1> QED BY <1>1, <1>2

\* The outcome of a loop's call: that loop has no retry under way and, if it is this outcome
\* that tells, has sent none since.
LEMMA HistoryTells ==
  ASSUME NEW tell \in BOOLEAN, NEW tells \in BOOLEAN,
         NEW retries, NEW sent, History(tell, retries, sent),
         NEW l \in Loops, ~retries[l]
  PROVE  History(tells, retries, IF tells THEN sent ELSE [k \in Loops |-> 0])
<1>1. CASE ~tells
  BY <1>1 DEF History
<1>2. CASE tells /\ tell
  BY <1>2 DEF History
<1>3. CASE tells /\ ~tell
  BY <1>3 DEF History
<1> QED BY <1>1, <1>2, <1>3

\* A retry goes out.
LEMMA HistorySends ==
  ASSUME NEW retries \in [Loops -> BOOLEAN], NEW sent \in [Loops -> Nat],
         History(TRUE, retries, sent), NEW l \in Loops, retries[l]
  PROVE  History(TRUE, [retries EXCEPT ![l] = FALSE], [sent EXCEPT ![l] = @ + 1])
<1>1. sent[l] = 0
  BY DEF History
<1>2. PICK other \in Loops : sent[other] = 0 /\ ~retries[other]
  BY DEF History
<1>3. other # l
  BY <1>2
<1>4. \A k \in Loops : [sent EXCEPT ![l] = @ + 1][k] = IF k = l THEN 1 ELSE sent[k]
  BY <1>1
<1>5. \A k \in Loops : [retries EXCEPT ![l] = FALSE][k] <=> k # l /\ retries[k]
  OBVIOUS
<1> QED BY <1>2, <1>3, <1>4, <1>5 DEF History

LEMMA InvGives ==
  ASSUME HealthInv
  PROVE  /\ samples \in SampleWindows /\ Ordered(samples) /\ Young(samples)
         /\ TrailingFailures(samples) \in Nat /\ FailuresTell(samples) \in BOOLEAN
         /\ pc \in [Loops -> LoopStates] /\ left \in [Loops -> Nat]
         /\ \A l \in Loops : left[l] \in 0 .. MAX_REQUEST_PER_TICK
         /\ MAX_REQUEST_PER_TICK \in Nat /\ UNHEALTHY_CONSECUTIVE_FAILURES \in Nat \ {0}
<1>1. samples \in SampleWindows /\ Ordered(samples) /\ Young(samples)
  BY DEF HealthInv, TypeOK, SampleWindows, Ordered, Young
<1>2. TrailingFailures(samples) \in Nat
  BY <1>1, TrimmedIs
<1>3. left \in [Loops -> 0 .. MAX_REQUEST_PER_TICK] /\ pc \in [Loops -> LoopStates]
  <2>1. left \in [Loops -> 0 .. MAX_REQUEST_PER_TICK]
    BY DEF HealthInv, TypeOK
  <2>2. pc \in [Loops -> LoopStates]
    BY DEF HealthInv, TypeOK, LoopStates
  <2> QED BY <2>1, <2>2
<1>4. MAX_REQUEST_PER_TICK \in Nat /\ 0 .. MAX_REQUEST_PER_TICK \subseteq Nat
  BY PacingAssumption
<1> QED BY <1>1, <1>2, <1>3, <1>4, HealthAssumption DEF FailuresTell

LEMMA HealthInit ==
  ASSUME Init
  PROVE  HealthInv
<1>1. samples = <<>> /\ <<>> \in SampleWindows /\ Len(<<>>) = 0
  BY EmptySeq DEF Init, SampleWindows
<1>2. TrailingFailures(samples) = 0 /\ ~FailuresTell(samples)
  <2>1. samples \in SampleWindows /\ Len(samples) = 0
    BY <1>1
  <2>2. TrailingFailures(samples) \in 0 .. 0
    BY <2>1, CountIsNumber
  <2> QED BY <2>2, HealthAssumption DEF FailuresTell
<1>3. MAX_REQUEST_PER_TICK \in Nat
  BY PacingAssumption
<1>4. TypeOK
  <2>1. samples \in Seq(Sample) /\ 1 .. Len(samples) = {}
    BY <1>1 DEF SampleWindows
  <2>2. left \in [Loops -> 0 .. MAX_REQUEST_PER_TICK]
    BY <1>3 DEF Init
  <2> QED BY <2>1, <2>2 DEF Init, TypeOK
<1>5. Cardinality(Slots(pc, left)) <= Limit
  <2>1. /\ Cardinality(Slots(pc, left)) \in Nat
        /\ Cardinality(Slots(pc, left)) <= Cardinality(Loops) * MAX_REQUEST_PER_TICK
        /\ Cardinality(Loops) * MAX_REQUEST_PER_TICK \in Nat
    BY SlotsFit
  <2> QED BY <2>1, HealthAssumption DEF Limit
<1>6. Cardinality(Slots(pc, left)) \in Nat
  BY SlotsFit
<1>7. History(FailuresTell(samples), retrying, late)
  BY <1>2 DEF Init, History
<1> QED BY <1>2, <1>4, <1>5, <1>6, <1>7 DEF Init, HealthInv

LEMMA HealthNext ==
  ASSUME HealthInv, [Next]_vars
  PROVE  HealthInv'
<1> DEFINE T == TrailingFailures(samples)
           C == Cardinality(Slots(pc, left))
           M == MAX_REQUEST_PER_TICK
<1>1. /\ samples \in SampleWindows /\ Ordered(samples) /\ Young(samples)
      /\ T \in Nat /\ C \in Nat /\ FailuresTell(samples) \in BOOLEAN
      /\ pc \in [Loops -> LoopStates] /\ left \in [Loops -> Nat]
      /\ \A l \in Loops : left[l] \in 0 .. M
      /\ M \in Nat /\ UNHEALTHY_CONSECUTIVE_FAILURES \in Nat \ {0}
      /\ retrying \in [Loops -> BOOLEAN] /\ late \in [Loops -> Nat] /\ up \in BOOLEAN
      /\ T + C <= Limit /\ Limit \in Nat
      /\ History(FailuresTell(samples), retrying, late)
  <2>1. retrying \in [Loops -> BOOLEAN] /\ late \in [Loops -> Nat] /\ up \in BOOLEAN
    BY DEF HealthInv, TypeOK
  <2>2. C \in Nat /\ Cardinality(Loops) * M \in Nat
    BY SlotsFit
  <2>3. Limit \in Nat
    BY <2>2, HealthAssumption DEF Limit
  <2> QED BY <2>1, <2>2, <2>3, InvGives DEF HealthInv
<1>2. ASSUME samples' = samples
      PROVE  /\ samples' \in Seq(Sample)
             /\ \A i \in 1 .. Len(samples') : samples'[i].age <= HEALTH_WINDOW
             /\ \A i, j \in 1 .. Len(samples') : i < j => samples'[i].age >= samples'[j].age
             /\ FailuresTell(samples') = FailuresTell(samples)
             /\ TrailingFailures(samples') = T
  BY <1>2 DEF HealthInv, TypeOK
<1>3. ASSUME samples' \in SampleWindows, Ordered(samples'), Young(samples')
      PROVE  /\ samples' \in Seq(Sample)
             /\ \A i \in 1 .. Len(samples') : samples'[i].age <= HEALTH_WINDOW
             /\ \A i, j \in 1 .. Len(samples') : i < j => samples'[i].age >= samples'[j].age
  BY <1>3 DEF SampleWindows, Ordered, Young
\* Where the batch of one loop goes on without an outcome.
<1>4. ASSUME NEW l \in Loops, NEW state, NEW rest \in 0 .. M, NEW retry \in BOOLEAN,
             state \in {"batch", "dialling", "calling", "asleep"},
             state = "asleep" => rest = 0,
             state \in {"dialling", "calling"} => rest < M,
             Open(state, rest) <= Open(pc[l], left[l]),
             retry => state = "dialling",
             samples' = samples, up' = up,
             pc' = [pc EXCEPT ![l] = state], left' = [left EXCEPT ![l] = rest],
             retrying' = [retrying EXCEPT ![l] = retry],
             late' \in [Loops -> Nat],
             History(FailuresTell(samples'), retrying', late')
      PROVE  HealthInv'
  <2>1. TypeOK'
    <3>1. pc' \in [Loops -> {"asleep", "awake", "batch", "dialling", "calling"}]
      BY <1>4 DEF HealthInv, TypeOK
    <3>2. left' \in [Loops -> 0 .. M]
      BY <1>4 DEF HealthInv, TypeOK
    <3>3. \A k \in Loops : pc'[k] \in {"dialling", "calling"} => left'[k] < M
      BY <1>4 DEF HealthInv, TypeOK
    <3>4. retrying' \in [Loops -> BOOLEAN]
      BY <1>1, <1>4
    <3> QED BY <1>1, <1>2, <1>4, <3>1, <3>2, <3>3, <3>4 DEF TypeOK
  <2>2. Cardinality(Slots(pc', left')) <= C
    <3>1. rest \in Nat
      BY <1>1, <1>4
    <3> QED BY <1>1, <1>4, <3>1, SlotsMove
  <2>3. Cardinality(Slots(pc', left')) \in Nat
    BY SlotsFit
  <2>4. TrailingFailures(samples') + Cardinality(Slots(pc', left')) <= Limit
    BY <1>1, <1>2, <1>4, <2>2, <2>3
  <2>5. \A k \in Loops : pc'[k] \in {"asleep", "awake"} => left'[k] = 0
    BY <1>1, <1>4 DEF HealthInv, TypeOK
  <2>6. \A k \in Loops : retrying'[k] => pc'[k] = "dialling"
    BY <1>1, <1>4 DEF HealthInv, TypeOK
  <2> QED BY <1>4, <2>1, <2>4, <2>5, <2>6 DEF HealthInv, Limit
<1>5. \A l \in Loops : retrying[l] \in BOOLEAN /\ (retrying[l] => pc[l] = "dialling")
  BY <1>1 DEF HealthInv
\* A loop that is not dialling has no retry to forget.
<1>6. ASSUME NEW l \in Loops, ~retrying[l], samples' = samples, retrying' = retrying, late' = late
      PROVE  /\ retrying' = [retrying EXCEPT ![l] = FALSE] /\ late' \in [Loops -> Nat]
             /\ History(FailuresTell(samples'), retrying', late')
  BY <1>1, <1>6
<1>7. ASSUME NEW l \in Loops, NEW approved \in 0 .. M, StartBatch(l, approved) PROVE HealthInv'
  <2>1. /\ pc[l] = "awake" /\ pc' = [pc EXCEPT ![l] = "batch"]
        /\ left' = [left EXCEPT ![l] = approved]
        /\ UNCHANGED <<samples, late, up, retrying>> /\ (status = "UNHEALTHY" => approved = 0)
    BY <1>7 DEF StartBatch, Moves
  <2>2. ~retrying[l] /\ left[l] = 0
    BY <1>5, <2>1 DEF HealthInv
  <2>3. CASE status = "UNHEALTHY"
    <3>1. approved = 0 /\ Open("batch", approved) <= Open(pc[l], left[l])
      BY <2>1, <2>2, <2>3 DEF Open
    <3>2. /\ "batch" \in {"batch", "dialling", "calling", "asleep"}
          /\ "batch" \notin {"dialling", "calling"} /\ "batch" # "asleep"
      OBVIOUS
    <3> QED BY <1>4, <1>6, <2>1, <2>2, <3>1, <3>2
  <2>4. CASE status # "UNHEALTHY"
    <3>1. T <= UNHEALTHY_CONSECUTIVE_FAILURES - 1
      BY <1>1, <2>4, ManyFailures DEF FailuresTell
    <3>2. /\ Cardinality(Slots(pc', left')) \in Nat
          /\ Cardinality(Slots(pc', left')) <= Cardinality(Loops) * M
          /\ Cardinality(Loops) * M \in Nat
      BY SlotsFit
    <3>3. TrailingFailures(samples') + Cardinality(Slots(pc', left')) <= Limit
      BY <1>1, <2>1, <3>1, <3>2 DEF Limit
    <3>4. TypeOK'
      <4>1. pc' \in [Loops -> {"asleep", "awake", "batch", "dialling", "calling"}]
        BY <2>1 DEF HealthInv, TypeOK
      <4>2. left' \in [Loops -> 0 .. M]
        BY <1>7, <2>1 DEF HealthInv, TypeOK
      <4>3. \A k \in Loops : pc'[k] \in {"dialling", "calling"} => left'[k] < M
        BY <2>1 DEF HealthInv, TypeOK
      <4> QED BY <1>1, <1>2, <2>1, <4>1, <4>2, <4>3 DEF TypeOK
    <3>5. \A k \in Loops : pc'[k] \in {"asleep", "awake"} => left'[k] = 0
      BY <1>1, <2>1 DEF HealthInv, TypeOK
    <3>6. \A k \in Loops : retrying'[k] => pc'[k] = "dialling"
      BY <1>1, <2>1, <2>2 DEF HealthInv, TypeOK
    <3>7. History(FailuresTell(samples'), retrying', late')
      BY <1>6, <2>1, <2>2
    <3> QED BY <3>3, <3>4, <3>5, <3>6, <3>7 DEF HealthInv, Limit
  <2> QED BY <2>3, <2>4
<1>8. ASSUME NEW l \in Loops, NoPair(l) PROVE HealthInv'
  <2>1. PICK fewer \in 0 .. M : fewer < left[l] /\ left' = [left EXCEPT ![l] = fewer]
    BY <1>8 DEF NoPair
  <2>2. pc[l] = "batch" /\ UNCHANGED <<samples, up, pc, retrying, late>> /\ ~retrying[l]
    BY <1>5, <1>8 DEF NoPair
  <2>3. pc' = [pc EXCEPT ![l] = "batch"]
    BY <1>1, <2>2
  <2>4. Open("batch", fewer) <= Open(pc[l], left[l])
    BY <1>1, <2>1, <2>2 DEF Open
  <2>5. /\ "batch" \in {"batch", "dialling", "calling", "asleep"}
        /\ "batch" \notin {"dialling", "calling"} /\ "batch" # "asleep"
    OBVIOUS
  <2> QED BY <1>4, <1>6, <2>1, <2>2, <2>3, <2>4, <2>5
<1>9. ASSUME NEW l \in Loops, NEW retry \in BOOLEAN, PassGate(l, retry) PROVE HealthInv'
  <2>1. /\ pc[l] = "batch" /\ pc' = [pc EXCEPT ![l] = "dialling"] /\ left[l] > 0
        /\ left' = [left EXCEPT ![l] = left[l] - 1]
        /\ retrying' = [retrying EXCEPT ![l] = retry]
        /\ UNCHANGED <<samples, late, up>> /\ (retry => status # "UNHEALTHY")
    BY <1>9 DEF PassGate, Moves
  <2>2. /\ left[l] - 1 \in 0 .. M /\ left[l] - 1 < M
        /\ Open("dialling", left[l] - 1) <= Open(pc[l], left[l])
    BY <1>1, <2>1 DEF Open
  <2>3. History(FailuresTell(samples'), retrying', late')
    <3>1. CASE retry
      <4>1. ~FailuresTell(samples) /\ FailuresTell(samples') = FALSE
        BY <2>1, <3>1, ManyFailures
      <4>2. \A k \in Loops : late[k] = 0
        BY <1>1, <4>1 DEF History
      <4> QED BY <2>1, <4>1, <4>2 DEF History
    <3>2. CASE ~retry
      <4>1. ~retrying[l] /\ retrying' = retrying
        BY <1>1, <1>5, <2>1, <3>2
      <4> QED BY <1>6, <2>1, <4>1
    <3> QED BY <3>1, <3>2
  <2>4. /\ "dialling" \in {"batch", "dialling", "calling", "asleep"} /\ "dialling" # "asleep"
        /\ late' \in [Loops -> Nat]
    BY <1>1, <2>1
  <2> QED BY <1>4, <2>1, <2>2, <2>3, <2>4
<1>10. ASSUME NEW l \in Loops, RetrySuppressed(l) PROVE HealthInv'
  <2>1. /\ pc[l] = "batch" /\ left[l] > 0 /\ left' = [left EXCEPT ![l] = left[l] - 1]
        /\ UNCHANGED <<samples, late, up, pc, retrying>> /\ ~retrying[l]
    BY <1>5, <1>10 DEF RetrySuppressed
  <2>2. pc' = [pc EXCEPT ![l] = "batch"]
    BY <1>1, <2>1
  <2>3. left[l] - 1 \in 0 .. M /\ Open("batch", left[l] - 1) <= Open(pc[l], left[l])
    BY <1>1, <2>1 DEF Open
  <2>4. /\ "batch" \in {"batch", "dialling", "calling", "asleep"}
        /\ "batch" \notin {"dialling", "calling"} /\ "batch" # "asleep"
    OBVIOUS
  <2> QED BY <1>4, <1>6, <2>1, <2>2, <2>3, <2>4
<1>11. ASSUME NEW l \in Loops, NotDialled(l) \/ Sleep(l) PROVE HealthInv'
  <2>1. /\ pc[l] \in {"batch", "dialling"}
        /\ retrying' = [retrying EXCEPT ![l] = FALSE] /\ UNCHANGED <<samples, up, late>>
    BY <1>11 DEF NotDialled, Sleep, Moves
  <2>2. PICK state \in {"batch", "asleep"}, rest \in 0 .. M :
          /\ pc' = [pc EXCEPT ![l] = state] /\ left' = [left EXCEPT ![l] = rest]
          /\ rest <= left[l] /\ (state = "asleep" => rest = 0)
    <3>1. CASE NotDialled(l)
      <4>1. left' = [left EXCEPT ![l] = left[l]] /\ pc' = [pc EXCEPT ![l] = "batch"]
        BY <1>1, <3>1 DEF NotDialled, Moves
      <4>2. left[l] \in 0 .. M /\ left[l] <= left[l]
        BY <1>1
      <4> QED BY <4>1, <4>2
    <3>2. CASE Sleep(l)
      <4>1. left' = [left EXCEPT ![l] = 0] /\ pc' = [pc EXCEPT ![l] = "asleep"]
        BY <3>2 DEF Sleep
      <4>2. 0 \in 0 .. M /\ 0 <= left[l]
        BY <1>1
      <4> QED BY <4>1, <4>2
    <3> QED BY <1>11, <3>1, <3>2
  <2>3. Open(state, rest) <= Open(pc[l], left[l])
    BY <1>1, <2>1, <2>2 DEF Open
  <2>4. History(FailuresTell(samples'), retrying', late')
    <3>1. \A k \in Loops : retrying'[k] => retrying[k]
      BY <1>1, <2>1
    <3>2. History(FailuresTell(samples), retrying',
                  IF FailuresTell(samples) THEN late ELSE [k \in Loops |-> 0])
      BY <1>1, <3>1, HistoryKeeps
    <3>3. ~FailuresTell(samples) => late = [k \in Loops |-> 0]
      BY <1>1 DEF History
    <3>4. History(FailuresTell(samples), retrying', late)
      BY <1>1, <3>2, <3>3
    <3> QED BY <2>1, <3>4
  <2>5. /\ state \in {"batch", "dialling", "calling", "asleep"}
        /\ state \notin {"dialling", "calling"} /\ late' \in [Loops -> Nat]
    BY <1>1, <2>1, <2>2
  <2> QED BY <1>4, <2>1, <2>2, <2>3, <2>4, <2>5
<1>12. ASSUME NEW l \in Loops, Request(l) PROVE HealthInv'
  <2>1. /\ pc[l] = "dialling" /\ pc' = [pc EXCEPT ![l] = "calling"]
        /\ retrying' = [retrying EXCEPT ![l] = FALSE] /\ UNCHANGED <<samples, up, left>>
        /\ late' = IF retrying[l] /\ FailuresTell(samples)
                   THEN [late EXCEPT ![l] = @ + 1] ELSE late
    BY <1>12 DEF Request, Moves
  <2>2. left' = [left EXCEPT ![l] = left[l]] /\ left[l] < M
    BY <1>1, <2>1 DEF HealthInv, TypeOK
  <2>3. Open("calling", left[l]) <= Open(pc[l], left[l])
    BY <1>1, <2>1 DEF Open
  <2>4. /\ "calling" \in {"batch", "dialling", "calling", "asleep"} /\ "calling" # "asleep"
        /\ late' \in [Loops -> Nat]
    BY <1>1, <2>1
  <2>5. History(FailuresTell(samples'), retrying', late')
    <3>1. CASE retrying[l] /\ FailuresTell(samples)
      <4>1. FailuresTell(samples) = TRUE
        BY <1>1, <3>1
      <4>2. History(TRUE, retrying', late')
        BY <1>1, <2>1, <3>1, <4>1, HistorySends
      <4> QED BY <2>1, <4>1, <4>2
    <3>2. CASE ~(retrying[l] /\ FailuresTell(samples))
      <4>1. late' = late /\ \A k \in Loops : retrying'[k] => retrying[k]
        BY <1>1, <2>1, <3>2
      <4>2. History(FailuresTell(samples), retrying',
                    IF FailuresTell(samples) THEN late ELSE [k \in Loops |-> 0])
        BY <1>1, <4>1, HistoryKeeps
      <4>3. ~FailuresTell(samples) => late = [k \in Loops |-> 0]
        BY <1>1 DEF History
      <4>4. History(FailuresTell(samples), retrying', late)
        BY <1>1, <4>2, <4>3
      <4> QED BY <2>1, <4>1, <4>4
    <3> QED BY <3>1, <3>2
  <2> QED BY <1>1, <1>4, <2>1, <2>2, <2>3, <2>4, <2>5
<1>13. ASSUME NEW l \in Loops, NEW outcome \in Outcomes, Originate(l, outcome) PROVE HealthInv'
  <2>1. /\ pc[l] = "calling" /\ pc' = [pc EXCEPT ![l] = "batch"] /\ samples' = Record(outcome, samples)
        /\ late' = IF FailuresTell(samples') THEN late ELSE [k \in Loops |-> 0]
        /\ UNCHANGED <<up, left, retrying>>
    BY <1>13 DEF Originate, Moves, Told
  <2>2. /\ samples' \in SampleWindows /\ Ordered(samples') /\ Young(samples')
        /\ TrailingFailures(samples') \in Nat /\ TrailingFailures(samples') <= T + 1
    BY <1>1, <2>1, RecordedIs
  <2>3. left[l] < M /\ ~retrying[l]
    BY <1>5, <2>1 DEF HealthInv, TypeOK
  <2>4. Cardinality(Slots(pc', left')) <= C - 1 /\ Cardinality(Slots(pc', left')) \in Nat
    BY <1>1, <2>1, <2>3, SlotsAnswer, SlotsFit
  <2>5. TrailingFailures(samples') + Cardinality(Slots(pc', left')) <= Limit
    BY <1>1, <2>2, <2>4
  <2>6. FailuresTell(samples') \in BOOLEAN
    BY <1>1, <2>2 DEF FailuresTell
  <2>7. History(FailuresTell(samples'), retrying', late')
    BY <1>1, <2>1, <2>3, <2>6, HistoryTells
  <2>8. TypeOK'
    <3>1. pc' \in [Loops -> {"asleep", "awake", "batch", "dialling", "calling"}]
      BY <2>1 DEF HealthInv, TypeOK
    <3>2. \A k \in Loops : pc'[k] \in {"dialling", "calling"} => left'[k] < M
      BY <2>1 DEF HealthInv, TypeOK
    <3>3. left' \in [Loops -> 0 .. M]
      BY <2>1 DEF HealthInv, TypeOK
    <3>4. late' \in [Loops -> Nat]
      BY <1>1, <2>1
    <3> QED BY <1>1, <1>3, <2>1, <2>2, <3>1, <3>2, <3>3, <3>4 DEF TypeOK
  <2>9. \A k \in Loops : pc'[k] \in {"asleep", "awake"} => left'[k] = 0
    BY <1>1, <2>1 DEF HealthInv, TypeOK
  <2>10. \A k \in Loops : retrying'[k] => pc'[k] = "dialling"
    BY <1>1, <1>5, <2>1, <2>3
  <2> QED BY <2>5, <2>7, <2>8, <2>9, <2>10 DEF HealthInv, Limit
<1>14. ASSUME TimePasses PROVE HealthInv'
  <2>1. /\ samples' = Trim(Aged(samples))
        /\ pc' = [l \in Loops |-> IF pc[l] = "asleep" THEN "awake" ELSE pc[l]]
        /\ late' = IF FailuresTell(samples') THEN late ELSE [k \in Loops |-> 0]
        /\ UNCHANGED <<up, left, retrying>>
    BY <1>14 DEF TimePasses, Told
  <2>2. /\ Aged(samples) \in SampleWindows /\ Ordered(Aged(samples))
        /\ TrailingFailures(Aged(samples)) = T
    BY <1>1, AgedKeeps
  <2>3. /\ samples' \in SampleWindows /\ Ordered(samples') /\ Young(samples')
        /\ TrailingFailures(samples') \in Nat /\ TrailingFailures(samples') <= T
    BY <2>1, <2>2, TrimmedIs
  <2>4. Slots(pc', left') = Slots(pc, left)
    <3>1. left' = left
      BY <2>1
    <3>2. \A slot \in Loops \X (1 .. M) :
            Open(pc'[slot[1]], left'[slot[1]]) = Open(pc[slot[1]], left[slot[1]])
      BY <2>1, <3>1 DEF Open
    <3> QED BY <3>2 DEF Slots
  <2>5. TrailingFailures(samples') + Cardinality(Slots(pc', left')) <= Limit
    BY <1>1, <2>3, <2>4
  <2>6. FailuresTell(samples') \in BOOLEAN /\ (FailuresTell(samples') => FailuresTell(samples))
    BY <1>1, <2>3 DEF FailuresTell
  <2>7. History(FailuresTell(samples'), retrying', late')
    <3>1. retrying' = retrying
      BY <2>1
    <3>2. History(FailuresTell(samples'), retrying,
                  IF FailuresTell(samples') THEN late ELSE [k \in Loops |-> 0])
      BY <1>1, <2>6, HistoryKeeps
    <3> QED BY <2>1, <3>1, <3>2
  <2>8. TypeOK'
    <3>1. pc' \in [Loops -> {"asleep", "awake", "batch", "dialling", "calling"}]
      BY <2>1 DEF HealthInv, TypeOK
    <3>2. \A k \in Loops : pc'[k] \in {"dialling", "calling"} => left'[k] < M
      BY <2>1 DEF HealthInv, TypeOK
    <3>3. left' \in [Loops -> 0 .. M]
      BY <2>1 DEF HealthInv, TypeOK
    <3>4. late' \in [Loops -> Nat]
      BY <1>1, <2>1
    <3> QED BY <1>1, <1>3, <2>1, <2>3, <3>1, <3>2, <3>3, <3>4 DEF TypeOK
  <2>9. \A k \in Loops : pc'[k] \in {"asleep", "awake"} => left'[k] = 0
    BY <2>1 DEF HealthInv, TypeOK
  <2>10. \A k \in Loops : retrying'[k] => pc'[k] = "dialling"
    BY <1>1, <1>5, <2>1
  <2> QED BY <2>5, <2>7, <2>8, <2>9, <2>10 DEF HealthInv, Limit
<1>15. CASE UNCHANGED <<samples, pc, left, retrying, late>> /\ up' \in BOOLEAN
  BY <1>15 DEF HealthInv, TypeOK
<1>16. CASE ProviderChanges \/ UNCHANGED vars
  BY <1>1, <1>15, <1>16 DEF ProviderChanges, vars
<1>17. CASE \E l \in Loops : Loop(l)
  BY <1>7, <1>8, <1>9, <1>10, <1>11, <1>12, <1>13, <1>17 DEF Loop
<1> QED BY <1>14, <1>16, <1>17 DEF Next

LEMMA HealthHolds == Spec => []HealthInv
  BY HealthInit, HealthNext, PTL DEF Spec

\* Types, and the order and age of the samples: _trim looks at the oldest alone.
THEOREM HealthTypes == Spec => []TypeOK
<1>1. HealthInv => TypeOK
  BY DEF HealthInv
<1> QED BY <1>1, HealthHolds, PTL

\* The circuit breaker holds: whatever the thresholds, however many loops share the window
\* and however their batches go on, a provider that is down gets no more failing calls in a
\* row than those that were not enough to tell, and one batch of each loop.
THEOREM OutagesAreContained == Spec => []OutageIsContained
<1>1. HealthInv => OutageIsContained
  <2>1. SUFFICES ASSUME HealthInv PROVE OutageIsContained
    OBVIOUS
  <2>2. TrailingFailures(samples) \in Nat /\ Cardinality(Slots(pc, left)) \in Nat
    BY <2>1, InvGives, SlotsFit
  <2>3. Limit \in Int
    BY SlotsFit, HealthAssumption DEF Limit
  <2> QED BY <2>1, <2>2, <2>3 DEF HealthInv, OutageIsContained, Limit
<1> QED BY <1>1, HealthHolds, PTL

\* Retries are contained although gate and request lie apart: from the moment the failures
\* tell, time and the other loops' outcomes can only make them fewer or leave them telling,
\* and every retry still under way passed the gate before that moment.
THEOREM RetriesAreHeldBack == Spec => []RetriesAreContained
<1>1. HealthInv => RetriesAreContained
  <2>1. Loops # {}
    BY HealthAssumption
  <2> QED BY <2>1 DEF HealthInv, History, RetriesAreContained
<1> QED BY <1>1, HealthHolds, PTL
=========================================================================================
