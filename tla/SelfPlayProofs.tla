--------------------------- MODULE SelfPlayProofs ---------------------------
(***************************************************************************)
(* Proofs about collecting training data: for any number of environments,  *)
(* any horizon, any discount and any blows.                                *)
(***************************************************************************)
EXTENDS SelfPlay, FiniteSetTheorems, TLAPS

-----------------------------------------------------------------------------
(* The network's choice.                                                   *)

LEMMA SmallSets ==
  ASSUME NEW a, NEW b, NEW c, a # b, a # c, b # c
  PROVE  Cardinality({a}) = 1 /\ Cardinality({a, b}) = 2 /\ Cardinality({a, b, c}) = 3
<1>1. IsFiniteSet({a}) /\ Cardinality({a}) = 1
  BY FS_Singleton
<1>2. {a, b} = {a} \cup {b} /\ b \notin {a}
  OBVIOUS
<1>3. IsFiniteSet({a, b}) /\ Cardinality({a, b}) = 1 + 1
  BY <1>1, <1>2, FS_AddElement
<1>4. {a, b, c} = {a, b} \cup {c} /\ c \notin {a, b}
  OBVIOUS
<1>5. Cardinality({a, b, c}) = (1 + 1) + 1
  BY <1>3, <1>4, FS_AddElement
<1>6. QED
  BY <1>1, <1>3, <1>5

\* Whatever the rounding, the action taken is one that the network may take.
LEMMA ActIsLegal ==
  ASSUME NEW others \in SUBSET (1..3), NEW p \in Probabilities({0} \cup others), NEW u \in 0..U - 1
  PROVE  act(p, u) \in {0} \cup others
<1>1. U \in Nat /\ u \in Nat /\ u < U
  BY SelfPlayAssumption
<1>2. /\ p[0] \in Nat /\ p[1] \in Nat /\ p[2] \in Nat /\ p[3] \in Nat
      /\ \A a \in 1..3 : a \notin others => p[a] = 0
  BY <1>1 DEF Probabilities
<1> DEFINE cum == cumsum(p)
           low == {a \in 0..3 : cum[a] * U < u * cum[3]}
<1>3. /\ cum[0] = p[0] /\ cum[1] = cum[0] + p[1] /\ cum[2] = cum[1] + p[2] /\ cum[3] = cum[2] + p[3]
  BY <1>2 DEF cumsum
<1> HIDE DEF cum
<1>4. PICK c0 \in Nat, c1 \in Nat, c2 \in Nat, c3 \in Nat, last \in Nat :
        /\ c0 = cum[0] * U /\ c1 = cum[1] * U /\ c2 = cum[2] * U /\ c3 = cum[3] * U
        /\ last = u * cum[3]
        /\ c0 <= c1 /\ c1 <= c2 /\ c2 <= c3 /\ last <= c3
        /\ (p[1] = 0 => c1 = c0) /\ (p[2] = 0 => c2 = c1) /\ (p[3] = 0 => c3 = c2)
  <2>1. ASSUME NEW x \in Nat, NEW y \in Nat
        PROVE  x * U \in Nat /\ x * U <= (x + y) * U
    BY <1>1
  <2>2. ASSUME NEW x \in Nat PROVE u * x \in Nat /\ u * x <= x * U
    BY <1>1
  <2>3. cum[0] \in Nat /\ cum[1] \in Nat /\ cum[2] \in Nat /\ cum[3] \in Nat
    BY <1>2, <1>3
  <2>4. cum[0] * U <= cum[1] * U /\ cum[1] * U <= cum[2] * U /\ cum[2] * U <= cum[3] * U
    BY <1>2, <1>3, <2>1, <2>3
  <2>5. (p[1] = 0 => cum[1] = cum[0]) /\ (p[2] = 0 => cum[2] = cum[1]) /\ (p[3] = 0 => cum[3] = cum[2])
    BY <1>3, <2>3
  <2>6. QED
    BY <2>1, <2>2, <2>3, <2>4, <2>5
<1>5. /\ 0 \in low <=> c0 < last
      /\ 1 \in low <=> c1 < last
      /\ 2 \in low <=> c2 < last
      /\ 3 \in low <=> c3 < last
  BY <1>4
<1>6. low \subseteq 0..3 /\ 0..3 = {0, 1, 2, 3} /\ act(p, u) = Cardinality(low)
  BY DEF act, cum
<1> HIDE DEF low
<1>7. 3 \notin low
  BY <1>4, <1>5
<1>8. ASSUME NEW k \in 1..3, p[k] # 0 PROVE k \in others
  BY <1>2, <1>8
<1>9. Cardinality({0}) = 1 /\ Cardinality({0, 1}) = 2 /\ Cardinality({0, 1, 2}) = 3
  <2>1. PICK a, b, c : a = 0 /\ b = 1 /\ c = 2
    OBVIOUS
  <2>2. a # b /\ a # c /\ b # c
    BY <2>1
  <2>3. Cardinality({a}) = 1 /\ Cardinality({a, b}) = 2 /\ Cardinality({a, b, c}) = 3
    BY ONLY <2>2, SmallSets, ZenonT(30)
  <2>4. QED
    BY <2>1, <2>3
<1>10. CASE 0 \notin low
  <2>1. 1 \notin low /\ 2 \notin low
    BY <1>4, <1>5, <1>10
  <2>2. low = {}
    BY <1>6, <1>7, <1>10, <2>1
  <2>3. QED
    BY <1>6, <2>2, FS_EmptySet
<1>11. CASE 0 \in low /\ 1 \notin low
  <2>1. 2 \notin low /\ p[1] # 0
    BY <1>4, <1>5, <1>11
  <2>2. low = {0}
    BY <1>6, <1>7, <1>11, <2>1
  <2>3. Cardinality(low) = 1
    BY <1>9, <2>2
  <2>4. QED
    BY <1>6, <1>8, <2>1, <2>3
<1>12. CASE 1 \in low /\ 2 \notin low
  <2>1. 0 \in low /\ p[2] # 0
    BY <1>4, <1>5, <1>12
  <2>2. low = {0, 1}
    BY <1>6, <1>7, <1>12, <2>1
  <2>3. Cardinality(low) = 2
    BY <1>9, <2>2
  <2>4. QED
    BY <1>6, <1>8, <2>1, <2>3
<1>13. CASE 2 \in low
  <2>1. 0 \in low /\ 1 \in low /\ p[3] # 0
    BY <1>4, <1>5, <1>7, <1>13
  <2>2. low = {0, 1, 2}
    BY <1>6, <1>7, <1>13, <2>1
  <2>3. Cardinality(low) = 3
    BY <1>9, <2>2
  <2>4. QED
    BY <1>6, <1>8, <2>1, <2>3
<1>14. QED
  BY <1>10, <1>11, <1>12, <1>13

\* "So u<1 can never land past a legal action" (net.py:70), for probabilities
\* and random numbers of any precision.
THEOREM OnlyLegalIsSampled == Spec => []SampledIsLegal
<1>1. SampledIsLegal
  BY ActIsLegal DEF SampledIsLegal
<1>2. QED
  BY <1>1, PTL

-----------------------------------------------------------------------------
(* Observations.                                                           *)

\* The policies act on what their match looks like now, and rewards are
\* shaped by the potential of the state that was stepped from
\* (envs.py:170, 197).
THEOREM PoliciesSeeThePresent == Spec => []ActsOnPresent
<1>1. Init => ActsOnPresent
  BY DEF Init, ActsOnPresent
<1>2. ActsOnPresent /\ [Next]_selfplay_vars => ActsOnPresent'
  <2> SUFFICES ASSUME ActsOnPresent, [Next]_selfplay_vars PROVE ActsOnPresent'
    OBVIOUS
  <2>1. CASE Step
    <3>1. PICK next : /\ envs' = next
                      /\ obs' = [i \in Env |-> Observation(next[i])]
                      /\ phi' = [i \in Env |-> potential(next[i].hp)]
      BY <2>1 DEF Step
    <3>2. QED
      BY <3>1 DEF ActsOnPresent, Observation, potential, Slot, Other
  <2>2. CASE CollectReturns \/ NextIteration \/ UNCHANGED selfplay_vars
    <3>1. UNCHANGED <<envs, obs, phi>>
      BY <2>2 DEF CollectReturns, NextIteration, selfplay_vars
    <3>2. QED
      BY <3>1 DEF ActsOnPresent, Observation, potential, Slot, Other
  <2>3. QED
    BY <2>1, <2>2 DEF Next
<1>3. QED
  BY <1>1, <1>2, PTL DEF Spec

-----------------------------------------------------------------------------
(* Matches and their seeds.                                                *)

Match == [seed: Nat, hp: [Slot -> Nat], ticks: Nat]

Typed == envs \in [Env -> Match] /\ episodes_started \in Nat

LEMMA NewMatch ==
  ASSUME NEW seed \in Nat
  PROVE  NewEnv(seed) \in Match /\ NewEnv(seed).seed = seed /\ NewEnv(seed).hp = <<FullHp, FullHp>>
<1>1. FullHp \in Nat
  BY SelfPlayAssumption
<1>2. QED
  BY <1>1 DEF NewEnv, Match, Slot

LEMMA MatchGoesOn ==
  ASSUME NEW e \in Match, NEW blow \in Blows
  PROVE  After(e, blow) \in Match /\ After(e, blow).seed = e.seed
<1>1. blow[1] \in Nat /\ blow[2] \in Nat
  BY SelfPlayAssumption
<1>2. e.hp[1] \in Nat /\ e.hp[2] \in Nat /\ e.ticks \in Nat
  BY DEF Match, Slot
<1> DEFINE hit(s) == IF e.hp[s] > blow[s] THEN e.hp[s] - blow[s] ELSE 0
           one    == IF hit(2) = 0 THEN e.hp[1] ELSE hit(1)
           two    == hit(2)
           hp     == <<one, two>>
           ticks  == e.ticks + 1
<1>3. one \in Nat /\ two \in Nat
  BY <1>1, <1>2
<1>4. After(e, blow) = [e EXCEPT !.hp = hp, !.ticks = ticks]
  BY DEF After
<1> HIDE DEF one, two
<1>5. hp \in [Slot -> Nat] /\ ticks \in Nat
  BY <1>2, <1>3 DEF Slot
<1> HIDE DEF hp, ticks
<1>6. After(e, blow) = [seed |-> e.seed, hp |-> hp, ticks |-> ticks]
  BY <1>4 DEF Match
<1>7. QED
  BY <1>5, <1>6 DEF Match

\* The environments that are replaced get seeds of their own, in order.
LEMMA FreshSeeds ==
  ASSUME episodes_started \in Nat, NEW over \in SUBSET Env
  PROVE  LET before(i) == {j \in Env : j < i /\ j \in over}
         IN  /\ Cardinality(over) \in Nat
             /\ \A i \in over : Cardinality(before(i)) \in Nat /\ Cardinality(before(i)) < Cardinality(over)
             /\ \A i, k \in over : i < k => Cardinality(before(i)) < Cardinality(before(k))
<1> DEFINE before(i) == {j \in Env : j < i /\ j \in over}
<1>1. IsFiniteSet(over)
  <2>1. num_envs \in Int /\ 1 \in Int
    BY SelfPlayAssumption
  <2>2. IsFiniteSet(Env)
    BY <2>1, FS_Interval DEF Env
  <2>3. QED
    BY <2>2, FS_Subset
<1>2. Cardinality(over) \in Nat
  BY <1>1, FS_CardinalityType
<1>3. ASSUME NEW S \in SUBSET over, NEW T \in SUBSET S, S # T
      PROVE  /\ Cardinality(T) \in Nat /\ Cardinality(S) \in Nat /\ Cardinality(T) < Cardinality(S)
  <2>1. IsFiniteSet(S)
    BY <1>1, FS_Subset
  <2>2. IsFiniteSet(T) /\ Cardinality(T) <= Cardinality(S) /\ Cardinality(T) # Cardinality(S)
    BY <1>3, <2>1, FS_Subset
  <2>3. Cardinality(T) \in Nat /\ Cardinality(S) \in Nat
    BY <2>1, <2>2, FS_CardinalityType
  <2>4. QED
    BY <2>2, <2>3
<1>4. ASSUME NEW i \in over
      PROVE  Cardinality(before(i)) \in Nat /\ Cardinality(before(i)) < Cardinality(over)
  <2>1. before(i) \in SUBSET over /\ i \notin before(i) /\ over \in SUBSET over
    BY DEF Env
  <2> HIDE DEF before
  <2>2. over # before(i)
    BY <2>1
  <2>3. QED
    BY <1>3, <2>1, <2>2
<1>5. ASSUME NEW i \in over, NEW k \in over, i < k
      PROVE  Cardinality(before(i)) < Cardinality(before(k))
  <2>1. /\ before(k) \in SUBSET over /\ before(i) \in SUBSET before(k)
        /\ i \in before(k) /\ i \notin before(i)
    BY <1>5 DEF Env
  <2> HIDE DEF before
  <2>2. before(k) # before(i)
    BY <2>1
  <2>3. QED
    BY <1>3, <2>1, <2>2
<1>6. QED
  BY <1>2, <1>4, <1>5

SeedInv ==
  /\ Typed
  /\ \A i \in Env : envs[i].seed < episodes_started
  /\ \A i, k \in Env : i # k => envs[i].seed # envs[k].seed

LEMMA StepKeepsSeeds ==
  ASSUME SeedInv, Step
  PROVE  SeedInv'
<1>1. PICK blow \in [Env -> Blows] :
        LET played == [i \in Env |-> After(envs[i], blow[i])]
        IN  /\ envs' = Replaced(played)
            /\ episodes_started' = episodes_started + Cardinality({i \in Env : Over(played[i])})
  BY DEF Step
<1> DEFINE played == [i \in Env |-> After(envs[i], blow[i])]
           over   == {i \in Env : Over(played[i])}
           nth(i) == Cardinality({j \in Env : j < i /\ j \in over})
<1>2. \A i \in Env : played[i] \in Match /\ played[i].seed = envs[i].seed
  BY MatchGoesOn DEF SeedInv, Typed
<1>3. \A i \in Env : {j \in Env : j < i /\ Over(played[j])} = {j \in Env : j < i /\ j \in over}
  OBVIOUS
<1>4. /\ envs' = [i \in Env |-> IF i \in over THEN NewEnv(episodes_started + nth(i)) ELSE played[i]]
      /\ episodes_started' = episodes_started + Cardinality(over)
  BY <1>1, <1>3 DEF Replaced
<1>5. /\ Cardinality(over) \in Nat /\ episodes_started \in Nat
      /\ \A i \in over : nth(i) \in Nat /\ nth(i) < Cardinality(over)
      /\ \A i, k \in over : i < k => nth(i) < nth(k)
  BY FreshSeeds DEF SeedInv, Typed
<1>6. over \subseteq Env /\ \A i \in Env : i \in Int
  BY DEF Env
<1> HIDE DEF played, over, nth
<1>7. ASSUME NEW i \in over
      PROVE  /\ envs'[i] \in Match /\ envs'[i].seed = episodes_started + nth(i)
             /\ envs'[i].seed < episodes_started'
  <2>1. episodes_started + nth(i) \in Nat
    BY <1>5
  <2>2. envs'[i] = NewEnv(episodes_started + nth(i))
    BY <1>4, <1>6
  <2>3. QED
    BY <1>4, <1>5, <2>1, <2>2, NewMatch
<1>8. ASSUME NEW i \in Env \ over
      PROVE  /\ envs'[i] \in Match /\ envs'[i].seed = envs[i].seed
             /\ envs'[i].seed < episodes_started
  BY <1>2, <1>4 DEF SeedInv
<1>9. ASSUME NEW i \in Env, NEW k \in Env, i < k
      PROVE  envs'[i].seed # envs'[k].seed
  <2>1. CASE i \in over /\ k \in over
    BY <1>5, <1>7, <1>9, <2>1
  <2>2. CASE i \notin over /\ k \notin over
    BY <1>6, <1>8, <1>9, <2>2 DEF SeedInv
  <2>3. CASE i \in over /\ k \notin over
    BY <1>5, <1>7, <1>8, <2>3
  <2>4. CASE i \notin over /\ k \in over
    BY <1>5, <1>7, <1>8, <2>4
  <2>5. QED
    BY <2>1, <2>2, <2>3, <2>4
<1>10. Typed'
  BY <1>4, <1>5, <1>7, <1>8 DEF Typed
<1>11. \A i \in Env : envs'[i].seed < episodes_started'
  <2> SUFFICES ASSUME NEW i \in Env PROVE envs'[i].seed < episodes_started'
    OBVIOUS
  <2>1. CASE i \in over
    BY <1>7, <2>1
  <2>2. CASE i \notin over
    <3>1. envs'[i].seed \in Nat /\ envs'[i].seed < episodes_started
      BY <1>8, <2>2 DEF Match
    <3>2. QED
      BY <1>4, <1>5, <3>1
  <2>3. QED
    BY <2>1, <2>2
<1>12. QED
  BY <1>6, <1>9, <1>10, <1>11 DEF SeedInv

\* Each match has a seed of its own (envs.py:13-14), for any number of
\* environments that end in the same step.
THEOREM SeedsStayApart == Spec => []SeedsAreOwn
<1>1. Init => SeedInv
  <2> SUFFICES ASSUME Init PROVE SeedInv
    OBVIOUS
  <2>1. envs = [i \in Env |-> NewEnv(i - 1)] /\ episodes_started = num_envs /\ num_envs \in Nat
    BY SelfPlayAssumption DEF Init
  <2>2. ASSUME NEW i \in Env PROVE i - 1 \in Nat /\ i - 1 < num_envs
    BY <2>1 DEF Env
  <2>3. ASSUME NEW i \in Env PROVE envs[i] \in Match /\ envs[i].seed = i - 1
    BY <2>1, <2>2, NewMatch
  <2>4. \A i, k \in Env : i # k => i - 1 # k - 1
    BY DEF Env
  <2>5. Typed
    BY <2>1, <2>3 DEF Typed
  <2>6. QED
    BY <2>1, <2>2, <2>3, <2>4, <2>5 DEF SeedInv
<1>2. SeedInv /\ [Next]_selfplay_vars => SeedInv'
  <2> SUFFICES ASSUME SeedInv, [Next]_selfplay_vars PROVE SeedInv'
    OBVIOUS
  <2>1. CASE CollectReturns \/ NextIteration \/ UNCHANGED selfplay_vars
    BY <2>1 DEF CollectReturns, NextIteration, selfplay_vars, SeedInv, Typed
  <2>2. QED
    BY <2>1, StepKeepsSeeds DEF Next
<1>3. SeedInv => SeedsAreOwn
  <2> SUFFICES ASSUME SeedInv PROVE SeedsAreOwn
    OBVIOUS
  <2>1. \A i \in Env : envs[i].seed \in 0..(episodes_started - 1)
    BY DEF SeedInv, Typed, Match
  <2>2. IsInjective([i \in Env |-> envs[i].seed])
    BY DEF SeedInv, IsInjective
  <2>3. QED
    BY <2>1, <2>2 DEF SeedsAreOwn
<1>4. QED
  BY <1>1, <1>2, <1>3, PTL DEF Spec

-----------------------------------------------------------------------------
(* Shaped rewards.                                                         *)

Account == [sum: [Slot -> Int], weight: Nat \ {0}, start: [Slot -> Int]]

\* What an account holds of a match that goes on, where the potential is now.
Balanced(a, now) == \A s \in Slot : a.sum[s] = shape * (a.weight * now[s] - a.start[s])

\* One transition, from the potential pre to the potential post.
LEMMA Telescopes ==
  ASSUME NEW sum \in Int, NEW w \in Int, NEW pre \in Int, NEW post \in Int, NEW start \in Int,
         NEW t \in Int, sum = shape * (w * pre - start)
  PROVE  sum + w * (t + shape * (gamma * post - pre)) = shape * ((w * gamma) * post - start) + w * t
<1>1. shape \in Int /\ gamma \in Int
  BY SelfPlayAssumption
<1>2. PICK g \in Int : g = gamma
  BY <1>1
<1>3. PICK h \in Int : h = shape
  BY <1>1
<1>4. sum = h * (w * pre) - h * start
  BY <1>3
<1>5. h * (g * post - pre) = h * (g * post) - h * pre
  OBVIOUS
<1>6. w * (t + h * (g * post - pre)) = w * t + w * (h * (g * post)) - w * (h * pre)
  BY <1>5
<1>7. w * (h * (g * post)) = h * ((w * g) * post) /\ w * (h * pre) = h * (w * pre)
  OBVIOUS
<1>8. h * ((w * g) * post - start) = h * ((w * g) * post) - h * start
  OBVIOUS
<1>9. QED
  BY <1>2, <1>3, <1>4, <1>6, <1>7, <1>8

LEMMA CreditIs ==
  ASSUME NEW a \in Account, NEW rew, NEW pre \in [Slot -> Int], NEW post \in [Slot -> Int],
         NEW t \in [Slot -> Int], Balanced(a, pre),
         \A s \in Slot : rew[s] = t[s] + shape * (gamma * post[s] - pre[s])
  PROVE  /\ Credited(a, rew) \in Account
         /\ Credited(a, rew).weight = a.weight * gamma /\ Credited(a, rew).start = a.start
         /\ \A s \in Slot : Credited(a, rew).sum[s]
                              = shape * ((a.weight * gamma) * post[s] - a.start[s]) + a.weight * t[s]
<1>1. gamma \in Nat \ {0} /\ shape \in Nat
  BY SelfPlayAssumption
<1>2. a.weight \in Nat \ {0} /\ a.start \in [Slot -> Int] /\ a.sum \in [Slot -> Int]
  BY DEF Account
<1> DEFINE sum    == [s \in Slot |-> a.sum[s] + a.weight * rew[s]]
           weight == a.weight * gamma
<1>3. ASSUME NEW s \in Slot
      PROVE  sum[s] = shape * ((a.weight * gamma) * post[s] - a.start[s]) + a.weight * t[s]
  <2>1. a.sum[s] = shape * (a.weight * pre[s] - a.start[s])
    BY DEF Balanced
  <2>2. QED
    BY <1>2, <2>1, Telescopes
<1>4. ASSUME NEW x \in Int, NEW y \in Int PROVE x * y \in Int
  OBVIOUS
<1>5. weight \in Nat \ {0}
  BY <1>1, <1>2
<1>6. ASSUME NEW s \in Slot PROVE sum[s] \in Int
  <2>1. /\ (a.weight * gamma) * post[s] - a.start[s] \in Int /\ a.weight * t[s] \in Int
    BY <1>2, <1>4, <1>5
  <2>2. shape * ((a.weight * gamma) * post[s] - a.start[s]) \in Int
    BY <1>1, <1>4, <2>1
  <2>3. QED
    BY <1>3, <2>1, <2>2
<1>7. Credited(a, rew) = [a EXCEPT !.sum = sum, !.weight = weight]
  BY DEF Credited
<1>8. sum \in [Slot -> Int]
  BY <1>6
<1> HIDE DEF sum, weight
<1>9. Credited(a, rew) = [sum |-> sum, weight |-> weight, start |-> a.start]
  BY <1>7 DEF Account
<1>10. Credited(a, rew) \in Account
  BY <1>2, <1>5, <1>8, <1>9 DEF Account
<1>11. QED
  BY <1>3, <1>9, <1>10 DEF weight

LEMMA PotentialIs ==
  ASSUME NEW hp \in [Slot -> Nat]
  PROVE  potential(hp) \in [Slot -> Int]
  BY DEF potential, Slot, Other

AccountInv ==
  /\ Typed /\ ActsOnPresent /\ phi = [i \in Env |-> phi[i]]
  /\ account \in [Env -> Account]
  /\ \A i \in Env : Balanced(account[i], potential(envs[i].hp))
  /\ ShapingTelescopes

LEMMA NewAccountBalances ==
  ASSUME NEW hp, hp = <<FullHp, FullHp>>
  PROVE  NewAccount \in Account /\ Balanced(NewAccount, potential(hp))
<1>1. FullHp \in Nat /\ shape \in Nat
  BY SelfPlayAssumption
<1>2. potential(hp) = [s \in Slot |-> 0]
  BY <1>1 DEF potential, Slot, Other
<1>3. NewAccount.sum \in [Slot -> Int] /\ NewAccount.start = [s \in Slot |-> 0] /\ NewAccount.weight = 1
  BY <1>2 DEF NewAccount, Slot
<1>4. NewAccount \in Account
  BY <1>3 DEF Account, NewAccount
<1>5. ASSUME NEW s \in Slot
      PROVE  NewAccount.sum[s] = shape * (NewAccount.weight * potential(hp)[s] - NewAccount.start[s])
  BY <1>1, <1>2, <1>3 DEF NewAccount, Slot
<1>6. QED
  BY <1>4, <1>5 DEF Balanced

\* The rewards of a transition, by the potentials before and after it.
LEMMA RewardIs ==
  ASSUME NEW e \in Match, NEW s \in Slot, NEW pre \in [Slot -> Int], NEW post \in [Slot -> Int],
         ~Over(e) => post = potential(e.hp)
  PROVE  /\ Over(e) => rewards(e, s, pre, post)
                         = terminal(e, s) + shape * (gamma * potential(e.hp)[s] - pre[s])
         /\ ~Over(e) => rewards(e, s, pre, post) = 0 + shape * (gamma * potential(e.hp)[s] - pre[s])
         /\ terminal(e, s) \in Int
<1>1. gamma \in Int /\ shape \in Int /\ win \in Int
  BY SelfPlayAssumption
<1>2. potential(e.hp) \in [Slot -> Int]
  BY PotentialIs DEF Match
<1>3. PICK now \in Int, before \in Int, next \in Int :
        now = potential(e.hp)[s] /\ before = pre[s] /\ next = post[s]
  BY <1>2
<1>4. terminal(e, s) \in Int
  BY <1>1 DEF terminal
<1>5. ASSUME NEW x \in Int, NEW y \in Int PROVE x * y \in Int /\ (x * y) * 0 = 0 /\ (x * y) * 1 = x * y
  OBVIOUS
<1>6. /\ shape * (gamma * now - before) \in Int
      /\ (shape * (gamma * next - before)) * 0 = 0
      /\ (shape * (gamma * next - before)) * 1 = shape * (gamma * next - before)
  BY <1>1, <1>5
<1>7. CASE Over(e)
  <2>1. rewards(e, s, pre, post)
          = (terminal(e, s) + shape * (gamma * now - before)) + (shape * (gamma * next - before)) * 0
    BY <1>3, <1>7 DEF rewards, rewards_terminal
  <2>2. QED
    BY <1>3, <1>4, <1>6, <1>7, <2>1
<1>8. CASE ~Over(e)
  <2>1. rewards(e, s, pre, post) = 0 + (shape * (gamma * next - before)) * 1 /\ next = now
    BY <1>3, <1>8 DEF rewards, rewards_terminal
  <2>2. QED
    BY <1>3, <1>4, <1>6, <1>8, <2>1
<1>9. QED
  BY <1>7, <1>8

LEMMA DivMul ==
  ASSUME NEW w \in Nat, NEW g \in Nat \ {0}
  PROVE  (w * g) \div g = w
  OBVIOUS

LEMMA StepKeepsAccounts ==
  ASSUME AccountInv, Step
  PROVE  AccountInv'
<1>1. PICK blow \in [Env -> Blows] :
        LET played == [i \in Env |-> After(envs[i], blow[i])]
            next   == Replaced(played)
            phi_next == [i \in Env |-> potential(next[i].hp)]
            rew    == [i \in Env |-> [s \in Slot |-> rewards(played[i], s, phi[i], phi_next[i])]]
            over   == {i \in Env : Over(played[i])}
            credited == [i \in Env |-> Credited(account[i], rew[i])]
        IN  /\ envs' = next
            /\ episodes_started' = episodes_started + Cardinality(over)
            /\ obs' = [i \in Env |-> Observation(next[i])]
            /\ phi' = phi_next
            /\ account' = [i \in Env |-> IF i \in over THEN NewAccount ELSE credited[i]]
            /\ settled' = {Settled(credited[i], played[i]) : i \in over}
  BY DEF Step
<1> DEFINE played == [i \in Env |-> After(envs[i], blow[i])]
           next   == Replaced(played)
           over   == {i \in Env : Over(played[i])}
           phi_next == [i \in Env |-> potential(next[i].hp)]
           rew    == [i \in Env |-> [s \in Slot |-> rewards(played[i], s, phi[i], phi_next[i])]]
           credited == [i \in Env |-> Credited(account[i], rew[i])]
<1>2. /\ envs' = next /\ episodes_started' = episodes_started + Cardinality(over)
      /\ obs' = [i \in Env |-> Observation(next[i])] /\ phi' = phi_next
      /\ account' = [i \in Env |-> IF i \in over THEN NewAccount ELSE credited[i]]
      /\ settled' = {Settled(credited[i], played[i]) : i \in over}
  BY <1>1
<1>3. \A i \in Env : played[i] \in Match
  BY MatchGoesOn DEF AccountInv, Typed
<1>4. \A i \in Env :
        /\ i \notin over => next[i] = played[i]
        /\ i \in over => next[i].hp = <<FullHp, FullHp>> /\ next[i] \in Match
  <2> SUFFICES ASSUME NEW i \in Env
               PROVE  /\ i \notin over => next[i] = played[i]
                      /\ i \in over => next[i].hp = <<FullHp, FullHp>> /\ next[i] \in Match
    OBVIOUS
  <2> DEFINE m == Cardinality({j \in Env : j < i /\ Over(played[j])})
  <2>1. next[i] = IF i \in over THEN NewEnv(episodes_started + m) ELSE played[i]
    BY DEF Replaced
  <2>2. i \in over => m \in Nat
    <3>1. {j \in Env : j < i /\ Over(played[j])} = {j \in Env : j < i /\ j \in over}
      OBVIOUS
    <3>2. episodes_started \in Nat /\ over \in SUBSET Env
      BY DEF AccountInv, Typed
    <3> HIDE DEF over, played
    <3>3. i \in over => Cardinality({j \in Env : j < i /\ j \in over}) \in Nat
      BY <3>2, FreshSeeds
    <3>4. QED
      BY <3>1, <3>3
  <2> HIDE DEF m, next, over
  <2>3. episodes_started \in Nat
    BY DEF AccountInv, Typed
  <2>4. QED
    BY <2>1, <2>2, <2>3, NewMatch
<1>5. Cardinality(over) \in Nat /\ over \subseteq Env
  <2>1. over \in SUBSET Env /\ episodes_started \in Nat
    BY DEF AccountInv, Typed
  <2> HIDE DEF over
  <2>2. QED
    BY <2>1, FreshSeeds
<1>6. Typed'
  <2>1. next = [i \in Env |-> next[i]]
    BY DEF Replaced
  <2> HIDE DEF next, over, played
  <2>2. \A i \in Env : next[i] \in Match
    BY <1>3, <1>4
  <2>3. next \in [Env -> Match]
    BY <2>1, <2>2
  <2>4. QED
    BY <1>2, <1>5, <2>3 DEF Typed, AccountInv
<1> DEFINE pre(i)  == phi[i]
           post(i) == potential(played[i].hp)
           a(i)    == account[i]
           t(i)    == [s \in Slot |-> IF i \in over THEN terminal(played[i], s) ELSE 0]
<1>7. ASSUME NEW i \in Env
      PROVE  /\ credited[i] \in Account
             /\ credited[i].weight = a(i).weight * gamma /\ credited[i].start = a(i).start
             /\ \A s \in Slot : credited[i].sum[s]
                  = shape * ((a(i).weight * gamma) * post(i)[s] - a(i).start[s]) + a(i).weight * t(i)[s]
  <2>1. a(i) \in Account /\ Balanced(a(i), pre(i)) /\ pre(i) = potential(envs[i].hp)
    BY DEF AccountInv, ActsOnPresent
  <2>2. pre(i) \in [Slot -> Int] /\ post(i) \in [Slot -> Int]
    BY <1>3, <2>1, PotentialIs DEF AccountInv, Typed, Match
  <2>3. phi_next[i] = potential(next[i].hp) /\ played[i] \in Match /\ (i \in over <=> Over(played[i]))
    BY <1>3
  <2>4. phi_next[i] \in [Slot -> Int] /\ (i \notin over => phi_next[i] = post(i))
    <3>1. next[i] \in Match
      BY <1>3, <1>4
    <3>2. next[i].hp \in [Slot -> Nat]
      BY <3>1 DEF Match
    <3>3. i \notin over => next[i] = played[i]
      BY <1>4
    <3> HIDE DEF next, over, played, phi_next
    <3>4. QED
      BY <2>3, <3>2, <3>3, PotentialIs
  <2>5. \A s \in Slot : rew[i][s] = rewards(played[i], s, pre(i), phi_next[i])
    OBVIOUS
  <2>6. credited[i] = Credited(a(i), rew[i])
    OBVIOUS
  <2>7. post(i) = potential(played[i].hp)
    OBVIOUS
  <2>8. \A s \in Slot : t(i)[s] = IF i \in over THEN terminal(played[i], s) ELSE 0
    OBVIOUS
  <2>9. t(i) = [s \in Slot |-> t(i)[s]]
    OBVIOUS
  <2> HIDE DEF next, over, played, phi_next, rew, credited, pre, post, a, t
  <2>10. ASSUME NEW s \in Slot
         PROVE  t(i)[s] \in Int /\ rew[i][s] = t(i)[s] + shape * (gamma * post(i)[s] - pre(i)[s])
    <3>1. /\ Over(played[i]) => rewards(played[i], s, pre(i), phi_next[i])
                                 = terminal(played[i], s) + shape * (gamma * potential(played[i].hp)[s] - pre(i)[s])
          /\ ~Over(played[i]) => rewards(played[i], s, pre(i), phi_next[i])
                                 = 0 + shape * (gamma * potential(played[i].hp)[s] - pre(i)[s])
          /\ terminal(played[i], s) \in Int
      BY <2>2, <2>3, <2>4, <2>7, RewardIs
    <3>2. QED
      BY <2>3, <2>5, <2>7, <2>8, <3>1
  <2>11. t(i) \in [Slot -> Int]
    BY <2>9, <2>10
  <2>12. QED
    BY <2>1, <2>2, <2>6, <2>10, <2>11, CreditIs
<1>8. ActsOnPresent'
  BY <1>2 DEF ActsOnPresent, Observation, potential, Slot, Other
<1>9. phi' = [i \in Env |-> phi'[i]]
  BY <1>2
<1>10. ASSUME NEW i \in Env
       PROVE  account'[i] \in Account /\ Balanced(account'[i], potential(envs'[i].hp))
  <2>1. CASE i \in over
    <3>1. account'[i] = NewAccount /\ envs'[i].hp = <<FullHp, FullHp>>
      <4> HIDE DEF over, next, credited, played
      <4>1. QED
        BY <1>2, <1>4, <2>1
    <3>2. QED
      BY <3>1, NewAccountBalances
  <2>2. CASE i \notin over
    <3>1. account'[i] = credited[i] /\ envs'[i].hp = played[i].hp
      <4> HIDE DEF over, next, credited, played
      <4>1. QED
        BY <1>2, <1>4, <2>2
    <3>2. \A s \in Slot : t(i)[s] = 0
      BY <2>2
    <3>3. a(i).weight \in Nat /\ credited[i].sum \in [Slot -> Int]
      BY <1>7 DEF AccountInv, Account
    <3> HIDE DEF over, next, credited, played, t, a
    <3>4. \A s \in Slot : credited[i].sum[s] = shape * (credited[i].weight * post(i)[s] - credited[i].start[s])
      <4> SUFFICES ASSUME NEW s \in Slot
                   PROVE  credited[i].sum[s]
                            = shape * (credited[i].weight * post(i)[s] - credited[i].start[s])
        OBVIOUS
      <4> DEFINE whole == shape * ((a(i).weight * gamma) * post(i)[s] - a(i).start[s])
      <4>1. credited[i].sum[s] = whole + a(i).weight * 0 /\ a(i).weight * 0 = 0
        BY <1>7, <3>2, <3>3
      <4>2. whole = shape * (credited[i].weight * post(i)[s] - credited[i].start[s])
        BY <1>7
      <4>3. whole \in Int
        <5>1. post(i)[s] \in Int
          BY <1>3, PotentialIs DEF Match
        <5>2. a(i).start[s] \in Int
          BY <1>7 DEF Account
        <5>3. gamma \in Int /\ shape \in Int
          BY SelfPlayAssumption
        <5>4. ASSUME NEW x \in Int, NEW y \in Int PROVE x * y \in Int
          OBVIOUS
        <5> HIDE DEF post
        <5>5. (a(i).weight * gamma) * post(i)[s] \in Int
          BY <3>3, <5>1, <5>3, <5>4
        <5>6. (a(i).weight * gamma) * post(i)[s] - a(i).start[s] \in Int
          BY <5>2, <5>5
        <5>7. QED
          BY <5>3, <5>4, <5>6
      <4> HIDE DEF whole
      <4>4. QED
        BY <4>1, <4>2, <4>3
    <3>5. QED
      BY <1>7, <3>1, <3>4 DEF Balanced
  <2>3. QED
    BY <2>1, <2>2
<1>11. account' = [i \in Env |-> account'[i]]
  BY <1>2
<1>12. ASSUME NEW b \in settled', NEW s \in Slot
       PROVE  b.sum[s] = (b.weight \div gamma) * b.won[s] + shape * (b.weight * b.final[s] - b.start[s])
  <2>1. PICK i \in over : b = Settled(credited[i], played[i])
    BY <1>2
  <2>2. i \in Env /\ t(i)[s] = terminal(played[i], s)
    OBVIOUS
  <2> HIDE DEF over, next, credited, played
  <2>3. /\ b.sum = credited[i].sum /\ b.weight = credited[i].weight /\ b.start = credited[i].start
        /\ b.won[s] = terminal(played[i], s) /\ b.final = post(i)
    BY <2>1 DEF Settled
  <2>4. a(i).weight \in Nat /\ gamma \in Nat \ {0}
    BY <2>2, SelfPlayAssumption DEF AccountInv, Account
  <2> HIDE DEF t, a
  <2>5. b.weight = a(i).weight * gamma /\ b.weight \div gamma = a(i).weight
    BY <1>7, <2>2, <2>3, <2>4, DivMul
  <2> DEFINE whole == shape * ((a(i).weight * gamma) * post(i)[s] - a(i).start[s])
             end   == a(i).weight * t(i)[s]
  <2>6. b.sum[s] = whole + end
    BY <1>7, <2>2, <2>3
  <2>7. whole = shape * (b.weight * b.final[s] - b.start[s])
    BY <1>7, <2>2, <2>3, <2>5
  <2>8. end = (b.weight \div gamma) * b.won[s]
    BY <2>2, <2>3, <2>5
  <2>9. end \in Int /\ whole \in Int
    <3>1. post(i)[s] \in Int /\ t(i)[s] \in Int
      <4>1. terminal(played[i], s) \in Int
        BY SelfPlayAssumption DEF terminal
      <4>2. QED
        BY <1>3, <2>2, <4>1, PotentialIs DEF Match
    <3>2. a(i).start[s] \in Int
      BY <1>7, <2>2 DEF Account
    <3>3. shape \in Int
      BY SelfPlayAssumption
    <3>4. ASSUME NEW x \in Int, NEW y \in Int PROVE x * y \in Int
      OBVIOUS
    <3> HIDE DEF post
    <3>5. (a(i).weight * gamma) * post(i)[s] \in Int
      BY <2>4, <3>1, <3>4
    <3>6. (a(i).weight * gamma) * post(i)[s] - a(i).start[s] \in Int
      BY <3>2, <3>5
    <3>7. QED
      BY <2>4, <3>1, <3>3, <3>4, <3>6
  <2> HIDE DEF whole, end
  <2>10. QED
    BY <2>6, <2>7, <2>8, <2>9
<1>13. ShapingTelescopes'
  BY <1>12 DEF ShapingTelescopes
<1>14. account' \in [Env -> Account]
  BY <1>10, <1>11
<1>15. \A i \in Env : Balanced(account[i], potential(envs[i].hp))'
  BY <1>10 DEF Balanced, potential, Slot, Other
<1>16. QED
  BY <1>6, <1>8, <1>9, <1>13, <1>14, <1>15 DEF AccountInv

\* Over a whole match the shaped rewards of a slot come to its terminal reward
\* and the difference of the potentials at its ends, "potential-based shaping"
\* (envs.py:114-116), for any discount and any number of environments.
THEOREM RewardsTelescope == Spec => []ShapingTelescopes
<1>1. Init => AccountInv
  <2> SUFFICES ASSUME Init PROVE AccountInv
    OBVIOUS
  <2>1. /\ envs = [i \in Env |-> NewEnv(i - 1)] /\ episodes_started = num_envs /\ num_envs \in Nat
        /\ account = [i \in Env |-> NewAccount]
        /\ phi = [i \in Env |-> potential(envs[i].hp)] /\ settled = {}
    BY SelfPlayAssumption DEF Init
  <2>2. ASSUME NEW i \in Env
        PROVE  envs[i] \in Match /\ envs[i].hp = <<FullHp, FullHp>>
    <3>1. i - 1 \in Nat
      BY <2>1 DEF Env
    <3>2. QED
      BY <2>1, <3>1, NewMatch
  <2>3. Typed
    BY <2>1, <2>2 DEF Typed
  <2>4. ActsOnPresent
    BY DEF Init, ActsOnPresent
  <2>5. \A i \in Env : account[i] \in Account /\ Balanced(account[i], potential(envs[i].hp))
    BY <2>1, <2>2, NewAccountBalances
  <2>6. ShapingTelescopes
    BY <2>1 DEF ShapingTelescopes
  <2>7. account \in [Env -> Account]
    BY <2>1, <2>5
  <2>8. phi = [i \in Env |-> phi[i]]
    BY <2>1
  <2>9. QED
    BY <2>3, <2>4, <2>5, <2>6, <2>7, <2>8 DEF AccountInv
<1>2. AccountInv /\ [Next]_selfplay_vars => AccountInv'
  <2> SUFFICES ASSUME AccountInv, [Next]_selfplay_vars PROVE AccountInv'
    OBVIOUS
  <2>1. CASE CollectReturns \/ NextIteration \/ UNCHANGED selfplay_vars
    <3>1. UNCHANGED <<envs, episodes_started, phi, obs, account, settled>>
      BY <2>1 DEF CollectReturns, NextIteration, selfplay_vars
    <3>2. QED
      BY <3>1 DEF AccountInv, Typed, ActsOnPresent, Observation, potential, Slot, Other, Balanced,
                  ShapingTelescopes
  <2>2. QED
    BY <2>1, StepKeepsAccounts DEF Next
<1>3. AccountInv => ShapingTelescopes
  BY DEF AccountInv
<1>4. QED
  BY <1>1, <1>2, <1>3, PTL DEF Spec
=============================================================================
