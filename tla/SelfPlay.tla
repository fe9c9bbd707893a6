------------------------------ MODULE SelfPlay ------------------------------
(***************************************************************************)
(* Collecting training data (VecSelfPlay of src/python/train/envs.py,      *)
(* collect of selfplay.py, gae of net.py): environments stepped side by    *)
(* side, replaced as their matches end, with the shaped rewards of a       *)
(* transition completed only after the next observation.                   *)
(*                                                                         *)
(* Hit points are counted in units in which both fractions of the          *)
(* potential are whole numbers.  Rewards and advantages are polynomials    *)
(* in the discounts, which are integers here: an identity of polynomials   *)
(* that holds for fractions holds for integers.                            *)
(***************************************************************************)
EXTENDS Integers, SequencesExt

CONSTANTS
  num_envs, horizon,
  gamma, gae_lambda, shape, win,
  n_mixed,    \* environments with a fixed opponent in one slot
  FullHp,     \* hit points of a unit at the start of a match
  Blows,      \* what a tick may take: {<<hp of slot 1, hp of slot 2>>}
  MaxTicks,   \* ticks until a match ends by its duration
  U,          \* steps of the unit interval that a random number falls on
  MaxSteps    \* bound: vectorised steps explored

Env == 1..num_envs
Slot == {1, 2}
Other(s) == 3 - s

ASSUME SelfPlayAssumption ==
  /\ {num_envs, horizon, gamma, FullHp, MaxTicks, U} \subseteq Nat \ {0}
  /\ {gae_lambda, shape, win} \subseteq Nat
  /\ n_mixed \in 0..num_envs
  /\ Blows \subseteq Nat \X Nat

VARIABLES
  envs,              \* by environment: [seed, hp, ticks]
  episodes_started,  \* seeds handed out
  phi,               \* by environment and slot: potential of the last observe_all
  obs,               \* by environment: the observation the loop of collect holds
  batch,             \* by transition of this horizon: [obs, act, val, rew, done, inc]
  trained,           \* what collect returned: [adv, kept], or nothing
  account,           \* by environment: the rewards of the running episode and its start
  settled,           \* the accounts of the episodes that ended in the last step
  steps              \* vectorised steps so far

selfplay_vars ==
  <<envs, episodes_started, phi, obs, batch, trained, account, settled, steps>>

Nothing == [adv |-> <<>>, kept |-> {}]

-----------------------------------------------------------------------------
(* The network's choice among the actions 0..3.                            *)

\* masked_log_softmax: the probabilities, in steps of 1/U, that the network
\* may give the legal actions; they add up to one but for rounding.
Probabilities(mask) ==
  {p \in [0..3 -> 0..U] : /\ \A a \in 0..3 \ mask : p[a] = 0
                          /\ p[0] + p[1] + p[2] + p[3] \in U - 2..U + 2}

cumsum(p) ==
  [a \in 0..3 |-> p[0] + (IF a >= 1 THEN p[1] ELSE 0) + (IF a >= 2 THEN p[2] ELSE 0)
                       + (IF a = 3 THEN p[3] ELSE 0)]

\* Mutant: the sum is taken for one.
act_NotNormalised(p, u) == LET cum == cumsum(p) IN Cardinality({a \in 0..3 : cum[a] < u})

\* MLP.act for the random number u / U.
act(p, u) == LET cum == cumsum(p) IN Cardinality({a \in 0..3 : cum[a] * U < u * cum[3]})

-----------------------------------------------------------------------------
(* VecSelfPlay.                                                            *)

NewEnv(seed) == [seed |-> seed, hp |-> <<FullHp, FullHp>>, ticks |-> 0]

Observation(e) == e

\* phi_from_raw.
potential(hp) == [s \in Slot |-> hp[s] - hp[Other(s)]]

Over(e) == e.hp[1] = 0 \/ e.hp[2] = 0 \/ e.ticks = MaxTicks

\* winner_slot with slots counted from 1; 0 for a match that ended by time.
winner(e) == IF e.hp[1] > 0 /\ e.hp[2] > 0 THEN 0 ELSE IF e.hp[1] > 0 THEN 1 ELSE 2

terminal(e, s) == IF winner(e) = 0 THEN 0 ELSE IF winner(e) = s THEN win ELSE -win

\* The match after a tick that took blow; only one unit may die of it.
After(e, blow) ==
  LET hit(s) == IF e.hp[s] > blow[s] THEN e.hp[s] - blow[s] ELSE 0
  IN  [e EXCEPT !.hp = <<IF hit(2) = 0 THEN e.hp[1] ELSE hit(1), hit(2)>>, !.ticks = @ + 1]

\* Mutant: the counter moves on once per step, not once per environment.
Replaced_OncePerStep(played) ==
  [i \in Env |-> IF Over(played[i]) THEN NewEnv(episodes_started) ELSE played[i]]

\* The environments that step_all leaves: the finished ones are replaced, in
\* order, by the next seeds.
Replaced(played) ==
  [i \in Env |->
     IF Over(played[i])
     THEN NewEnv(episodes_started + Cardinality({j \in Env : j < i /\ Over(played[j])}))
     ELSE played[i]]

-----------------------------------------------------------------------------
(* collect.                                                                *)

\* The slot of an environment's fixed opponent, 0 for none: the rotation over
\* combos.  Which policy it plays makes no difference here.
fixed(i) == IF i > n_mixed THEN 0 ELSE IF i % 2 = 1 THEN 2 ELSE 1

\* The action of a slot names who chose it and on what.
actions(i) ==
  [s \in Slot |-> [by |-> IF fixed(i) = s THEN "opponent" ELSE "net", on |-> obs[i]]]

\* The value head, for definiteness some function of the observation.
value(o, s) == o.hp[s] + 2 * o.ticks

\* The part of the rewards that step_all knows.
rewards_terminal(e, s, phi_pre) ==
  IF Over(e) THEN terminal(e, s) + shape * (gamma * potential(e.hp)[s] - phi_pre[s]) ELSE 0

\* Mutant: the mask of the live environments is forgotten.
rewards_NotMasked(e, s, phi_pre, phi_next) ==
  rewards_terminal(e, s, phi_pre) + shape * (gamma * phi_next[s] - phi_pre[s])

\* The reward of a transition; phi_next is of the environment that is observed
\* next, which for a match that ended is its replacement.
rewards(e, s, phi_pre, phi_next) ==
  rewards_terminal(e, s, phi_pre)
  + shape * (gamma * phi_next[s] - phi_pre[s]) * (IF Over(e) THEN 0 ELSE 1)

NewAccount == [sum |-> <<0, 0>>, weight |-> 1, start |-> potential(<<FullHp, FullHp>>)]

\* The account of a running episode after a transition with these rewards.
Credited(a, rew) ==
  [a EXCEPT !.sum = [s \in Slot |-> @[s] + a.weight * rew[s]], !.weight = @ * gamma]

\* The account of an episode that ended.
Settled(a, e) ==
  [sum |-> a.sum, weight |-> a.weight, start |-> a.start,
   won |-> [s \in Slot |-> terminal(e, s)], final |-> potential(e.hp)]

Init ==
  /\ envs = [i \in Env |-> NewEnv(i - 1)]
  /\ episodes_started = num_envs
  /\ obs = [i \in Env |-> Observation(envs[i])]
  /\ phi = [i \in Env |-> potential(envs[i].hp)]
  /\ batch = <<>>
  /\ trained = Nothing
  /\ account = [i \in Env |-> NewAccount]
  /\ settled = {}
  /\ steps = 0

\* One turn of the loop of collect: the actions are chosen, step_all plays
\* them, observe_all looks at what it left.
Step ==
  /\ Len(batch) < horizon /\ steps < MaxSteps
  /\ \E blow \in [Env -> Blows] :
       LET played == [i \in Env |-> After(envs[i], blow[i])]
           next   == Replaced(played)
           phi_next == [i \in Env |-> potential(next[i].hp)]
           rew    == [i \in Env |-> [s \in Slot |->
                                      rewards(played[i], s, phi[i], phi_next[i])]]
           over   == {i \in Env : Over(played[i])}
           credited == [i \in Env |-> Credited(account[i], rew[i])]
       IN  /\ envs' = next
           /\ episodes_started' = episodes_started + Cardinality(over)
           /\ obs' = [i \in Env |-> Observation(next[i])]
           /\ phi' = phi_next
           /\ batch' = Append(batch,
                [obs |-> obs, act |-> [i \in Env |-> actions(i)], rew |-> rew,
                 val |-> [i \in Env |-> [s \in Slot |-> value(obs[i], s)]],
                 done |-> [i \in Env |-> i \in over]])
           /\ account' = [i \in Env |-> IF i \in over THEN NewAccount ELSE credited[i]]
           /\ settled' = {Settled(credited[i], played[i]) : i \in over}
  /\ steps' = steps + 1
  /\ UNCHANGED trained

-----------------------------------------------------------------------------
(* gae and the batch that collect returns.                                 *)

live(t, i) == IF batch[t].done[i] THEN 0 ELSE 1

next_value(t, i, s) == IF t = horizon THEN value(obs[i], s) ELSE batch[t + 1].val[i][s]

delta(t, i, s) ==
  batch[t].rew[i][s] + gamma * next_value(t, i, s) * live(t, i) - batch[t].val[i][s]

\* Mutant: advantages run on across the end of a match.
gae_Leaking(i, s) ==
  LET adv[t \in 1..(horizon + 1)] ==
        IF t > horizon THEN 0 ELSE delta(t, i, s) + gamma * gae_lambda * adv[t + 1]
  IN  [t \in 1..horizon |-> adv[t]]

gae(i, s) ==
  LET adv[t \in 1..(horizon + 1)] ==
        IF t > horizon THEN 0
        ELSE delta(t, i, s) + gamma * gae_lambda * live(t, i) * adv[t + 1]
  IN  [t \in 1..horizon |-> adv[t]]

\* Transitions of fixed opponents are dropped.
inc(t, i, s) == batch[t].act[i][s].by = "net"

CollectReturns ==
  /\ Len(batch) = horizon /\ trained = Nothing
  /\ trained' = [adv  |-> [i \in Env |-> [s \in Slot |-> gae(i, s)]],
                 kept |-> {c \in (1..horizon) \X Env \X Slot : inc(c[1], c[2], c[3])}]
  /\ UNCHANGED <<envs, episodes_started, phi, obs, batch, account, settled, steps>>

\* Mutant: the next iteration starts from the observation the last one began with.
NextIteration_OldObs ==
  /\ trained # Nothing
  /\ obs' = batch[1].obs
  /\ batch' = <<>> /\ trained' = Nothing
  /\ UNCHANGED <<envs, episodes_started, phi, account, settled, steps>>

\* The network is updated; matches go on into the next horizon.
NextIteration ==
  /\ trained # Nothing
  /\ batch' = <<>> /\ trained' = Nothing
  /\ UNCHANGED <<envs, episodes_started, phi, obs, account, settled, steps>>

Next == Step \/ CollectReturns \/ NextIteration

Spec == Init /\ [][Next]_selfplay_vars

-----------------------------------------------------------------------------
(* Properties.                                                             *)

\* The policies always act on what their match looks like now, and the potential
\* that step_all reads is that of the state it steps from: across replaced
\* environments and from one horizon to the next (envs.py:170, 197).
ActsOnPresent ==
  \A i \in Env : obs[i] = Observation(envs[i]) /\ phi[i] = potential(envs[i].hp)

\* envs.py:114-116, "potential-based shaping": over a whole match, whatever the
\* horizons it spans and however its environment was replaced before and after,
\* the discounted rewards of a slot are its terminal reward and the difference
\* of the potentials at its ends.
ShapingTelescopes ==
  \A a \in settled : \A s \in Slot :
    a.sum[s] = (a.weight \div gamma) * a.won[s] + shape * (a.weight * a.final[s] - a.start[s])

\* The first transition at t or after it that ended a match of environment i, or
\* the last of the horizon.
LastOf(t, i) == Min({k \in t..horizon : batch[k].done[i]} \cup {horizon})

\* The error of transition k by what was observed before and after it.
ErrorAt(k, i, s) ==
  LET after == IF k = horizon THEN obs[i] ELSE batch[k + 1].obs[i]
  IN  batch[k].rew[i][s] - value(batch[k].obs[i], s)
      + (IF batch[k].done[i] THEN 0 ELSE gamma * value(after, s))

\* net.py:186-187: an advantage sums the errors of its own match only, and a
\* match that goes on past the horizon is valued by the observation that follows.
AdvantagesStayInMatch ==
  trained # Nothing =>
    \A i \in Env, s \in Slot, t \in 1..horizon :
      trained.adv[i][s][t] =
        MapThenSumSet(LAMBDA k : (gamma * gae_lambda)^(k - t) * ErrorAt(k, i, s), t..LastOf(t, i))

\* net.py:70, "so u<1 can never land past a legal action": however the sum was
\* rounded, and even when the network all but excludes actions, the first one
\* included, a legal action is taken (None, action 0, always is one).
SampledIsLegal ==
  steps = 0 =>
    \A others \in SUBSET (1..3) : \A p \in Probabilities({0} \cup others), u \in 0..U - 1 :
      act(p, u) \in {0} \cup others

\* envs.py:13-14: of the matches that run together no two have one seed, and
\* each is one of those handed out so far.  (Over a whole training run, with its
\* crashes, NoSeedReused says it of every seed.)
SeedsAreOwn ==
  /\ IsInjective([i \in Env |-> envs[i].seed])
  /\ \A i \in Env : envs[i].seed \in 0..(episodes_started - 1)
=============================================================================
