------------------------------ MODULE Matchup ------------------------------
(***************************************************************************)
(* play_matchup of src/python/train/evaluate.py: one match per seed, in    *)
(* chunks of environments that are stepped side by side and drop out of    *)
(* the active list as their matches end.                                   *)
(*                                                                         *)
(* Seeds, environments of a chunk and rows of the observation arrays are   *)
(* three numberings that agree only at the start of the first chunk.       *)
(* Seeds and environments count from 0 as in the code, rows from 1.        *)
(***************************************************************************)
EXTENDS Integers, SequencesExt

CONSTANTS
  N,       \* number of seeds
  Chunks,  \* the chunk sizes to choose from (eval_envs)
  Fates,   \* how a match can go: [ticks, winner, illegal]
  Astray   \* how a match goes that took an action meant for another

ASSUME MatchupAssumption ==
  /\ N \in Nat \ {0}
  /\ Chunks \subseteq Nat \ {0}
  /\ \A f \in Fates : f.ticks \in Nat \ {0} /\ f.winner \in {-1, 0, 1} /\ f.illegal \in Nat

VARIABLES
  chunk,  \* the chunk size of this run
  fate,   \* by seed, how its match goes under the two policies
  lo,     \* the first seed of the chunk being played
  envs,   \* by environment of the chunk: its seed, the actions it took, whether it is open
  played  \* the loop's variables: [active, scores, draws, deaths, illegal]

matchup_vars == <<chunk, fate, lo, envs, played>>

Seed == 0..(N - 1)

\* np.empty: the scores are whatever the memory held.
Unset == 9

OpenChunk(first, size) ==
  [i \in 0..(Min({size, N - first}) - 1) |-> [seed |-> first + i, taken |-> <<>>, open |-> TRUE]]

AllOf(chunk_envs) == SetToSortSeq(DOMAIN chunk_envs, <)

Init ==
  /\ chunk \in Chunks
  /\ fate \in [Seed -> Fates]
  /\ lo = 0
  /\ envs = OpenChunk(0, chunk)
  /\ played = [active |-> AllOf(envs), scores |-> [k \in Seed |-> Unset],
               draws |-> 0, deaths |-> 0, illegal |-> 0]

-----------------------------------------------------------------------------
\* An observation names the match and the moment it was made at; a policy is a
\* function of it, so an action is known by its observation.
Observation(e) == <<e.seed, Len(e.taken)>>

\* The rows of the arrays that the policies see, with their answers.
Rows == [j \in DOMAIN played.active |-> Observation(envs[played.active[j]])]

Stepped(j) == LET e == envs[played.active[j]] IN [e EXCEPT !.taken = Append(@, Rows[j])]

Ended(e) == Len(e.taken) = fate[e.seed].ticks

\* The match is deterministic: it goes its way on the answers to its own
\* observations.
Result(e) ==
  IF \A n \in DOMAIN e.taken : e.taken[n] = <<e.seed, n - 1>> THEN fate[e.seed] ELSE Astray

\* Scores are doubled: win 2, draw 1, loss 0.
score_of(winner) == CASE winner = 0 -> 2 [] winner = 1 -> 0 [] winner = -1 -> 1

\* Mutant: the score goes to the row of the shrunken arrays.
ScoreIndex_Row(j) == lo + j - 1

ScoreIndex(j) == lo + played.active[j]

\* The body of the inner loop for row j.
Collect(w, j) ==
  LET e == Stepped(j)
      r == Result(e)
  IN  IF ~Ended(e) THEN [w EXCEPT !.active = Append(@, played.active[j])]
      ELSE [w EXCEPT !.scores = (ScoreIndex(j) :> score_of(r.winner)) @@ @,
                     !.draws = @ + (IF r.winner = -1 THEN 1 ELSE 0),
                     !.deaths = @ + (IF r.winner # -1 THEN 1 ELSE 0),
                     !.illegal = @ + r.illegal]

\* One turn of the while loop; an environment is closed as its match ends.
Tick ==
  /\ played.active # <<>>
  /\ played' = FoldLeftDomain(Collect, [played EXCEPT !.active = <<>>], played.active)
  /\ envs' = [i \in DOMAIN envs |->
                IF Contains(played.active, i)
                THEN LET e == Stepped(SelectInSeq(played.active, LAMBDA k : k = i))
                     IN  [e EXCEPT !.open = ~Ended(e)]
                ELSE envs[i]]
  /\ UNCHANGED <<chunk, fate, lo>>

NextChunk ==
  /\ played.active = <<>> /\ lo + chunk < N
  /\ lo' = lo + chunk
  /\ envs' = OpenChunk(lo', chunk)
  /\ played' = [played EXCEPT !.active = AllOf(envs')]
  /\ UNCHANGED <<chunk, fate>>

Returned == played.active = <<>> /\ lo + chunk >= N

Return == Returned /\ UNCHANGED matchup_vars

Next == Tick \/ NextChunk \/ Return

Spec == Init /\ [][Next]_matchup_vars

-----------------------------------------------------------------------------
(* Properties.                                                             *)

\* config.py:118, "vectorization width (no effect on results)": whatever the
\* chunk size and the order in which matches end, the score of each seed and
\* the counts are those of its match played alone.
WidthHasNoEffect ==
  Returned =>
    /\ \A k \in Seed : played.scores[k] = score_of(fate[k].winner)
    /\ played.draws = Cardinality({k \in Seed : fate[k].winner = -1})
    /\ played.deaths = N - played.draws
    /\ played.illegal = MapThenSumSet(LAMBDA k : fate[k].illegal, Seed)
=============================================================================
