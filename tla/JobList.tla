------------------------------ MODULE JobList -------------------------------
(***************************************************************************)
(* What a queue of jobs is to the threads that share it: a sequence.       *)
(***************************************************************************)
EXTENDS Sequences, SequencesExt

CONSTANTS Jobs, Threads, Owner(_), NULL

VARIABLES list,    \* the jobs, from the head to the tail
          answer   \* what the last search of each thread returned

FirstOf(t) ==
    LET its == {n \in DOMAIN list : Owner(list[n]) = t}
    IN  IF its = {} THEN NULL ELSE list[Min(its)]

Init == list = <<>> /\ answer = [t \in Threads |-> NULL]

Put(j) == /\ j \notin ToSet(list)
          /\ list' \in {<<j>> \o list, Append(list, j)}
          /\ UNCHANGED answer

Leave(j) == /\ \E n \in DOMAIN list : list[n] = j /\ list' = RemoveAt(list, n)
            /\ UNCHANGED answer

Find(t) == answer' = [answer EXCEPT ![t] = FirstOf(t)] /\ UNCHANGED list

Next == (\E j \in Jobs : Put(j) \/ Leave(j)) \/ (\E t \in Threads : Find(t))

Spec == Init /\ [][Next]_<<list, answer>>
=============================================================================
