---------------------------- MODULE HubContract ----------------------------
(***************************************************************************)
(* What the hub promises of its persisted history, without its locks,      *)
(* goroutines and memory: a numbered log.  Numbers are handed out one by   *)
(* one; each is published once, in its turn, and a published clip is       *)
(* appended to the log under its number or, when the save fails, never;    *)
(* the log otherwise only shrinks; a new process resumes after the last    *)
(* number that was ever in the log.                                        *)
(***************************************************************************)
EXTENDS Naturals

VARIABLES
    up,              \* is a process running?
    committed,       \* the last number handed out by it
    published,       \* the last number published by it
    log,             \* the persisted clips
    last             \* the largest number that was ever in the log

vars == <<up, committed, published, log, last>>

Init ==
    /\ up = FALSE
    /\ committed = 0 /\ published = 0
    /\ log = {} /\ last = 0

Commit ==
    /\ up
    /\ committed' = committed + 1
    /\ UNCHANGED <<up, published, log, last>>

\* Either of the last two conjuncts: the clip is in the log, or it never will be.
Publish ==
    /\ up
    /\ published < committed
    /\ published' = published + 1
    /\ \/ /\ \E item \in log' : item.seq = published' /\ log' = log \cup {item}
          /\ \A item \in log : item.seq < published'
          /\ last' = published'
       \/ UNCHANGED <<log, last>>
    /\ UNCHANGED <<up, committed>>

\* Clear, and the expiry of clips.
Remove ==
    /\ up
    /\ log' \subseteq log
    /\ UNCHANGED <<up, committed, published, last>>

Stop ==
    /\ up
    /\ up' = FALSE
    /\ committed' = 0 /\ published' = 0
    /\ UNCHANGED <<log, last>>

Resume ==
    /\ ~ up
    /\ up' = TRUE
    /\ committed' = last /\ published' = last
    /\ UNCHANGED <<log, last>>

Next == Commit \/ Publish \/ Remove \/ Stop \/ Resume

Spec == Init /\ [][Next]_vars

=============================================================================
