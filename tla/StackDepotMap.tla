---------------------------- MODULE StackDepotMap ----------------------------
(***************************************************************************)
(* What the stack depot promises (sanitizer_stackdepotbase.h: "Maps stack  *)
(* trace to an unique id"): Put returns the id already given to equal      *)
(* args, or a fresh id; Get returns the args an id was given to; Free      *)
(* forgets everything.  Invalid args get the null handle 0.                *)
(***************************************************************************)
EXTENDS Integers

CONSTANTS Threads, Args, ValidArgs, Ids, NoArgs

VARIABLES ids,  \* the id each args has, 0 if none
          ret   \* what each thread's last call returned

vars == <<ids, ret>>

Given == {ids[a] : a \in Args} \ {0}

Init == ids = [a \in Args |-> 0] /\ ret = [t \in Threads |-> 0]

Put(t, a) ==
  \/ /\ a \notin ValidArgs
     /\ ret' = [ret EXCEPT ![t] = 0] /\ UNCHANGED ids
  \/ /\ a \in ValidArgs /\ ids[a] # 0
     /\ ret' = [ret EXCEPT ![t] = ids[a]] /\ UNCHANGED ids
  \/ /\ a \in ValidArgs /\ ids[a] = 0
     /\ \E i \in Ids \ Given :
          /\ ids' = [ids EXCEPT ![a] = i]
          /\ ret' = [ret EXCEPT ![t] = i]

Get(t, i) ==
  /\ ret' = [ret EXCEPT ![t] = IF \E a \in Args : ids[a] = i /\ i # 0
                                 THEN CHOOSE a \in Args : ids[a] = i
                                 ELSE NoArgs]
  /\ UNCHANGED ids

Free == ids' = [a \in Args |-> 0] /\ UNCHANGED ret

Next == \E t \in Threads : (\E a \in Args : Put(t, a)) \/ (\E i \in Ids \cup {0} : Get(t, i))
        \/ Free

Spec == Init /\ [][Next]_vars

=============================================================================
