----------------------------- MODULE FileStore ------------------------------
(***************************************************************************)
(* What the shell's file commands promise, without the file table: a map   *)
(* from names to texts with room for MAX_FILES names, and a session that   *)
(* decides who may remove a name.                                          *)
(***************************************************************************)
EXTENDS Integers, FiniteSets, Sequences

CONSTANTS ValidNames, InvalidNames, Texts, MAX_FILES, MAX_FILE_SIZE

VARIABLES
  store,  \* the texts, by name
  user,   \* "Enos" (root) or "Guest"
  reply   \* what the last command printed, as a tuple

vars == <<store, user, reply>>

Operands == ValidNames \cup InvalidNames

Init == store = [n \in {} |-> <<>>] /\ user = "Enos" /\ reply = <<"ready">>

\* The command failed, or only looked.
Answer(r) == reply' = r /\ UNCHANGED <<store, user>>

touch(n) ==
  \/ n \notin ValidNames /\ Answer(<<"invalid file name">>)
  \/ n \in ValidNames \cap DOMAIN store /\ Answer(<<"file already exists">>)
  \/ /\ n \in ValidNames \ DOMAIN store
     /\ Cardinality(DOMAIN store) >= MAX_FILES
     /\ Answer(<<"file table is full">>)
  \/ /\ n \in ValidNames \ DOMAIN store
     /\ Cardinality(DOMAIN store) < MAX_FILES
     /\ store' = [m \in DOMAIN store \cup {n} |-> IF m = n THEN <<>> ELSE store[m]]
     /\ reply' = <<"Created", n>>
     /\ UNCHANGED user

rm(n) ==
  \/ user # "Enos" /\ Answer(<<"Permission denied">>)
  \/ user = "Enos" /\ n \notin DOMAIN store /\ Answer(<<"file not found">>)
  \/ /\ user = "Enos" /\ n \in DOMAIN store
     /\ store' = [m \in DOMAIN store \ {n} |-> store[m]]
     /\ reply' = <<"Deleted", n>>
     /\ UNCHANGED user

write(n, t) ==
  \/ Len(t) > MAX_FILE_SIZE /\ Answer(<<"content too large">>)
  \/ Len(t) <= MAX_FILE_SIZE /\ n \notin DOMAIN store /\ Answer(<<"file not found">>)
  \/ /\ Len(t) <= MAX_FILE_SIZE /\ n \in DOMAIN store
     /\ store' = [store EXCEPT ![n] = t]
     /\ reply' = <<"Written", n>>
     /\ UNCHANGED user

cat(n) ==
  \/ n \notin DOMAIN store /\ Answer(<<"file not found">>)
  \/ n \in DOMAIN store /\ Answer(<<"text", store[n]>>)

ls == Answer(<<"files", {<<n, Len(store[n])>> : n \in DOMAIN store}>>)

fsinfo == Answer(<<"count", Cardinality(DOMAIN store)>>)

login == /\ user' \in {"Enos", "Guest"}
         /\ reply' = <<"Switched">>
         /\ UNCHANGED store

logout == user' = "Guest" /\ reply' = <<"Logged out">> /\ UNCHANGED store

Next ==
  \/ \E n \in Operands : touch(n) \/ rm(n) \/ cat(n) \/ \E t \in Texts : write(n, t)
  \/ ls \/ fsinfo \/ login \/ logout
  \/ Answer(<<"Usage">>) \/ Answer(<<"Permission denied">>) \/ Answer(<<"unknown user">>)

Spec == Init /\ [][Next]_vars
=============================================================================
