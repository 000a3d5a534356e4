----------------------------- MODULE FileSystem -----------------------------
(***************************************************************************)
(* The RAM file system (fs.rs), a vector of named texts, and the shell     *)
(* commands over it (shell.rs), with the session that require_root asks.   *)
(* Only background_thread runs commands, so a command is one step.         *)
(***************************************************************************)
EXTENDS Integers, FiniteSets, SequencesExt

CONSTANTS
  ValidNames, InvalidNames, \* operands is_valid_name accepts and refuses
  Chars, MaxText,           \* characters and length of the texts typed
  MAX_FILES, MAX_FILE_SIZE

ASSUME FileAssumption ==
  /\ ValidNames \cap InvalidNames = {}
  /\ MaxText \in Nat
  /\ MAX_FILES \in Nat /\ MAX_FILE_SIZE \in Nat

VARIABLES
  FILES,  \* the file table
  user,   \* SESSION.user
  reply   \* what the last command printed

vars == <<FILES, user, reply>>

Operands == ValidNames \cup InvalidNames

\* What write can be given: the line is trimmed, so a text is never empty.
Texts == BoundedSeq(Chars, MaxText) \ {<<>>}

Init == FILES = <<>> /\ user = "Enos" /\ reply = <<"ready">>

-----------------------------------------------------------------------------
(* fs.rs *)

Names(files) == {files[i].name : i \in DOMAIN files}

\* files.iter().position(|f| f.name == name), for a name that is there.
Position(name) ==
  CHOOSE i \in DOMAIN FILES :
    /\ FILES[i].name = name
    /\ \A j \in DOMAIN FILES : FILES[j].name = name => i <= j

is_valid_name(name) == name \in ValidNames

\* Slip: one entry too many.
create_file_Overfull(name) ==
  IF ~is_valid_name(name) THEN "invalid file name"
  ELSE IF name \in Names(FILES) THEN "file already exists"
  ELSE IF Len(FILES) > MAX_FILES THEN "file table is full"
  ELSE "Ok"

create_file(name) ==
  IF ~is_valid_name(name) THEN "invalid file name"
  ELSE IF name \in Names(FILES) THEN "file already exists"
  ELSE IF Len(FILES) >= MAX_FILES THEN "file table is full"
  ELSE "Ok"

write_file(name, text) ==
  IF Len(text) > MAX_FILE_SIZE THEN "content too large"
  ELSE IF name \notin Names(FILES) THEN "file not found"
  ELSE "Ok"

list_files == {<<FILES[i].name, Len(FILES[i].contents)>> : i \in DOMAIN FILES}

\* Slip: the loop stops one entry short.
total_bytes_Short ==
  FoldLeft(LAMBDA sum, f : sum + Len(f.contents), 0, SubSeq(FILES, 1, Len(FILES) - 1))

\* stats().total_bytes
total_bytes == FoldLeft(LAMBDA sum, f : sum + Len(f.contents), 0, FILES)

-----------------------------------------------------------------------------
(* shell.rs *)

\* Slip: everybody is root.
is_root_Anyone == TRUE

is_root == user = "Enos"

Say(r) == reply' = r /\ UNCHANGED <<FILES, user>>

\* A command line without its operand.
Usage == Say(<<"Usage">>)

command_touch(name) ==
  \/ create_file(name) # "Ok" /\ Say(<<create_file(name)>>)
  \/ /\ create_file(name) = "Ok"
     /\ FILES' = Append(FILES, [name |-> name, contents |-> <<>>])
     /\ reply' = <<"Created", name>>
     /\ UNCHANGED user

\* require_root comes first, before the operand is looked at; delete_file.
command_rm(name) ==
  \/ ~is_root /\ Say(<<"Permission denied">>)
  \/ is_root /\ name \notin Names(FILES) /\ Say(<<"file not found">>)
  \/ /\ is_root /\ name \in Names(FILES)
     /\ FILES' = RemoveAt(FILES, Position(name))
     /\ reply' = <<"Deleted", name>>
     /\ UNCHANGED user

command_write(name, text) ==
  \/ write_file(name, text) # "Ok" /\ Say(<<write_file(name, text)>>)
  \/ /\ write_file(name, text) = "Ok"
     /\ FILES' = [FILES EXCEPT ![Position(name)].contents = text]
     /\ reply' = <<"Written", name>>
     /\ UNCHANGED user

command_cat(name) ==
  \/ name \notin Names(FILES) /\ Say(<<"file not found">>)
  \/ name \in Names(FILES) /\ Say(<<"text", FILES[Position(name)].contents>>)

command_ls == Say(<<"files", list_files>>)

command_fsinfo == Say(<<"count", Len(FILES)>>)

command_login ==
  \/ \E target \in {"Enos", "Guest"} :
       user' = target /\ reply' = <<"Switched">> /\ UNCHANGED FILES
  \/ Say(<<"unknown user">>)

command_logout == user' = "Guest" /\ reply' = <<"Logged out">> /\ UNCHANGED FILES

Next ==
  \/ \E name \in Operands :
       \/ command_touch(name) \/ command_rm(name) \/ command_cat(name)
       \/ \E text \in Texts : command_write(name, text)
  \/ Usage
  \/ command_ls \/ command_fsinfo
  \/ command_login \/ command_logout

Spec == Init /\ [][Next]_vars

-----------------------------------------------------------------------------
(* Properties *)

\* The map the vector stands for.
Contents(files) ==
  [n \in Names(files) |-> files[CHOOSE i \in DOMAIN files : files[i].name = n].contents]

\* Every entry has a valid name and a text within the limit.
TypeOK ==
  /\ FILES \in Seq([name : ValidNames, contents : Seq(Chars)])
  /\ user \in {"Enos", "Guest"}

\* create_file never lets two entries share a name, and no sequence of commands
\* overfills the table or a file.
TableInvariant ==
  /\ \A i, j \in DOMAIN FILES : FILES[i].name = FILES[j].name => i = j
  /\ Len(FILES) <= MAX_FILES
  /\ \A i \in DOMAIN FILES : Len(FILES[i].contents) <= MAX_FILE_SIZE

\* The total fsinfo prints is the sum over the files by name: no text is
\* counted twice or missed, whatever order files were removed in.
TotalIsSum ==
  total_bytes = MapThenSumSet(LAMBDA n : Len(Contents(FILES)[n]), Names(FILES))

\* A file keeps its text through every command until "Written" is reported for
\* it, and stays until a root session is told "Deleted".
FilesPersist ==
  [][\A n \in Names(FILES) :
       \/ n \in Names(FILES') /\ Contents(FILES')[n] = Contents(FILES)[n]
       \/ n \in Names(FILES') /\ reply' = <<"Written", n>>
       \/ user = "Enos" /\ reply' = <<"Deleted", n>>]_vars

Store == INSTANCE FileStore WITH store <- Contents(FILES)

\* The file table and the commands implement the map, answers included.
ImplementsStore == Store!Spec
=============================================================================
