------------------------------ MODULE RelayPublish ------------------------------
(***************************************************************************)
(* Speaking on the relay (relay/service.py): posts to a stream that is     *)
(* created on demand, messages published through the outbox, and the       *)
(* declaration file every publish and subscribe makes sure of              *)
(* (relay/declarations.py), down to the temporary file its saves share.    *)
(*                                                                         *)
(* One session, one stream; Speakers are the threads that work for it:     *)
(* tool calls and the lease loop.                                          *)
(***************************************************************************)
EXTENDS Integers, FiniteSets

CONSTANTS Speakers, MaxCalls,   \* bound: calls of each caller
          Nodes                \* bound: files, under a name or only open, positive numbers

ASSUME PublishAssumption ==
    MaxCalls \in Nat /\ Nodes \subseteq Nat \ {0} /\ Cardinality(Nodes) >= Cardinality(Speakers) + 2

VARIABLES
    stream,   \* the stream at the relay: none, or the access of its creator
    content,  \* of each file: free, empty, whole or torn
    name,     \* the file under the declaration's name and under that of the temporary one
    doing,    \* the call of each caller
    calls,    \* calls made, how the last was answered and how often it was stored
    unlucky,  \* history: a request of a post failed, or a call was cut
    shared    \* history: two saves had the temporary file open at once

pubVars == <<stream, content, name, doing, calls, unlucky, shared>>

Nothing == 0
Silent == [pc |-> "none"]
Held(d, n) == \E c \in Speakers : d[c].pc \in {"fill", "replace"} /\ d[c].node = n
Readable == name.decl # Nothing /\ content[name.decl] = "whole"

PublishInit ==
    /\ stream = "none"
    /\ content = [n \in Nodes |-> "free"]
    /\ name = [decl |-> Nothing, tmp |-> Nothing]
    /\ doing = [c \in Speakers |-> Silent]
    /\ calls = [c \in Speakers |-> [made |-> 0, op |-> "none", answer |-> "none", stored |-> 0]]
    /\ unlucky = FALSE /\ shared = FALSE

Go(c, d) == doing' = [doing EXCEPT ![c] = d]
At(c, pc) == doing[c].pc = pc
Start(c, op) ==
    /\ doing[c] = Silent /\ calls[c].made < MaxCalls
    /\ calls' = [calls EXCEPT ![c] = [made |-> @.made + 1, op |-> op, answer |-> "none", stored |-> 0]]
Answer(c, a) == Go(c, Silent) /\ calls' = [calls EXCEPT ![c].answer = a]
Files == <<content, name, shared>>

--------------------------------------------------------------------------------
\* relay_post: the message goes to the stream; if there is none it is created,
\* its creator made a member that also reads, and the message sent once more.
Post(c) == Start(c, "post") /\ Go(c, [pc |-> "post", again |-> FALSE])
           /\ UNCHANGED <<stream, content, name, unlucky, shared>>

\* A request may fail before or after the relay has done what it asks.
Send_Retries(c) ==
    /\ At(c, "post")
    /\ \/ /\ stream = "none"
          /\ IF doing[c].again THEN Answer(c, "error") ELSE Go(c, [pc |-> "create"]) /\ UNCHANGED calls
          /\ UNCHANGED unlucky
       \/ /\ stream # "none"
          /\ Go(c, Silent) /\ calls' = [calls EXCEPT ![c].answer = "ok", ![c].stored = @ + 1]
          /\ UNCHANGED unlucky
       \/ /\ calls' = [calls EXCEPT ![c].stored = @ + IF stream # "none" THEN 1 ELSE 0]
          /\ calls[c].stored = 0 /\ unlucky' = TRUE /\ UNCHANGED doing
    /\ UNCHANGED <<stream, content, name, shared>>

Send(c) ==
    /\ At(c, "post")
    /\ \/ /\ stream = "none"
          /\ IF doing[c].again THEN Answer(c, "error") ELSE Go(c, [pc |-> "create"]) /\ UNCHANGED calls
          /\ UNCHANGED unlucky
       \/ /\ stream # "none"
          /\ Go(c, Silent) /\ calls' = [calls EXCEPT ![c].answer = "ok", ![c].stored = @ + 1]
          /\ UNCHANGED unlucky
       \/ \E n \in {0} \cup (IF stream = "none" THEN {} ELSE {1}) :
             /\ Go(c, Silent) /\ calls' = [calls EXCEPT ![c].answer = "error", ![c].stored = @ + n]
             /\ unlucky' = TRUE
    /\ UNCHANGED <<stream, content, name, shared>>

\* _ensure_stream: who finds the stream created meanwhile leaves it as it is.
Create_Only(c) ==
    /\ At(c, "create")
    /\ stream' = "write" /\ Go(c, [pc |-> "post", again |-> TRUE])
    /\ UNCHANGED <<calls, unlucky, content, name, shared>>

Create(c) ==
    /\ At(c, "create")
    /\ \/ /\ stream = "none" /\ stream' = "write" /\ Go(c, [pc |-> "join"]) /\ UNCHANGED <<calls, unlucky>>
       \/ /\ stream # "none" /\ Go(c, [pc |-> "post", again |-> TRUE]) /\ UNCHANGED <<stream, calls, unlucky>>
       \/ /\ Answer(c, "error") /\ unlucky' = TRUE
          /\ stream' \in {stream, IF stream = "none" THEN "write" ELSE stream}
    /\ UNCHANGED <<content, name, shared>>

Join(c) ==
    /\ At(c, "join")
    /\ \/ stream' = "read_write" /\ Go(c, [pc |-> "post", again |-> TRUE]) /\ UNCHANGED <<calls, unlucky>>
       \/ Answer(c, "error") /\ unlucky' = TRUE /\ stream' \in {stream, "read_write"}
    /\ UNCHANGED <<content, name, shared>>

--------------------------------------------------------------------------------
\* ensure: a declaration that can be read is kept, any other is written anew.
\* A publish then adds a message to the outbox, in one transaction; a subscribe
\* and a renewal save the declaration they have loaded.
Ensure(c) ==
    /\ \E op \in {"publish", "save"} :
          /\ Start(c, op)
          /\ Go(c, IF Readable /\ op = "publish" THEN [pc |-> "insert"]
                   ELSE [pc |-> "open", last |-> op = "save"])
    /\ UNCHANGED <<stream, content, name, unlucky, shared>>

Insert(c) ==
    /\ At(c, "insert")
    /\ \/ Go(c, Silent)
          /\ calls' = [calls EXCEPT ![c].answer = "ok", ![c].stored = 1]
       \/ Answer(c, "error")
    /\ UNCHANGED <<stream, content, name, unlucky, shared>>

\* save: the temporary file is opened and emptied, written, and renamed.
Open_InPlace(c) ==
    /\ At(c, "open")
    /\ \E n \in Nodes :
          /\ IF name.decl = Nothing THEN content[n] = "free" ELSE n = name.decl
          /\ content' = [content EXCEPT ![n] = "empty"]
          /\ name' = [decl |-> n, tmp |-> n]
          /\ shared' = (shared \/ Held(doing, n))
          /\ Go(c, [pc |-> "fill", last |-> doing[c].last, node |-> n])
    /\ UNCHANGED <<stream, calls, unlucky>>

Open(c) ==
    /\ At(c, "open")
    /\ \E n \in Nodes :
          /\ IF name.tmp = Nothing THEN content[n] = "free" ELSE n = name.tmp
          /\ content' = [content EXCEPT ![n] = "empty"]
          /\ name' = [name EXCEPT !.tmp = n]
          /\ shared' = (shared \/ Held(doing, n))
          /\ Go(c, [pc |-> "fill", last |-> doing[c].last, node |-> n])
    /\ UNCHANGED <<stream, calls, unlucky>>

\* What is written over a text that is already there may leave its end.
Fill(c) ==
    /\ At(c, "fill")
    /\ \E now \in IF content[doing[c].node] = "empty" THEN {"whole"} ELSE {"whole", "torn"} :
          content' = [content EXCEPT ![doing[c].node] = now]
    /\ Go(c, [doing[c] EXCEPT !.pc = "replace"])
    /\ UNCHANGED <<stream, name, calls, unlucky, shared>>

Freed(d, names, now) ==
    [n \in Nodes |-> IF n \in {names.decl, names.tmp} \/ Held(d, n) THEN now[n] ELSE "free"]

Rename(c) ==
    /\ At(c, "replace")
    /\ IF name.tmp = Nothing
       THEN Answer(c, "error") /\ UNCHANGED name
       ELSE /\ name' = [decl |-> name.tmp, tmp |-> Nothing]
            /\ IF doing[c].last THEN Answer(c, "ok")
               ELSE Go(c, [pc |-> "insert"]) /\ UNCHANGED calls
    /\ content' = Freed(doing', name', content)
    /\ UNCHANGED <<stream, unlucky, shared>>

\* The session has left: its declaration is deleted.
Delete ==
    /\ name.decl # Nothing
    /\ name' = [name EXCEPT !.decl = Nothing]
    /\ content' = Freed(doing, name', content)
    /\ UNCHANGED <<stream, doing, calls, unlucky, shared>>

\* The server dies; what was only open is gone, the temporary file stays.
Die ==
    /\ doing # [c \in Speakers |-> Silent]
    /\ doing' = [c \in Speakers |-> Silent]
    /\ unlucky' = TRUE
    /\ content' = Freed(doing', name, content)
    /\ UNCHANGED <<stream, name, calls, shared>>

PublishNext ==
    \/ \E c \in Speakers : \/ Post(c) \/ Send(c) \/ Create(c) \/ Join(c)
                          \/ Ensure(c) \/ Insert(c) \/ Open(c) \/ Fill(c) \/ Rename(c)
    \/ Delete \/ Die

PublishSpec == PublishInit /\ [][PublishNext]_pubVars

--------------------------------------------------------------------------------
\* A call between two of its steps.
Callings ==
    {Silent}
    \union [pc : {"post"}, again : BOOLEAN]
    \union [pc : {"create", "join", "insert"}]
    \union [pc : {"open"}, last : BOOLEAN]
    \union [pc : {"fill", "replace"}, last : BOOLEAN, node : Nodes]

PublishTypeOK ==
    /\ stream \in {"none", "write", "read_write"}
    /\ content \in [Nodes -> {"free", "empty", "whole", "torn"}]
    /\ name \in [decl : Nodes \union {Nothing}, tmp : Nodes \union {Nothing}]
    /\ doing \in [Speakers -> Callings]
    /\ calls \in [Speakers -> [made : Nat, op : {"none", "post", "publish", "save"},
                              answer : {"none", "ok", "error"}, stored : Nat]]
    /\ unlucky \in BOOLEAN /\ shared \in BOOLEAN

\* A post that is answered as sent is at the relay once, and no call leaves
\* more than one copy, whoever creates the stream at the same time and whatever
\* request fails (service.py:206-215).
OneCopyEach ==
    \A c \in Speakers :
       /\ calls[c].stored <= 1
       /\ calls[c].answer = "ok" /\ calls[c].op # "save" => calls[c].stored = 1

\* A stream that calls no longer work at is one its creator also reads, unless
\* a request failed or a call was cut (service.py:232-238).
JoinedUnlessUnlucky ==
    stream = "write" => unlucky \/ \E c \in Speakers : At(c, "join")

\* The declaration file can be read whenever it exists, unless two saves had
\* the temporary file open at once (declarations.py:133-140).
WholeUnlessShared ==
    name.decl # Nothing => content[name.decl] = "whole" \/ shared

PostsAreSound == OneCopyEach /\ JoinedUnlessUnlucky /\ WholeUnlessShared

\* The declaration file is written atomically (declarations.py:134).
SavesAreAtomic == name.decl # Nothing => content[name.decl] = "whole"
================================================================================
