----------------------------- MODULE PhoneList -----------------------------
(***************************************************************************)
(* The phone book of 3.3: a doubly linked list kept in the order of the    *)
(* last names, a menu of operations on it (main.c), and the file           *)
(* database.txt that is read on request and written at the exit.           *)
(***************************************************************************)
EXTENDS Integers, Sequences, FiniteSets

CONSTANTS
  Cells,      \* the heap's places for list nodes
  NULL,
  LastNames,  \* names as <<length, rank among the names of that length>>
  Rests,      \* first name and patronymic
  JunkName,   \* the last name left in a freed cell, or never read from a file
  MaxFile,    \* bound: records of the file
  MaxRuns     \* bound: runs of the program

ASSUME PhoneAssumption ==
  /\ IsFiniteSet(Cells) /\ NULL \notin Cells
  /\ Rests # {}
  /\ MaxFile \in Nat \ {0} /\ MaxRuns \in Nat \ {0}

VARIABLES
  pc,         \* "menu", "reading", "hung" in an endless loop, or "exited"
  heap,       \* the nodes, whether allocated or not
  allocated,  \* the cells malloc returned and free did not take back
  head,       \* Interface's head
  said,       \* the last message, and what it is about
  file,       \* the records of database.txt
  access,     \* whether database.txt can be opened
  offset,     \* records ReadFromFile has read
  runs,       \* runs begun
  misled      \* Interface kept a head that was freed

vars == <<pc, heap, allocated, head, said, file, access, offset, runs, misled>>
listVars == <<heap, allocated, head>>
fileVars == <<file, access>>

Typed   == [last : LastNames, rest : Rests]
Person  == [last : LastNames \cup {JunkName}, rest : Rests]
Pointer == Cells \cup {NULL}
Node    == [person : Person, prev : Pointer, next : Pointer]

TypeOK ==
  /\ pc        \in {"menu", "reading", "hung", "exited"}
  /\ heap      \in [Cells -> Node]
  /\ allocated \subseteq Cells
  /\ head      \in Pointer
  /\ said      \in [text : {"none", "added", "redacted", "deleted", "not found"},
                    there : BOOLEAN]
  /\ file      \in Seq(Person) /\ Len(file) <= MaxFile
  /\ access    \in {"absent", "granted", "denied"}
  /\ offset    \in 0 .. Len(file)
  /\ runs      \in 1 .. MaxRuns
  /\ misled    \in BOOLEAN

Blank == [person |-> [last |-> JunkName, rest |-> CHOOSE r \in Rests : TRUE],
          prev |-> NULL, next |-> NULL]
Silent == [text |-> "none", there |-> FALSE]

\* The program starts with an empty list, whatever the file holds.
Init ==
  /\ pc = "menu"
  /\ heap = [c \in Cells |-> Blank]
  /\ allocated = {} /\ head = NULL
  /\ said = Silent
  /\ \/ access = "granted" /\ file \in {<<>>} \cup {<<p>> : p \in Typed}
     \/ access = "absent" /\ file = <<>>
  /\ offset = 0 /\ runs = 1 /\ misled = FALSE

-----------------------------------------------------------------------------
(* list.c *)

\* LastnameComparer: the shorter name comes first.
LastnameComparer(a, b) == a[1] < b[1] \/ (a[1] = b[1] /\ a[2] < b[2])

\* Where the loop "current = current->next" is after each number of steps from
\* c; a walk of as many steps as there are cells shows whether it ends.
Current(h, c) ==
  LET at[n \in 0 .. Cardinality(Cells)] ==
        IF n = 0 THEN c
        ELSE IF at[n - 1] = NULL THEN NULL ELSE h[at[n - 1]].next
  IN  at

\* The cells such a loop visits from c, and whether it never ends.
Walk(h, c) ==
  LET at == Current(h, c) IN
  [k \in 1 .. Cardinality({n \in DOMAIN at : at[n] # NULL}) |-> at[k - 1]]

Endless(h, c) == Len(Walk(h, c)) > Cardinality(Cells)

\* Where the loop stops when it stops at the places in hits, or 0.
First(hits) == IF hits = {} THEN 0 ELSE CHOOSE k \in hits : \A j \in hits : k <= j

Joined(h, hd, hangs) == [heap |-> h, head |-> hd, hangs |-> hangs]

\* Mutant: the node behind the new one keeps its old predecessor.
LinkOneWay(h, c) ==
  LET walk == Walk(h, head)
      k == First({j \in DOMAIN walk :
                    LastnameComparer(h[c].person.last, h[walk[j]].person.last)})
      last == walk[Len(walk)]
  IN  CASE head = NULL -> Joined(h, c, FALSE)
        [] head # NULL /\ k = 1 ->
             Joined([h EXCEPT ![c].next = head, ![head].prev = c], c, FALSE)
        [] head # NULL /\ k > 1 ->
             Joined([h EXCEPT ![c].next = walk[k], ![c].prev = walk[k - 1],
                              ![walk[k - 1]].next = c], head, FALSE)
        [] head # NULL /\ k = 0 ->
             Joined([h EXCEPT ![last].next = c, ![c].prev = last],
                    head, Endless(h, head))

\* Mutant: the new node goes before the nodes of its own name.
LinkBeforeEqual(h, c) ==
  LET walk == Walk(h, head)
      k == First({j \in DOMAIN walk :
                    ~LastnameComparer(h[walk[j]].person.last, h[c].person.last)})
      last == walk[Len(walk)]
  IN  CASE head = NULL -> Joined(h, c, FALSE)
        [] head # NULL /\ k = 1 ->
             Joined([h EXCEPT ![c].next = head, ![head].prev = c], c, FALSE)
        [] head # NULL /\ k > 1 ->
             Joined([h EXCEPT ![c].next = walk[k], ![c].prev = walk[k - 1],
                              ![walk[k]].prev = c, ![walk[k - 1]].next = c], head, FALSE)
        [] head # NULL /\ k = 0 ->
             Joined([h EXCEPT ![last].next = c, ![c].prev = last],
                    head, Endless(h, head))

\* InsertIntoList: the node c, already filled in, goes before the first node
\* whose name comes later, or to the end.
Link(h, c) ==
  LET walk == Walk(h, head)
      k == First({j \in DOMAIN walk :
                    LastnameComparer(h[c].person.last, h[walk[j]].person.last)})
      last == walk[Len(walk)]
  IN  CASE head = NULL -> Joined(h, c, FALSE)
        [] head # NULL /\ k = 1 ->
             Joined([h EXCEPT ![c].next = head, ![head].prev = c], c, FALSE)
        [] head # NULL /\ k > 1 ->
             Joined([h EXCEPT ![c].next = walk[k], ![c].prev = walk[k - 1],
                              ![walk[k]].prev = c, ![walk[k - 1]].next = c], head, FALSE)
        [] head # NULL /\ k = 0 ->
             Joined([h EXCEPT ![last].next = c, ![c].prev = last],
                    head, Endless(h, head))

\* malloc may hand out any cell that is free; without one nothing is done.
InsertIntoList(person) ==
  \/ /\ allocated = Cells
     /\ UNCHANGED <<pc, listVars>>
  \/ \E c \in Cells \ allocated :
       LET r == Link([heap EXCEPT ![c] = [person |-> person, prev |-> NULL,
                                          next |-> NULL]], c)
       IN  /\ allocated' = allocated \cup {c}
           /\ IF r.hangs THEN pc' = "hung" /\ UNCHANGED <<heap, head>>
                         ELSE heap' = r.heap /\ head' = r.head /\ UNCHANGED pc

\* SearchInList: the position of the first node of that name in the walk.
SearchInList(target) ==
  LET walk == Walk(heap, head) IN
  First({j \in DOMAIN walk : heap[walk[j]].person = target})

Found(target) == SearchInList(target) > 0
\* A search for a name that is not there never ends in an endless list.
SearchHangs(target) == ~Found(target) /\ Endless(heap, head)

\* free leaves its bookkeeping in the beginning of the cell, the last name.
Free(h, c) ==
  /\ heap' = [h EXCEPT ![c].person.last = JunkName]
  /\ allocated' = allocated \ {c}

\* RemoveFromList: the list around the removed node c.
Unlink(c) ==
  LET prev == heap[c].prev  next == heap[c].next IN
  IF c = head
  THEN IF next = NULL THEN heap ELSE [heap EXCEPT ![next].prev = NULL]
  ELSE IF next = NULL
       THEN [heap EXCEPT ![prev].next = NULL]
       ELSE [heap EXCEPT ![prev].next = next, ![next].prev = prev]

-----------------------------------------------------------------------------
(* main.c: the menu. *)

Say(text, target) == said' = [text |-> text, there |-> Found(target)]

\* "Contact added!" is said in any case.
Add(person) ==
  /\ pc = "menu"
  /\ InsertIntoList(person)
  /\ said' = [text |-> "added", there |-> FALSE]
  /\ UNCHANGED <<fileVars, offset, runs, misled>>

Read ==
  /\ pc = "menu"
  /\ pc' = "reading" /\ offset' = 0
  /\ UNCHANGED <<listVars, said, fileVars, runs, misled>>

\* Mutant: the loop tests for the end of the file one record too late.
ReadRecordTooFar ==
  /\ pc = "reading"
  /\ access = "granted" /\ offset <= Len(file)
  /\ InsertIntoList(IF offset < Len(file) THEN file[offset + 1] ELSE Blank.person)
  /\ offset' = offset + 1
  /\ UNCHANGED <<said, fileVars, runs, misled>>

\* Each record is inserted.  The loop ends when read returns 0; of a file
\* that could not be opened it returns -1 and leaves the record unset.
ReadRecord ==
  /\ pc = "reading"
  /\ \/ /\ access = "granted" /\ offset < Len(file)
        /\ InsertIntoList(file[offset + 1])
        /\ offset' = offset + 1
     \/ /\ access # "granted"
        /\ InsertIntoList(Blank.person)
        /\ UNCHANGED offset
  /\ UNCHANGED <<said, fileVars, runs, misled>>

ReadDone ==
  /\ pc = "reading"
  /\ access = "granted" /\ offset = Len(file)
  /\ pc' = "menu"
  /\ UNCHANGED <<listVars, said, fileVars, offset, runs, misled>>

\* UpdateInList returns head, found or not.
Redact(target, person) ==
  /\ pc = "menu"
  /\ IF SearchHangs(target) THEN pc' = "hung" /\ UNCHANGED <<said, heap>>
     ELSE /\ UNCHANGED pc
          /\ heap' = IF Found(target)
                     THEN [heap EXCEPT ![Walk(heap, head)[SearchInList(target)]].person = person]
                     ELSE heap
          /\ Say(IF head # NULL THEN "redacted" ELSE "not found", target)
  /\ UNCHANGED <<allocated, head, fileVars, offset, runs, misled>>

\* RemoveFromList returns the new head; Interface takes it unless it is NULL.
Delete(target) ==
  /\ pc = "menu"
  /\ IF SearchHangs(target)
     THEN pc' = "hung" /\ UNCHANGED <<listVars, said, misled>>
     ELSE LET c == IF Found(target) THEN Walk(heap, head)[SearchInList(target)]
                                    ELSE NULL
              newHead == IF head # NULL /\ c = head THEN heap[c].next ELSE head
          IN  /\ UNCHANGED pc
              /\ IF c = NULL THEN UNCHANGED <<heap, allocated>>
                             ELSE Free(Unlink(c), c)
              /\ head' = IF newHead # NULL THEN newHead ELSE head
              /\ Say(IF newHead # NULL THEN "deleted" ELSE "not found", target)
              /\ misled' = (misled \/ (c # NULL /\ newHead = NULL))
  /\ UNCHANGED <<fileVars, offset, runs>>

\* DisplayList changes nothing, but may never come back.
Display ==
  /\ pc = "menu"
  /\ Endless(heap, head)
  /\ pc' = "hung"
  /\ UNCHANGED <<listVars, said, fileVars, offset, runs, misled>>

Contents == [k \in DOMAIN Walk(heap, head) |-> heap[Walk(heap, head)[k]].person]

\* WriteInFile writes the list over the beginning of the file.  Nothing is
\* written of an empty list, but the file is created; it is created without
\* a mode, so a later run may or may not be allowed to open it.
Exit ==
  /\ pc = "menu"
  /\ IF head # NULL /\ Endless(heap, head)
     THEN pc' = "hung" /\ UNCHANGED fileVars
     ELSE /\ pc' = "exited"
          /\ access' \in IF access = "absent" THEN {"granted", "denied"} ELSE {access}
          /\ Len(Contents) <= MaxFile
          /\ file' = IF access = "denied" THEN file
                     ELSE Contents \o SubSeq(file, Len(Contents) + 1, Len(file))
  /\ UNCHANGED <<listVars, said, offset, runs, misled>>

Run ==
  /\ pc = "exited"
  /\ runs < MaxRuns
  /\ runs' = runs + 1
  /\ pc' = "menu"
  /\ heap' = [c \in Cells |-> Blank] /\ allocated' = {} /\ head' = NULL
  /\ said' = Silent /\ offset' = 0 /\ misled' = FALSE
  /\ UNCHANGED fileVars

Next ==
  \/ \E p \in Typed : Add(p) \/ Delete(p) \/ \E q \in Typed : Redact(p, q)
  \/ Read \/ ReadRecord \/ ReadDone \/ Display \/ Exit \/ Run

Spec == Init /\ [][Next]_vars

-----------------------------------------------------------------------------
(* Properties. *)

\* As long as Interface has not kept a freed head, next and prev describe the
\* same sequence, which ends, and its nodes are the allocated ones: no
\* sequence of insertions and removals leaks, frees or loses a node.
LinkedBothWays ==
  ~misled =>
    LET walk == Walk(heap, head) IN
    /\ ~Endless(heap, head)
    /\ {walk[k] : k \in DOMAIN walk} = allocated
    /\ \A k \in DOMAIN walk :
         heap[walk[k]].prev = IF k = 1 THEN NULL ELSE walk[k - 1]

\* The pointers implement a sequence: an insertion, from the menu or from the
\* file, keeps the order and puts a contact behind those of its own last name;
\* a removal takes out the first contact of the name and keeps the others.
Before(s, k) == SubSeq(s, 1, k - 1)
From(s, k)   == SubSeq(s, k, Len(s))

Inserts(p) == \/ Add(p)
              \/ /\ ReadRecord
                 /\ access = "granted" /\ file[offset + 1] = p

ActsOnSequence ==
  [][\A p \in Typed :
       /\ Inserts(p) /\ ~misled /\ allocated # Cells =>
            \E k \in 1 .. Len(Contents) + 1 :
              /\ Contents' = Before(Contents, k) \o <<p>> \o From(Contents, k)
              /\ \A j \in 1 .. k - 1 : ~LastnameComparer(p.last, Contents[j].last)
              /\ k <= Len(Contents) => LastnameComparer(p.last, Contents[k].last)
       /\ Delete(p) /\ ~misled /\ Len(Contents) > 1 =>
            LET k == SearchInList(p) IN
            Contents' = IF k = 0 THEN Contents
                        ELSE Before(Contents, k) \o From(Contents, k + 1)]_vars

\* Item 4 of the menu deletes a contact from the database (main.c, line 63):
\* when the file was read, a contact deleted and the program left, the file
\* holds no more than the list does.
DeletedIsGone ==
  pc = "exited" /\ said = [text |-> "deleted", there |-> TRUE]
    /\ access = "granted" /\ offset > 0
      => Len(file) <= Len(Contents)
=============================================================================
