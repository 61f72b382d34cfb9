----------------------------- MODULE WorkItems -----------------------------
(***************************************************************************)
(* Work items: one file, one mutex, no cache. A transaction reads the      *)
(* file, changes it and renames a new one into place; a failure on the way *)
(* leaves it unknown to the caller whether the change landed.              *)
(*                                                                         *)
(* Code: sigiledd/src/work_items.rs. Clients read an item, and edit what   *)
(* they read.                                                              *)
(***************************************************************************)
EXTENDS Naturals, Sequences, FiniteSets

CONSTANTS
  Clients,    \* browsers and drivers that edit
  Items,      \* identifiers a client may choose
  Projects,   \* projects items belong to
  Texts,      \* values of an item's fields, all of them valid
  MaxItems,   \* items of one project (10000 in the code)
  MaxAudit    \* edits of one item (1000 in the code)

ASSUME WorkItemsAssumption ==
  /\ Projects # {}
  /\ MaxItems \in Nat
  /\ MaxAudit \in Nat \ {0}

VARIABLES
  items,      \* the file: what the last rename put into place
  seen,       \* the revision a client last read of an item, 0 for none
  told        \* history: the edits clients were told of

workItemVars == <<items, seen, told>>

-----------------------------------------------------------------------------
\* Edit; "base" is history: the revision its author had read.
Edit == [actor: Clients, fields: Texts, base: Nat]

\* Item: the audit holds every revision, the last one is the item's fields.
Item == [project: Projects, audit: Seq(Edit)]

NoItem    == [project |-> CHOOSE p \in Projects : TRUE, audit |-> <<>>]
Exists(i) == items[i].audit # <<>>

Revision(i) == Len(items[i].audit)
Find(p, i)  == Exists(i) /\ items[i].project = p

\* transaction, with save: a failure before the rename, one after it, or success.
\* Only the caller of a successful save learns the revision.
Transaction(c, i, new) ==
  \/ /\ items' = [items EXCEPT ![i] = new]
     /\ seen' = [seen EXCEPT ![c][i] = Len(new.audit)]
     /\ told' = told \cup {[item |-> i, project |-> new.project, revision |-> Len(new.audit),
                            edit |-> new.audit[Len(new.audit)]]}
  \/ /\ items' = [items EXCEPT ![i] = new]
     /\ UNCHANGED <<seen, told>>

WorkItemsInit ==
  /\ items = [i \in Items |-> NoItem]
  /\ seen = [c \in Clients |-> [i \in Items |-> 0]]
  /\ told = {}

-----------------------------------------------------------------------------
\* get
GetItem(c, p, i) ==
  /\ Find(p, i)
  /\ seen' = [seen EXCEPT ![c][i] = Revision(i)]
  /\ UNCHANGED <<items, told>>

\* create of an identifier already there: the first creation of the same caller with
\* the same fields is returned as it now is, anything else is a conflict.
CreateAgain(c, p, i, f) ==
  /\ Exists(i)
  /\ items[i].project = p
  /\ items[i].audit[1].actor = c
  /\ items[i].audit[1].fields = f
  /\ seen' = [seen EXCEPT ![c][i] = Revision(i)]
  /\ UNCHANGED <<items, told>>

\* create
CreateItem(c, p, i, f) ==
  /\ ~Exists(i)
  /\ Cardinality({j \in Items : Find(p, j)}) < MaxItems
  /\ Transaction(c, i, [project |-> p,
                        audit |-> <<[actor |-> c, fields |-> f, base |-> 0]>>])

\* Mutant: the last writer wins.
UpdateItemBlindly(c, p, i, f) ==
  /\ seen[c][i] > 0
  /\ Find(p, i)
  /\ Revision(i) < MaxAudit
  /\ Transaction(c, i, [items[i] EXCEPT !.audit =
       Append(@, [actor |-> c, fields |-> f, base |-> seen[c][i]])])

\* update: a client names the revision it read.
UpdateItem(c, p, i, f) ==
  /\ seen[c][i] > 0
  /\ Find(p, i)
  /\ Revision(i) = seen[c][i]
  /\ Revision(i) < MaxAudit
  /\ Transaction(c, i, [items[i] EXCEPT !.audit =
       Append(@, [actor |-> c, fields |-> f, base |-> seen[c][i]])])

WorkItemsNext ==
  \E c \in Clients, p \in Projects, i \in Items :
    \/ GetItem(c, p, i)
    \/ \E f \in Texts : \/ CreateAgain(c, p, i, f)
                        \/ CreateItem(c, p, i, f)
                        \/ UpdateItem(c, p, i, f)

WorkItemsSpec == WorkItemsInit /\ [][WorkItemsNext]_workItemVars

-----------------------------------------------------------------------------
(* Properties *)

WorkItemsTypeOK ==
  /\ items \in [Items -> Item]
  /\ seen \in [Clients -> [Items -> Nat]]
  /\ told \subseteq [item: Items, project: Projects, revision: Nat \ {0}, edit: Edit]

\* An edit replaces the text its author had read, and no other: of two clients that
\* read one revision at most one edits it.
EditsBuildOnEachOther ==
  \A i \in Items : \A n \in 1..Revision(i) : items[i].audit[n].base = n - 1

\* What a client was told is in the file under the revision it was told, for good, and
\* in the project it was told, whatever later saves are uncertain and retried.
ToldIsKept ==
  \A t \in told : /\ items[t.item].project = t.project
                  /\ t.revision \in 1..Revision(t.item)
                  /\ items[t.item].audit[t.revision] = t.edit

\* No edit is lost: neither overwritten by one who had not read it, nor taken back.
NoLostUpdate == EditsBuildOnEachOther /\ ToldIsKept

=============================================================================
