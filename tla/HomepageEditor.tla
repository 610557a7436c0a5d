--------------------------- MODULE HomepageEditor ---------------------------
(***************************************************************************)
(* The homepage editor of the admin panel and the row it edits             *)
(* (admin/homepage/page.tsx, siteConfigApi.ts, siteConfig.service.ts,      *)
(* adminSiteConfig.routes.ts).  A page keeps a draft and the baseline it   *)
(* started from.  A card of the site's own columns sends the fields that   *)
(* differ; a card of the JSON column homepageContent sends its section     *)
(* whole, and the server puts it into the stored document under the lock   *)
(* of the row.  The answers are also kept in the browser's store, which    *)
(* the page reads when it is opened again.                                 *)
(*                                                                         *)
(* Left out: what the fields say, the limits of their lengths, the public  *)
(* reader and its cache (TaggedCache), and the row's first creation.       *)
(***************************************************************************)
EXTENDS Naturals, Sequences, FiniteSets, SequencesExt

CONSTANTS
  Admins,
  Cards,         \* the cards of the page
  Sections,      \* the cards that are one section of homepageContent
  CardFields,    \* the fields of each card
  Lists,         \* the fields that hold a list of items
  Texts,         \* what a text or an item may say
  Trim,          \* a text without the spaces around it
  MaxItems,      \* the longest list the page and the server accept
  Default,       \* what a field says before anybody edited it
  Absent,        \* what a document without the section holds for its fields
  None,
  MaxRequests,   \* bounds the saves of a run
  MaxEdits,      \* bounds the edits of a run
  MaxFaults,     \* bounds the requests that fail
  Overlapping,   \* a card may be saved again while its save is on its way
  Leaving        \* admins leave the page and open it again

Fields == UNION {CardFields[c] : c \in Cards}
Document == UNION {CardFields[c] : c \in Sections}
Requests == 1..MaxRequests

ConstantsAssumption ==
  /\ Sections \subseteq Cards /\ Lists \subseteq Fields
  /\ \A c, d \in Cards : c # d => CardFields[c] \cap CardFields[d] = {}
  /\ Trim \in [Texts -> Texts] /\ \A t \in Texts : Trim[Trim[t]] = Trim[t]
  /\ {MaxItems, MaxRequests, MaxEdits, MaxFaults} \subseteq Nat

VARIABLES
  row,       \* SiteConfig: its columns and the sections of homepageContent
  lock,      \* the request that holds the row's lock, or 0
  store,     \* each browser's copy of the row, or None
  page,      \* each admin's page
  request,   \* the saves, by the order they were sent in
  edits, faults

vars == <<row, lock, store, page, request, edits, faults>>

Items == UNION {[1..n -> Texts] : n \in 0..MaxItems}
Blank == [open |-> FALSE, draft |-> None, baseline |-> None, saving |-> None,
          shown |-> [c \in Cards |-> "NONE"]]
Unsent == [at |-> "NONE", admin |-> None, card |-> None, patch |-> None,
           changed |-> {}, read |-> None, answer |-> None, here |-> FALSE]

Init ==
  /\ row = [f \in Fields |-> IF f \in Document THEN Absent ELSE Default[f]]
  /\ lock = 0
  /\ store = [a \in Admins |-> None]
  /\ page = [a \in Admins |-> Blank]
  /\ request = [r \in Requests |-> Unsent]
  /\ edits = 0 /\ faults = 0

-----------------------------------------------------------------------------
(* The service. *)

\* normalizeHomepageContent: sections the document does not hold yet.
Normalized(r) == [f \in Fields |-> IF r[f] = Absent THEN Default[f] ELSE r[f]]

Trimmed(v, f) == IF f \in Lists THEN [i \in DOMAIN v |-> Trim[v[i]]] ELSE Trim[v]

Sent(r) == request[r].at = "SENT"
IsSection(r) == request[r].card \in Sections
Answer(r, copy) == request' = [request EXCEPT ![r].at = "DONE", ![r].answer = copy]

\* PATCH /site-config: one upsert; the answer is the row as it is stored.
WriteSite(r) ==
  /\ Sent(r) /\ ~IsSection(r) /\ lock = 0
  /\ row' = [f \in Fields |-> IF f \in DOMAIN request[r].patch
                              THEN request[r].patch[f] ELSE row[f]]
  /\ Answer(r, row')
  /\ UNCHANGED <<lock, store, page, edits, faults>>

\* PATCH /site-config/homepage/:section: lock, read, write, in one transaction.
ReadUnlocked(r) ==
  /\ Sent(r) /\ IsSection(r)
  /\ UNCHANGED lock
  /\ request' = [request EXCEPT ![r].at = "READ", ![r].read = Normalized(row)]
  /\ UNCHANGED <<row, store, page, edits, faults>>

ReadSection(r) ==
  /\ Sent(r) /\ IsSection(r) /\ lock = 0
  /\ lock' = r
  /\ request' = [request EXCEPT ![r].at = "READ", ![r].read = Normalized(row)]
  /\ UNCHANGED <<row, store, page, edits, faults>>

WriteSection(r) ==
  /\ request[r].at = "READ"
  /\ row' = [f \in Fields |->
               IF f \in DOMAIN request[r].patch THEN Trimmed(request[r].patch[f], f)
               ELSE IF f \in Document THEN request[r].read[f] ELSE row[f]]
  /\ lock' = 0
  /\ Answer(r, Normalized(row'))
  /\ UNCHANGED <<store, page, edits, faults>>

\* Refused, timed out or lost before it reached the row.
Refuse(r) ==
  /\ Sent(r) /\ faults < MaxFaults
  /\ request' = [request EXCEPT ![r].at = "FAILED"]
  /\ faults' = faults + 1
  /\ UNCHANGED <<row, lock, store, page, edits>>

-----------------------------------------------------------------------------
(* The page. *)

\* The first data the query hands the page becomes its draft and baseline.
Open(a) ==
  LET copy == IF store[a] = None THEN Normalized(row) ELSE store[a] IN
  /\ ~page[a].open
  /\ store' = [store EXCEPT ![a] = copy]
  /\ page' = [page EXCEPT ![a] = [Blank EXCEPT !.open = TRUE, !.draft = copy,
                                               !.baseline = copy]]
  /\ UNCHANGED <<row, lock, request, edits, faults>>

Leave(a) ==
  /\ Leaving /\ page[a].open
  /\ page' = [page EXCEPT ![a] = Blank]
  /\ request' = [r \in Requests |-> IF request[r].admin = a
                                    THEN [request[r] EXCEPT !.here = FALSE] ELSE request[r]]
  /\ UNCHANGED <<row, lock, store, edits, faults>>

\* The store drops a copy no page has used for a while.
Evict(a) ==
  /\ ~page[a].open /\ store[a] # None
  /\ store' = [store EXCEPT ![a] = None]
  /\ UNCHANGED <<row, lock, page, request, edits, faults>>

\* A page that reads a section its copy does not hold ends in an error.
Works(a) == page[a].open /\ \A f \in Fields : page[a].draft[f] # Absent

Edit(a, f, v) ==
  /\ Works(a) /\ edits < MaxEdits /\ v # page[a].draft[f]
  /\ page' = [page EXCEPT ![a].draft[f] = v]
  /\ edits' = edits + 1
  /\ UNCHANGED <<row, lock, store, request, faults>>

EditText(a) ==
  \E f \in Fields \ Lists, t \in Texts : Edit(a, f, t)

EditItem(a) ==
  /\ Works(a)
  /\ \E f \in Lists, t \in Texts : \E i \in DOMAIN page[a].draft[f] :
       Edit(a, f, [page[a].draft[f] EXCEPT ![i] = t])

AddItem(a) ==
  \E f \in Lists, t \in Texts :
    /\ Works(a) /\ Len(page[a].draft[f]) < MaxItems
    /\ Edit(a, f, Append(page[a].draft[f], t))

RemoveItem(a) ==
  /\ Works(a)
  /\ \E f \in Lists : \E i \in DOMAIN page[a].draft[f] :
       Edit(a, f, RemoveAt(page[a].draft[f], i))

Moved(items, i, j) == [items EXCEPT ![i] = items[j], ![j] = items[i]]

MoveItem(a) ==
  /\ Works(a)
  /\ \E f \in Lists : \E i, j \in DOMAIN page[a].draft[f] :
       /\ j \in {i - 1, i + 1}
       /\ Edit(a, f, Moved(page[a].draft[f], i, j))

Changed(a, c) == {f \in CardFields[c] : page[a].draft[f] # page[a].baseline[f]}
Dirty(a, c) == Changed(a, c) # {}

Patch(a, c) ==
  [f \in IF c \in Sections THEN CardFields[c] ELSE Changed(a, c) |-> page[a].draft[f]]

OnItsWay(a) == {r \in Requests : request[r].admin = a /\ request[r].at \notin {"NONE", "OVER"}}

\* A card is dirty and not the one being saved; only one card shows it is saved.
Save(a, c) ==
  /\ Works(a) /\ Dirty(a, c) /\ page[a].saving # c
  /\ Overlapping \/ \A r \in OnItsWay(a) : request[r].card # c
  /\ \E r \in Requests :
       /\ request[r].at = "NONE" /\ \A s \in 1..(r - 1) : request[s].at # "NONE"
       /\ request' = [request EXCEPT ![r] =
            [Unsent EXCEPT !.at = "SENT", !.admin = a, !.card = c,
                           !.patch = Patch(a, c), !.changed = Changed(a, c), !.here = TRUE]]
  /\ page' = [page EXCEPT ![a].saving = c, ![a].shown[c] = "NONE"]
  /\ UNCHANGED <<row, lock, store, edits, faults>>

\* onQueryStarted: a copy the store holds takes the row of the answer.
StoreAnswer(a, answer) ==
  store' = [store EXCEPT ![a] = IF @ = None THEN None ELSE answer]

\* The answer reaches the store, and the page that sent it if it is still open.
Saved(r) ==
  LET a == request[r].admin   c == request[r].card IN
  /\ request[r].at = "DONE"
  /\ request' = [request EXCEPT ![r].at = "OVER"]
  /\ StoreAnswer(a, request[r].answer)
  /\ IF request[r].here
     THEN page' = [page EXCEPT
            ![a].baseline = [f \in Fields |-> IF f \in DOMAIN request[r].patch
                                              THEN request[r].answer[f] ELSE @[f]],
            ![a].saving = None, ![a].shown[c] = "SAVED"]
     ELSE UNCHANGED page
  /\ UNCHANGED <<row, lock, edits, faults>>

Failed(r) ==
  LET a == request[r].admin   c == request[r].card IN
  /\ request[r].at = "FAILED"
  /\ request' = [request EXCEPT ![r].at = "OVER"]
  /\ page' = IF request[r].here
             THEN [page EXCEPT ![a].saving = None, ![a].shown[c] = "ERROR"] ELSE page
  /\ UNCHANGED <<row, lock, store, edits, faults>>

-----------------------------------------------------------------------------
Server(r) == WriteSite(r) \/ ReadSection(r) \/ WriteSection(r)
Browser(r) == Saved(r) \/ Failed(r)
Editing(a) == \/ EditText(a) \/ EditItem(a) \/ AddItem(a) \/ RemoveItem(a) \/ MoveItem(a)

Next ==
  \/ \E r \in Requests : Server(r) \/ Refuse(r) \/ Browser(r)
  \/ \E a \in Admins :
       \/ Open(a) \/ Leave(a) \/ Evict(a) \/ Editing(a)
       \/ \E c \in Cards : Save(a, c)

Spec == Init /\ [][Next]_vars

-----------------------------------------------------------------------------
Copy == [Fields -> Texts \cup Items \cup {Absent}]

TypeOK ==
  /\ row \in Copy
  /\ {r \in Requests : request[r].at = "READ"} = {lock} \ {0}
  /\ store \in [Admins -> Copy \cup {None}]
  /\ \A a \in Admins :
       /\ {page[a].draft, page[a].baseline} \subseteq Copy \cup {None}
       /\ page[a].open <=> page[a].draft # None
       /\ page[a].saving \in Cards \cup {None}
  /\ \A r \in Requests :
       request[r].at \in {"NONE", "SENT", "READ", "DONE", "FAILED", "OVER"}

\* A card that shows "Saved and published." and has no save on its way says
\* what the site says, when one admin edits it.
SavedIsPublished ==
  \A a \in Admins, c \in Cards :
    page[a].shown[c] = "SAVED" /\ ~Dirty(a, c) /\ OnItsWay(a) = {} =>
      \A f \in CardFields[c] : page[a].draft[f] = row[f]

\* A save writes the card it was sent for and nothing else of the site, however
\* the saves of several admins overlap: sections of one document included.
OnlyItsCard ==
  \A f \in Fields : (Normalized(row)[f])' # Normalized(row)[f] =>
    \E r \in Requests : /\ request[r].at # request'[r].at
                        /\ f \in CardFields[request[r].card]

\* A card is being saved until the page shows an answer.
Saving(a) == page[a].saving # None

=============================================================================
