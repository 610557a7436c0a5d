---------------------------- MODULE ProductImages ----------------------------
(***************************************************************************)
(* The images of one product: rows with a position, and for the managed    *)
(* ones an asset at the image host (adminMedia.routes.ts, the image routes *)
(* of adminCatalog.routes.ts, cloudinary.service.ts,                       *)
(* productImages.service.ts, ProductImageManager.tsx, cloudinaryUpload.ts, *)
(* productImagesApi.ts, products/new/page.tsx).                            *)
(*                                                                         *)
(* A browser uploads an image in steps of its own: the server signs, the   *)
(* host stores, the server attaches; when attaching fails the browser asks *)
(* the server to remove the stored asset again.  Attaching, cleaning up    *)
(* and ordering hold the product's advisory lock while they read, ask the  *)
(* host and write; deleting an image or the product does not.              *)
(*                                                                         *)
(* Left out: the contents of files, signatures, descriptions.              *)
(***************************************************************************)
EXTENDS Naturals, Sequences, FiniteSets, SequencesExt

CONSTANTS
  Admins,
  Images,     \* one name for every try to add an image
  External,   \* those that are added by their address, without the host
  MaxImages,  \* CLOUDINARY_MAX_IMAGES_PER_PRODUCT
  MaxFaults,  \* lost answers, failing calls, closed pages
  MaxOrders, MaxDeletes,
  Dropping,   \* an admin deletes the product
  Pinned,     \* whether a bundle or a plan refers to an option of the product: the cases
  Retrying,   \* admins ask again to remove an image that is still there
  None

ConstantsAssumption ==
  /\ External \subseteq Images /\ Pinned \subseteq BOOLEAN /\ MaxImages \in Nat /\ MaxFaults \in Nat
  /\ MaxOrders \in Nat /\ MaxDeletes \in Nat

VARIABLES
  product,   \* whether the Product row is there
  rows,      \* the ProductImage rows: their positions, None where there is none
  hosted,    \* the assets the host stores
  lock,      \* the request that holds pg_advisory_xact_lock(product-images/..)
  attach,    \* the request that attaches an image
  cleanup,   \* the request that cleans an image up
  deletion,  \* the request that deletes an image
  ordering,  \* each admin's request that orders the images
  drop,      \* the request that deletes the product
  browser,   \* what each admin's page is doing
  seen,      \* the images each page shows, in their order
  failed,    \* the images a page has reported as not uploaded
  doomed,    \* the images a deletion has begun to take from the host
  orders, deletes, faults

tasks == <<attach, cleanup, deletion, ordering, drop>>
bounds == <<orders, deletes, faults>>
vars == <<product, rows, hosted, lock, tasks, browser, seen, failed, doomed, bounds>>

NoTask == [at |-> "NONE"]
Init ==
  /\ product = TRUE
  /\ rows = [i \in Images |-> None]
  /\ hosted = {} /\ lock = None
  /\ attach = [i \in Images |-> NoTask] /\ cleanup = [i \in Images |-> NoTask]
  /\ deletion = [i \in Images |-> NoTask] /\ ordering = [a \in Admins |-> NoTask]
  /\ drop = NoTask
  /\ browser = [a \in Admins |-> [at |-> "IDLE"]]
  /\ seen = [a \in Admins |-> <<>>]
  /\ failed = {} /\ doomed = {}
  /\ orders = 0 /\ deletes = 0 /\ faults = 0

Rows == {i \in Images : rows[i] # None}
Managed == Images \ External
Positions == {rows[i] : i \in Rows}
NextPosition == IF Rows = {} THEN 0 ELSE 1 + (CHOOSE p \in Positions : \A q \in Positions : q <= p)
InOrder == SetToSortSeq(Rows, LAMBDA i, j : rows[i] < rows[j])
Fault == faults < MaxFaults /\ faults' = faults + 1

Free(t) == lock = None
Acquire(t) == Free(t) /\ lock' = t
Release(t) == lock' = IF lock = t THEN None ELSE lock

-----------------------------------------------------------------------------
(* The page. *)

Page(a, b) == browser' = [browser EXCEPT ![a] = b]
ServerRests == UNCHANGED <<product, rows, lock, deletion, ordering, drop, doomed, orders, deletes>>

Unused(i) == attach[i].at = "NONE" /\ i \notin hosted \cup failed
             /\ \A a \in Admins : browser[a].at # "IDLE" => browser[a].image # i

\* POST /media/upload-signatures: the images are counted without the lock.
ChooseFile(a) ==
  \E i \in Managed :
    /\ browser[a].at = "IDLE" /\ Unused(i) /\ Len(seen[a]) < MaxImages
    /\ product /\ Cardinality(Rows) < MaxImages
    /\ Page(a, [at |-> "UPLOAD", image |-> i])
    /\ UNCHANGED <<hosted, attach, cleanup, seen, failed, faults>> /\ ServerRests

\* The host stores the file; its answer is what attaching needs.
Upload(a) ==
  LET i == browser[a].image IN
  /\ browser[a].at = "UPLOAD"
  /\ hosted' = hosted \cup {i}
  /\ attach' = [attach EXCEPT ![i] = [at |-> "SENT"]]
  /\ Page(a, [at |-> "ATTACH", image |-> i])
  /\ UNCHANGED <<cleanup, seen, failed, faults>> /\ ServerRests

\* The connection breaks, before or after the file is stored.
UploadLost(a) ==
  /\ browser[a].at = "UPLOAD" /\ Fault
  /\ hosted' \in {hosted, hosted \cup {browser[a].image}}
  /\ failed' = failed \cup {browser[a].image}
  /\ Page(a, [at |-> "IDLE"])
  /\ UNCHANGED <<attach, cleanup, seen>> /\ ServerRests

Attached(a) ==
  /\ browser[a].at = "ATTACH" /\ attach[browser[a].image].at = "DONE"
  /\ Page(a, [at |-> "IDLE"])
  /\ UNCHANGED <<hosted, attach, cleanup, seen, failed, faults>> /\ ServerRests

\* Attaching was refused, or its answer never came: the page cleans up.
CleanUp(a) ==
  LET i == browser[a].image IN
  /\ browser[a].at = "ATTACH"
  /\ IF attach[i].at = "REFUSED" THEN UNCHANGED faults ELSE Fault
  /\ cleanup' = [cleanup EXCEPT ![i] = [at |-> "SENT"]]
  /\ Page(a, [at |-> "CLEAN", image |-> i])
  /\ UNCHANGED <<hosted, attach, seen, failed>> /\ ServerRests

\* Whatever the cleanup answers, the page reports the image as failed.
Reported(a) ==
  LET i == browser[a].image IN
  /\ browser[a].at = "CLEAN"
  /\ IF cleanup[i].at \in {"DONE", "REFUSED"} THEN UNCHANGED faults ELSE Fault
  /\ failed' = failed \cup {i}
  /\ Page(a, [at |-> "IDLE"])
  /\ UNCHANGED <<hosted, attach, cleanup, seen>> /\ ServerRests

ClosePage(a) ==
  /\ browser[a].at # "IDLE" /\ Fault
  /\ Page(a, [at |-> "IDLE"])
  /\ UNCHANGED <<hosted, attach, cleanup, seen, failed>> /\ ServerRests

Fetch(a) ==
  /\ seen' = [seen EXCEPT ![a] = InOrder]
  /\ UNCHANGED <<hosted, attach, cleanup, browser, failed, faults>> /\ ServerRests

AddExternal(a) ==
  \E i \in External :
    /\ browser[a].at = "IDLE" /\ Unused(i) /\ Len(seen[a]) < MaxImages
    /\ attach' = [attach EXCEPT ![i] = [at |-> "SENT"]]
    /\ UNCHANGED <<hosted, cleanup, browser, seen, failed, faults>> /\ ServerRests

\* Up, down and "Make primary".
Moves(s) ==
  {[s EXCEPT ![i] = s[i + 1], ![i + 1] = s[i]] : i \in 1..(Len(s) - 1)}
    \cup {<<s[i]>> \o RemoveAt(s, i) : i \in 2..Len(s)}

Arrange(a) ==
  \E ids \in Moves(seen[a]) :
    /\ browser[a].at = "IDLE" /\ ordering[a].at = "NONE" /\ orders < MaxOrders
    /\ ordering' = [ordering EXCEPT ![a] = [at |-> "SENT", ids |-> ids]]
    /\ orders' = orders + 1
    /\ UNCHANGED <<product, rows, hosted, lock, attach, cleanup, deletion, drop,
                   browser, seen, failed, doomed, deletes, faults>>

AskDelete(a, i) ==
  /\ browser[a].at = "IDLE" /\ i \in ToSet(seen[a]) /\ deletion[i].at = "NONE"
  /\ IF Retrying /\ i \in doomed THEN UNCHANGED deletes
     ELSE deletes < MaxDeletes /\ deletes' = deletes + 1
  /\ deletion' = [deletion EXCEPT ![i] = [at |-> "SENT"]]
  /\ UNCHANGED <<product, rows, hosted, lock, attach, cleanup, ordering, drop,
                 browser, seen, failed, doomed, orders, faults>>

-----------------------------------------------------------------------------
(* The requests that hold the lock. *)

PageRests == UNCHANGED <<browser, seen, failed, orders, deletes>>
Attaching(i, at) ==
  /\ attach' = [attach EXCEPT ![i] = at]
  /\ UNCHANGED <<cleanup, deletion, ordering, drop, product, doomed>> /\ PageRests

\* The row may be there already (the same image attached twice), the product
\* gone, or the images too many.
ReadForAttach(i) ==
  /\ attach[i].at = "SENT" /\ Acquire(<<"ATTACH", i>>)
  /\ Attaching(i, [at |-> "READ", position |-> NextPosition,
                   fits |-> product /\ Cardinality(Rows) < MaxImages])
  /\ UNCHANGED <<rows, hosted, faults>>

Confirmed(i) == attach[i].fits /\ i \in hosted \cup External

Confirm(i) ==
  /\ attach[i].at = "READ" /\ Confirmed(i)
  /\ Attaching(i, [attach[i] EXCEPT !.at = "CONFIRMED"])
  /\ UNCHANGED <<rows, hosted, lock, faults>>

\* The limit, an asset that is gone, a host that does not answer in time.
RefuseAttach(i) ==
  /\ attach[i].at = "READ"
  /\ IF Confirmed(i) THEN i \in Managed /\ Fault ELSE UNCHANGED faults
  /\ Attaching(i, [at |-> "REFUSED"]) /\ Release(<<"ATTACH", i>>)
  /\ UNCHANGED <<rows, hosted>>

Insert(i) ==
  /\ attach[i].at = "CONFIRMED"
  /\ IF product
     THEN /\ rows' = [rows EXCEPT ![i] = attach[i].position]
          /\ Attaching(i, [at |-> "DONE"])
     ELSE UNCHANGED rows /\ Attaching(i, [at |-> "REFUSED"])
  /\ Release(<<"ATTACH", i>>)
  /\ UNCHANGED <<hosted, faults>>

\* The request is lost on its way, or its process dies.
LoseAttach(i) ==
  /\ attach[i].at \in {"SENT", "READ", "CONFIRMED"} /\ Fault
  /\ Attaching(i, [at |-> "REFUSED"]) /\ Release(<<"ATTACH", i>>)
  /\ UNCHANGED <<rows, hosted>>

Cleaning(i, at) ==
  /\ cleanup' = [cleanup EXCEPT ![i] = [at |-> at]]
  /\ UNCHANGED <<rows, attach, deletion, ordering, drop, product, doomed>> /\ PageRests

AttachedIgnored(i) == FALSE
IsAttached(i) == i \in Rows

ReadForCleanup(i) ==
  /\ cleanup[i].at = "SENT"
  /\ IF IsAttached(i) THEN Free(<<"CLEANUP", i>>) /\ Cleaning(i, "REFUSED") /\ UNCHANGED lock
     ELSE Acquire(<<"CLEANUP", i>>) /\ Cleaning(i, "READ")
  /\ UNCHANGED <<hosted, faults>>

DestroyForCleanup(i) ==
  /\ cleanup[i].at = "READ"
  /\ hosted' = hosted \ {i}
  /\ Cleaning(i, "DONE") /\ Release(<<"CLEANUP", i>>)
  /\ UNCHANGED faults

LoseCleanup(i) ==
  /\ cleanup[i].at \in {"SENT", "READ"} /\ Fault
  /\ Cleaning(i, "REFUSED") /\ Release(<<"CLEANUP", i>>)
  /\ UNCHANGED hosted

Ordering(a, o) ==
  /\ ordering' = [ordering EXCEPT ![a] = o]
  /\ UNCHANGED <<hosted, attach, cleanup, deletion, drop, product, doomed, faults>> /\ PageRests

SameList(ids) == ToSet(ids) = Rows

ReadForOrder(a) ==
  /\ ordering[a].at = "SENT"
  /\ IF SameList(ordering[a].ids)
     THEN /\ Acquire(<<"ORDER", a>>)
          /\ Ordering(a, [ordering[a] EXCEPT !.at = "READ"])
     ELSE Free(<<"ORDER", a>>) /\ Ordering(a, NoTask) /\ UNCHANGED lock
  /\ UNCHANGED rows

\* An image deleted meanwhile makes the whole transaction fail.
WriteOrder(a) ==
  LET ids == ordering[a].ids IN
  /\ ordering[a].at = "READ"
  /\ rows' = IF ToSet(ids) \subseteq Rows
             THEN [i \in Images |-> IF Contains(ids, i) THEN IndexFirstSubSeq(<<i>>, ids) - 1
                                    ELSE rows[i]]
             ELSE rows
  /\ Ordering(a, NoTask) /\ Release(<<"ORDER", a>>)

-----------------------------------------------------------------------------
(* The requests that do not hold it. *)

Deleting(i, d) ==
  /\ deletion' = [deletion EXCEPT ![i] = d]
  /\ UNCHANGED <<product, lock, attach, cleanup, ordering, drop>> /\ PageRests

\* The host answers "ok" or "not found"; the handler takes both.
TakesMissing(i) == i \in hosted
Destroys(i) == TRUE

DestroyImage(i) ==
  /\ deletion[i].at = "SENT"
  /\ IF i \in Rows /\ (i \in External \/ Destroys(i))
     THEN /\ hosted' = hosted \ {i} /\ doomed' = doomed \cup {i}
          /\ Deleting(i, [at |-> "DESTROYED"])
     ELSE UNCHANGED <<hosted, doomed>> /\ Deleting(i, NoTask)
  /\ UNCHANGED <<rows, faults>>

DeleteRow(i) ==
  /\ deletion[i].at = "DESTROYED"
  /\ rows' = [rows EXCEPT ![i] = None]
  /\ Deleting(i, NoTask)
  /\ UNCHANGED <<hosted, doomed, faults>>

\* The host's answer is lost, or the process dies after it.
LoseDeletion(i) ==
  /\ deletion[i].at \in {"SENT", "DESTROYED"} /\ Fault
  /\ IF deletion[i].at = "SENT" /\ i \in Rows
     THEN /\ hosted' \in {hosted, hosted \ {i}} /\ doomed' = doomed \cup {i}
     ELSE UNCHANGED <<hosted, doomed>>
  /\ Deleting(i, NoTask)
  /\ UNCHANGED rows

DropTask(d) ==
  /\ drop' = d
  /\ UNCHANGED <<lock, attach, cleanup, deletion, ordering>> /\ PageRests

ReadForDrop ==
  /\ Dropping /\ drop.at = "NONE" /\ product
  /\ DropTask([at |-> "DESTROY", left |-> Rows \cap Managed])
  /\ UNCHANGED <<product, rows, hosted, doomed, faults>>

DestroyForDrop ==
  /\ drop.at = "DESTROY"
  /\ \E i \in drop.left :
    /\ hosted' = hosted \ {i} /\ doomed' = doomed \cup {i}
    /\ DropTask([drop EXCEPT !.left = @ \ {i}])
    /\ UNCHANGED <<product, rows, faults>>

Cascade == [i \in Images |-> None]
DeleteProduct ==
  /\ drop.at = "DESTROY" /\ drop.left = {}
  /\ \E pinned \in Pinned : IF pinned THEN UNCHANGED <<product, rows>>
                            ELSE product' = FALSE /\ rows' = Cascade
  /\ DropTask([at |-> "OVER"])
  /\ UNCHANGED <<hosted, doomed, faults>>

LoseDrop ==
  /\ drop.at = "DESTROY" /\ Fault
  /\ DropTask([at |-> "OVER"])
  /\ UNCHANGED <<product, rows, hosted, doomed>>

-----------------------------------------------------------------------------
Browser(a) ==
  \/ ChooseFile(a) \/ Upload(a) \/ UploadLost(a) \/ Attached(a) \/ CleanUp(a)
  \/ Reported(a) \/ ClosePage(a) \/ Fetch(a) \/ AddExternal(a) \/ Arrange(a)
Server(i) ==
  \/ ReadForAttach(i) \/ Confirm(i) \/ RefuseAttach(i) \/ Insert(i)
  \/ ReadForCleanup(i) \/ DestroyForCleanup(i) \/ DestroyImage(i) \/ DeleteRow(i)
Losses(i) == LoseAttach(i) \/ LoseCleanup(i) \/ LoseDeletion(i)
Drop == ReadForDrop \/ DestroyForDrop \/ DeleteProduct \/ LoseDrop

Next ==
  \/ \E a \in Admins : Browser(a) \/ ReadForOrder(a) \/ WriteOrder(a)
  \/ \E a \in Admins, i \in Images : AskDelete(a, i)
  \/ \E i \in Images : Server(i) \/ Losses(i)
  \/ Drop

Spec == Init /\ [][Next]_vars

-----------------------------------------------------------------------------
TypeOK ==
  /\ product \in BOOLEAN /\ hosted \subseteq Managed
  /\ \A i \in Rows : rows[i] \in Nat
  /\ \A a \in Admins : ToSet(seen[a]) \subseteq Images
  /\ failed \cup doomed \subseteq Images
  /\ ~product => Rows = {}
  /\ lock # None => \E i \in Images, a \in Admins :
       lock \in {<<"ATTACH", i>>, <<"CLEANUP", i>>, <<"ORDER", a>>}

\* However many admins add images at once, a product has no more than its
\* limit, although the signatures are given out without a lock.
ImageLimit == Cardinality(Rows) <= MaxImages

\* Every image has a position of its own, whatever is added, removed and
\* arranged meanwhile: the storefront's first image is the one the page shows.
PositionsDistinct == Cardinality(Positions) = Cardinality(Rows)

\* The storefront shows no image that the host has lost, unless an admin asked
\* to delete it: no cleanup takes the asset of an attached image, however late
\* it runs and whatever the page believed.
RowIsHosted == \A i \in Rows \cap Managed : i \in hosted \cup doomed

\* Without lost answers and without the deletion of the product, the host
\* keeps no asset that belongs to no image and to no upload that goes on.
NoOrphan ==
  faults = 0 /\ drop.at = "NONE" =>
    \A i \in hosted : i \in Rows \/ \E a \in Admins : browser[a].at # "IDLE" /\ browser[a].image = i

\* An image is to be removed, perhaps by asking again, until its row is gone.
Doomed(i) == i \in doomed
Removed(i) == i \notin Rows

=============================================================================
