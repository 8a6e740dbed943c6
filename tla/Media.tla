-------------------------------- MODULE Media --------------------------------
(***************************************************************************)
(* The images of sites, site events, POCA events and gifticons: rows in     *)
(* PostgreSQL that name files on disk.                                      *)
(*                                                                          *)
(* All use cases do it alike.  Files are uploaded first; a transaction      *)
(* writes the rows; then the files that are not needed any more are         *)
(* deleted: the old ones, as they were read before the transaction, or the  *)
(* new ones if it failed.  Deleting is best effort.                         *)
(***************************************************************************)
EXTENDS UseCases, FiniteSets

CONSTANTS
  Sites,        \* ids; one of the three images of a site stands for each
  Gifticons,
  PocaEvents,
  SiteEvents,
  Files,        \* file names; each upload makes a new one
  MaxBanners,   \* banners of an event: 10
  Keep          \* of an image: it is not part of the request

\* Assumed of the constants.
KeepIsNoFile == Keep # None /\ {Keep, None} \cap Files = {}
FilesAreFinite == IsFiniteSet(Files) /\ MaxBanners \in Nat

Items == Sites \cup Gifticons \cup PocaEvents \cup SiteEvents

VARIABLES
  row,      \* the row of each item: its image, and its banners that have one
  disk,     \* the files there are
  left,     \* history: files of requests that broke off where nobody cleans up
  spoilt    \* history: a failed request deleted files that rows name

vars == <<row, disk, left, spoilt, job, calm>>

NoRow == [status |-> "none", image |-> None, banners |-> {}]

Row == [status: {"live", "deleted"}, image: Files \cup {None}, banners: SUBSET Files]

Live(i) == row[i].status = "live"

Optional(f) == {f} \ {None, Keep}

FilesOf(r) == r.banners \cup Optional(r.image)

Named == UNION {FilesOf(row[i]) : i \in Items}

\* The files a request in progress has uploaded, is going to write or to delete.
HandOf(j) == j.new \cup j.old \cup Optional(j.image)

InHand == UNION {HandOf(job[h]) : h \in {g \in Handlers : ~Idle(g)}}

\* generateFilename: time and random bytes.
NewFiles == Files \ (disk \cup Named \cup InHand)

Init ==
  /\ row = [i \in Items |-> NoRow]
  /\ disk = {}
  /\ left = {}
  /\ spoilt = FALSE
  /\ NoJobs

-----------------------------------------------------------------------------
(* Uploads *)

\* A later image of the request is refused, or saving it fails: the uploads
\* are made outside the try block, nobody deletes the first ones.
BreakOff(files) ==
  /\ disk' = disk \cup files
  /\ left' = left \cup files
  /\ AtOnce /\ UNCHANGED <<row, spoilt>>

Store(h, op, i, image, add, gone, old) ==
  LET new == add \cup Optional(image)
  IN  /\ disk' = disk \cup new
      /\ Begin(h, [op |-> op, item |-> i, image |-> image, add |-> add, gone |-> gone,
                   new |-> new, old |-> old])
      /\ UNCHANGED <<row, left, spoilt>>

\* Gifticons and sites have no banners, site events nothing else; each upload
\* makes its own file.
MayHave(i, image, banners) ==
  /\ image \notin banners
  /\ i \in SiteEvents => image \in {None, Keep}
  /\ i \in Sites \cup Gifticons => banners = {}

UploadForCreate(h, i, image, banners) ==
  /\ row[i] = NoRow
  /\ \A g \in Busy({"insert"}) : job[g].item # i
  /\ MayHave(i, image, banners)
  /\ Cardinality(banners) <= MaxBanners
  /\ Store(h, "insert", i, image, banners, {}, {})

\* Mutant: the old image goes whatever the request says.
OldImageAnyway(i, image) == Optional(row[i].image)

\* The old image goes when there is a new one, or when that is asked for.
OldImage(i, image) == IF image = Keep THEN {} ELSE Optional(row[i].image)

\* Banners of a site event are added and removed one by one: their number is
\* checked here.
UploadForSiteEvent(h, i, add, gone) ==
  /\ i \in SiteEvents /\ Live(i)
  /\ add # {} => Cardinality(row[i].banners \cup add) <= MaxBanners
  /\ Store(h, "event", i, Keep, add, gone, gone)

\* Those of a POCA event are replaced all together: see Read.
UploadForPocaEvent(h, i, image, add, replace) ==
  /\ i \in PocaEvents /\ Live(i)
  /\ MayHave(i, image, add)
  /\ add # {} => replace
  /\ Cardinality(add) <= MaxBanners
  /\ Store(h, IF replace THEN "poca" ELSE "image", i, image, add, {},
           OldImage(i, image) \cup IF replace THEN row[i].banners ELSE {})

UploadForGifticon(h, i, image) ==
  /\ i \in Gifticons /\ Live(i)
  /\ Store(h, "image", i, image, {}, {}, OldImage(i, image))

UploadForSite(h, i, image) ==
  /\ i \in Sites /\ Live(i)
  /\ Store(h, "site", i, image, {}, {}, OldImage(i, image))

-----------------------------------------------------------------------------
(* Transactions *)

CleanUp(h, files) == Continue(h, [op |-> "clean", image |-> None, new |-> {}, old |-> files])

Create(h) ==
  /\ At(h, "insert")
  /\ row' = [row EXCEPT ![job[h].item] =
               [status |-> "live", image |-> job[h].image, banners |-> job[h].add]]
  /\ IF job[h].item \in Sites
     THEN Continue(h, [job[h] EXCEPT !.op = "reload"])
     ELSE End(h)
  /\ UNCHANGED <<disk, left, spoilt>>

\* The entity is read in the transaction and saved as a whole: an image that is
\* not part of the request is the one that is read here.
Read(h) ==
  /\ job[h].op \in {"image", "poca"}
  /\ Live(job[h].item)
  /\ LET read == row[job[h].item].image
     IN  Continue(h, [op |-> "save", item |-> job[h].item, new |-> job[h].new,
                      old |-> job[h].old, add |-> job[h].add, replace |-> job[h].op = "poca",
                      image |-> IF job[h].image = Keep THEN read ELSE job[h].image])
  /\ UNCHANGED <<row, disk, left, spoilt>>

\* DELETE of all banners of the event, whoever made them.
Save(h) ==
  /\ At(h, "save")
  /\ LET j == job[h]
     IN  row' = [row EXCEPT ![j.item].image = j.image,
                            ![j.item].banners = IF j.replace THEN j.add ELSE @]
  /\ CleanUp(h, job[h].old)
  /\ UNCHANGED <<disk, left, spoilt>>

UpdateSiteEvent(h) ==
  /\ At(h, "event")
  /\ Live(job[h].item)
  /\ row' = [row EXCEPT ![job[h].item].banners = (@ \ job[h].gone) \cup job[h].add]
  /\ CleanUp(h, job[h].old)
  /\ UNCHANGED <<disk, left, spoilt>>

\* An UPDATE of what the request names; the site may be deleted by now.
UpdateSite(h) ==
  /\ At(h, "site")
  /\ row' = [row EXCEPT ![job[h].item].image = IF job[h].image = Keep THEN @ ELSE job[h].image]
  /\ Continue(h, [job[h] EXCEPT !.op = "reload"])
  /\ UNCHANGED <<disk, left, spoilt>>

Reload(h) ==
  /\ At(h, "reload")
  /\ CleanUp(h, job[h].old)
  /\ UNCHANGED <<row, disk, left, spoilt>>

\* The transaction fails, and the new files are deleted.  A site event's old
\* ones as well, if the failure comes after they were collected: "finally" is
\* not "after successful transaction".
RollBack(h) ==
  /\ job[h].op \in {"insert", "event", "image", "poca", "save", "site"}
  /\ \E collected \in IF At(h, "event") THEN {{}, job[h].old} ELSE {{}} :
       /\ spoilt' = (spoilt \/ collected # {})
       /\ CleanUp(h, job[h].new \cup collected)
  /\ UNCHANGED <<row, disk, left>>

\* A site is loaded again after the commit, in the same try block: the new
\* files are deleted and the old ones stay, if that fails or the site is deleted.
ReloadFails(h) ==
  /\ At(h, "reload")
  /\ CleanUp(h, job[h].new)
  /\ spoilt' = (spoilt \/ job[h].new # {})
  /\ left' = left \cup job[h].old
  /\ UNCHANGED <<row, disk>>

\* Each file by itself; an error is ignored.
DeleteFiles(h) ==
  /\ At(h, "clean")
  /\ \E files \in SUBSET job[h].old :
       /\ disk' = disk \ files
       /\ left' = left \cup (job[h].old \ files)
  /\ End(h) /\ UNCHANGED <<row, spoilt>>

\* The process ends: what it had in hand stays where it is.
Crash(h) ==
  /\ ~Idle(h)
  /\ left' = left \cup job[h].new \cup job[h].old
  /\ End(h) /\ UNCHANGED <<row, disk, spoilt>>

\* Soft, for all of them; the files stay.
Delete(i) ==
  /\ Live(i)
  /\ row' = [row EXCEPT ![i].status = "deleted"]
  /\ AtOnce /\ UNCHANGED <<disk, left, spoilt>>

-----------------------------------------------------------------------------

Images == NewFiles \cup {None}

\* The routes of each controller, and what is left of the use cases they begin.
SiteEventController(h) ==
  \E i \in SiteEvents, add \in SUBSET NewFiles :
    \/ UploadForCreate(h, i, None, add)
    \/ \E gone \in SUBSET row[i].banners : UploadForSiteEvent(h, i, add, gone)

PocaEventController(h) ==
  \E i \in PocaEvents, add \in SUBSET NewFiles :
    \/ \E image \in Images : UploadForCreate(h, i, image, add)
    \/ \E image \in Images \cup {Keep}, replace \in BOOLEAN :
         UploadForPocaEvent(h, i, image, add, replace)

GifticonController(h) ==
  \E i \in Gifticons :
    \/ \E image \in Images : UploadForCreate(h, i, image, {})
    \/ \E image \in Images \cup {Keep} : UploadForGifticon(h, i, image)

SiteController(h) ==
  \E i \in Sites :
    \/ \E image \in Images : UploadForCreate(h, i, image, {})
    \/ \E image \in Images \cup {Keep} : UploadForSite(h, i, image)

Finish(h) ==
  \/ Create(h)
  \/ Read(h) \/ Save(h)
  \/ UpdateSiteEvent(h)
  \/ UpdateSite(h) \/ Reload(h) \/ ReloadFails(h)
  \/ RollBack(h) \/ DeleteFiles(h) \/ Crash(h)

Next ==
  \/ \E h \in Handlers :
       \/ SiteEventController(h) \/ PocaEventController(h)
       \/ GifticonController(h) \/ SiteController(h)
       \/ Finish(h)
  \/ \E files \in SUBSET NewFiles \ {{}} : BreakOff(files)
  \/ \E i \in Items : Delete(i)

Spec == Init /\ [][Next]_vars

-----------------------------------------------------------------------------
(* Whose a file is *)

Uncommitted == {"insert", "event", "image", "poca", "save", "site"}

ReplacesBanners(j) == j.op \in {"insert", "poca"} \/ (j.op = "save" /\ j.replace)

\* The image and the banners the transaction of a job leaves.
Written(j) ==
  LET r == row[j.item]
  IN  [image |-> IF j.image = Keep THEN r.image ELSE j.image,
       banners |-> IF ReplacesBanners(j) THEN j.add
                   ELSE IF j.op = "event" THEN (r.banners \ j.gone) \cup j.add
                   ELSE r.banners]

\* Every variable has its type, and a job is what its use case has made it.
JobIsReal(h) ==
  LET j == job[h]
  IN  ~Idle(h) =>
        /\ j.op \in Uncommitted \cup {"reload", "clean"}
        /\ j.new \subseteq Files /\ j.old \subseteq Files
        /\ j.image \in Files \cup {Keep, None}
        /\ j.op # "clean" => j.item \in Items
        /\ j.op \in Uncommitted =>
             /\ {"op", "item", "image", "new", "old"} \subseteq DOMAIN j
             /\ j.add \subseteq j.new
             /\ j.op # "insert" => row[j.item] # NoRow
        /\ j.op = "insert" => j.image # Keep /\ j.old = {}
        /\ j.op = "event" => j.image = Keep /\ j.old = j.gone
        /\ j.op = "save" => j.image # Keep /\ j.replace \in BOOLEAN
        /\ j.op = "clean" => j.image = None /\ j.new = {}

JobsAreReal == DOMAIN job = Handlers /\ \A h \in Handlers : JobIsReal(h)

\* What a request has uploaded is its own until it is committed; no banner is
\* deleted but those the request itself takes off; a file is never a banner and
\* an image, nor a banner of two events.
OwnFiles(h) ==
  LET j == job[h]
  IN  /\ j.op \in Uncommitted =>
           /\ j.new \subseteq disk /\ j.image \notin j.add
           /\ j.new \cap (Named \cup j.old) = {}
           /\ \A g \in Handlers \ {h} : ~Idle(g) => j.new \cap HandOf(job[g]) = {}
      /\ ~Idle(h) =>
           \A i \in Items :
             /\ row[i].banners \cap Optional(j.image) = {}
             /\ \/ row[i].banners \cap j.old = {}
                \/ (ReplacesBanners(j) \/ j.op = "event") /\ j.item = i

BannersApart ==
  \A i, k \in Items :
    /\ row[i].banners \cap Optional(row[k].image) = {}
    /\ i # k => row[i].banners \cap row[k].banners = {}

FilesOwned ==
  ~spoilt =>
    /\ \A i \in Items : row[i].banners \subseteq disk
    /\ BannersApart
    /\ \A h \in Handlers : OwnFiles(h)

\* Alone, a request deletes what its transaction takes off the row, and all of
\* that, and nothing that is named after it.
DeletesWhatItDrops(h) ==
  LET j == job[h]
  IN  /\ j.op \in Uncommitted =>
           /\ j.old = FilesOf(row[j.item]) \ FilesOf(Written(j))
           /\ j.new = FilesOf(Written(j)) \ FilesOf(row[j.item])
           /\ Cardinality(Written(j).banners) <= MaxBanners
      /\ j.op \in {"reload", "clean"} => j.old \cap Named = {}
      /\ j.op = "reload" => j.new \cup Optional(j.image) \subseteq Named

NothingLost ==
  ~spoilt /\ calm =>
    /\ \A g, h \in Handlers : Idle(g) \/ Idle(h) \/ g = h
    /\ \A h \in Handlers : DeletesWhatItDrops(h)
    /\ \A i, k \in Items : i # k => FilesOf(row[i]) \cap FilesOf(row[k]) = {}
    /\ Named \subseteq disk
    /\ disk \subseteq Named \cup left \cup InHand
    /\ \A i \in Items : Cardinality(row[i].banners) <= MaxBanners

-----------------------------------------------------------------------------
(* Properties *)

\* Every variable has its type.
TypeOK ==
  /\ row \in [Items -> Row \cup {NoRow}]
  /\ disk \subseteq Files
  /\ left \subseteq Files
  /\ spoilt \in BOOLEAN
  /\ calm \in BOOLEAN

\* The image or a banner of a row is a file that is there: for banners whatever
\* overlaps, for images as long as requests do not (an update that keeps the
\* image can write back the name of one another update has deleted).  In that
\* case no file stays that nothing names, either, but for those of requests that
\* broke off; and an event has no more banners than it may have.  The two ways
\* of the code to delete files of committed rows are excluded: see spoilt.
FilesOfRows ==
  ~spoilt =>
    /\ \A i \in Items : row[i].banners \subseteq disk
    /\ calm =>
         /\ Named \subseteq disk
         /\ disk \subseteq Named \cup left \cup InHand
         /\ \A i \in Items : Cardinality(row[i].banners) <= MaxBanners
=============================================================================
