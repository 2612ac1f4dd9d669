----------------------------- MODULE ReleaseHost -----------------------------
(***************************************************************************)
(* The release page of the repository on its host, as the publication      *)
(* commands of cmd/releaseaudit meet it: the releases that carry the tag   *)
(* of the plan, the requests that were sent and may take effect later than *)
(* anyone waits for, the changes other people make, and the provider calls *)
(* (publication_github.go) that read it piece by piece.                    *)
(*                                                                         *)
(* An asset's name is a number: 1..Assets in the order of the plan,        *)
(* Checksum for the asset a normalization adds, Alien for a name no plan   *)
(* holds.  Identifiers come from one counter.  text is "planned" when      *)
(* target, name, body and the prerelease and latest flags are the plan's.  *)
(***************************************************************************)
EXTENDS Naturals, FiniteSets

CONSTANTS
  Assets,      \* number of assets in the plan
  MaxId,       \* bound: identifiers the host hands out
  MaxForeign   \* bound: changes made by anyone but the program

ASSUME HostAssumption == Assets \in Nat \ {0} /\ MaxId \in Nat /\ MaxForeign \in Nat

VARIABLES
  releases,    \* releases that carry the tag
  tagMoved,    \* the tag no longer resolves to the planned commit
  nextId,
  foreign,     \* number of foreign changes so far
  wire,        \* requests sent and not yet settled
  answer,      \* what the waiting client got: [is, id]
  look,        \* progress of a readback: [at, seen, found]
  disturbed    \* the host changed behind the client since the readback began

pageVars == <<releases, tagMoved, nextId>>
hostVars == <<releases, tagMoved, nextId, foreign, wire, answer, look, disturbed>>

Checksum == 0
Alien == Assets + 1
Planned == 1..Assets

Meta(r) == [id |-> r.id, draft |-> r.draft, text |-> r.text]
WithId(id) == {r \in releases : r.id = id}
AssetsOf(id) == UNION {r.assets : r \in WithId(id)}

NoAnswer == [is |-> "none", id |-> 0]
NoLook == [at |-> "off", seen |-> {}, found |-> {}]
Refused == [at |-> "refused", seen |-> {}, found |-> {}]

Request == [act : {"create", "upload", "publish", "delete"}, rel : 0..MaxId, name : 0..Alien,
            kind : {"exact", "other"}, live : BOOLEAN]
Asset == [id : 1..MaxId, name : 0..Alien, kind : {"exact", "partial", "other"}]
Release == [id : 1..MaxId, draft : BOOLEAN, text : {"planned", "edited"}, assets : SUBSET Asset]
Look == [at : {"off", "list", "direct", "assets", "done", "refused"},
         seen : SUBSET [id : 1..MaxId, draft : BOOLEAN, text : {"planned", "edited"}],
         found : SUBSET Asset]

HostTypeOK ==
  /\ releases \in SUBSET Release /\ tagMoved \in BOOLEAN /\ nextId \in 1..MaxId + 1
  /\ foreign \in 0..MaxForeign /\ wire \in SUBSET Request
  /\ answer \in [is : {"none", "ok", "refused"}, id : 0..MaxId]
  /\ look \in Look /\ disturbed \in BOOLEAN

HostInit(page) ==
  /\ releases = page /\ tagMoved = FALSE
  /\ nextId = 1 + Cardinality(page) + Cardinality(UNION {r.assets : r \in page})
  /\ foreign = 0 /\ wire = {} /\ answer = NoAnswer /\ look = NoLook /\ disturbed = FALSE

(***************************************************************************)
(* Requests.  The client waits for the live one; when it stops waiting     *)
(* (timeout, crash) the request stays on the wire and may still land.      *)
(***************************************************************************)
Dispatch(q) == wire' = wire \cup {q} /\ answer' = NoAnswer

Abandon == wire' = {[q EXCEPT !.live = FALSE] : q \in wire} /\ answer' = NoAnswer

Settle(q, page, ids, reply) ==
  /\ releases' = page /\ nextId' = nextId + ids /\ wire' = wire \ {q}
  /\ answer' = IF q.live THEN reply ELSE answer
  /\ disturbed' = (disturbed \/ ~q.live)
  /\ UNCHANGED <<tagMoved, foreign, look>>

LandCreate(q) ==
  /\ q.act = "create" /\ nextId <= MaxId
  /\ Settle(q, releases \cup {[id |-> nextId, draft |-> TRUE, text |-> "planned", assets |-> {}]},
            1, [is |-> "ok", id |-> nextId])

StoreAsset(q, kind, reply) ==
  \E r \in WithId(q.rel) :
    /\ nextId <= MaxId /\ \A x \in r.assets : x.name # q.name
    /\ Settle(q, (releases \ {r}) \cup
                   {[r EXCEPT !.assets = @ \cup {[id |-> nextId, name |-> q.name, kind |-> kind]}]},
              1, [is |-> reply, id |-> q.rel])

LandUpload(q) ==
  /\ q.act = "upload"
  /\ \/ StoreAsset(q, q.kind, "ok")
     \/ StoreAsset(q, "partial", "refused")

LandPublish(q) ==
  /\ q.act = "publish"
  /\ \E r \in WithId(q.rel) :
       /\ \A o \in releases \ {r} : o.draft
       /\ Settle(q, (releases \ {r}) \cup {[r EXCEPT !.draft = FALSE, !.text = "planned"]},
                 0, [is |-> "ok", id |-> q.rel])

(* DeleteAsset names the asset by its own identifier. *)
LandDelete(q) ==
  /\ q.act = "delete"
  /\ \E r \in releases : \E x \in r.assets :
       /\ x.id = q.rel
       /\ Settle(q, (releases \ {r}) \cup {[r EXCEPT !.assets = @ \ {x}]}, 0, [is |-> "ok", id |-> q.rel])

Refuse(q) == Settle(q, releases, 0, [is |-> "refused", id |-> 0])

HostStep ==
  \E q \in wire :
    LandCreate(q) \/ LandUpload(q) \/ LandPublish(q) \/ LandDelete(q) \/ Refuse(q)

(* What other people may do to the page, each change counted. *)
EditText(r) == releases' = (releases \ {r}) \cup {[r EXCEPT !.text = "edited"]} /\ UNCHANGED <<tagMoved, nextId>>
PublishByHand(r) ==
  /\ r.draft /\ \A o \in releases \ {r} : o.draft
  /\ releases' = (releases \ {r}) \cup {[r EXCEPT !.draft = FALSE]}
  /\ UNCHANGED <<tagMoved, nextId>>
RemoveRelease(r) == releases' = releases \ {r} /\ UNCHANGED <<tagMoved, nextId>>
DropAsset(r) ==
  /\ \E x \in r.assets : releases' = (releases \ {r}) \cup {[r EXCEPT !.assets = @ \ {x}]}
  /\ UNCHANGED <<tagMoved, nextId>>
AddAsset(r) ==
  /\ nextId <= MaxId /\ \A x \in r.assets : x.name # Alien
  /\ releases' = (releases \ {r}) \cup
       {[r EXCEPT !.assets = @ \cup {[id |-> nextId, name |-> Alien, kind |-> "other"]}]}
  /\ nextId' = nextId + 1 /\ UNCHANGED tagMoved
ReplaceAsset(r) ==   \* the same bytes again, under a new identifier
  /\ nextId <= MaxId
  /\ \E x \in r.assets :
       releases' = (releases \ {r}) \cup {[r EXCEPT !.assets = (@ \ {x}) \cup {[x EXCEPT !.id = nextId]}]}
  /\ nextId' = nextId + 1 /\ UNCHANGED tagMoved
OtherDraft ==
  /\ nextId <= MaxId
  /\ releases' = releases \cup {[id |-> nextId, draft |-> TRUE, text |-> "edited", assets |-> {}]}
  /\ nextId' = nextId + 1 /\ UNCHANGED tagMoved
MoveTag == ~tagMoved /\ tagMoved' = TRUE /\ UNCHANGED <<releases, nextId>>

ForeignStep ==
  /\ foreign < MaxForeign /\ foreign' = foreign + 1 /\ disturbed' = TRUE
  /\ \/ OtherDraft \/ MoveTag
     \/ \E r \in releases : \/ EditText(r) \/ PublishByHand(r) \/ RemoveRelease(r)
                            \/ DropAsset(r) \/ AddAsset(r) \/ ReplaceAsset(r)
  /\ UNCHANGED <<wire, answer, look>>

(***************************************************************************)
(* Reading.  A readback is several calls; the page may change between      *)
(* them.  Tag and list come first (the list may leave drafts out), then    *)
(* the release by its identifier, then its assets and their bytes.         *)
(***************************************************************************)
BeginLook == look' = [NoLook EXCEPT !.at = "list"] /\ disturbed' = FALSE

ReadList ==
  /\ look.at = "list"
  /\ \E hidden \in SUBSET {r \in releases : r.draft} :
       LET listed == {Meta(r) : r \in releases \ hidden}
       IN look' = IF tagMoved \/ Cardinality(listed) > 1 THEN Refused
                  ELSE [look EXCEPT !.at = "direct", !.seen = listed]

ReadDirect_AnyText(id, draft) ==   \* mutant: only the identifier is compared
  /\ look.at = "direct" /\ look' = IF WithId(id) # {} THEN [look EXCEPT !.at = "assets"] ELSE Refused

ReadDirect(id, draft) ==
  /\ look.at = "direct"
  /\ LET direct == {Meta(r) : r \in WithId(id)}
     IN look' = IF /\ direct = {[id |-> id, draft |-> draft, text |-> "planned"]}
                   /\ look.seen \subseteq direct
                THEN [look EXCEPT !.at = "assets"] ELSE Refused

HoldsExactly(found, names) ==
  /\ {x.name : x \in found} = names /\ Cardinality(found) = Cardinality(names)
  /\ \A x \in found : x.kind = "exact"

ReadAssets(id, names) ==
  /\ look.at = "assets"
  /\ look' = IF WithId(id) # {} /\ HoldsExactly(AssetsOf(id), names)
             THEN [look EXCEPT !.at = "done", !.found = AssetsOf(id)] ELSE Refused

ReadFails == look.at \in {"list", "direct", "assets"} /\ look' = Refused

(* A public download goes by tag and name, without the release identifier. *)
PublicBytes(names) ==
  \E r \in releases : ~r.draft /\ \A n \in names : \E x \in r.assets : x.name = n /\ x.kind = "exact"

(* The page holds the release exactly as a readback must find it. *)
Exactly(id, draft, names) ==
  /\ ~tagMoved
  /\ \E r \in releases : /\ Meta(r) = [id |-> id, draft |-> draft, text |-> "planned"]
                         /\ HoldsExactly(r.assets, names)
==============================================================================
