---------------------------- MODULE OneShotProofs ----------------------------
(***************************************************************************)
(* What the operations on the release page have in common, proved once:    *)
(* the steps of the host, of a readback and of a run keep the types and    *)
(* the soundness of the history, and the two steps that touch the ledger   *)
(* are steps of the one-shot promise.  PublicationProofs and               *)
(* NormalizationProofs put these lemmas together.                          *)
(***************************************************************************)
EXTENDS OneShotRun, TLAPS

Answer == [is : {"none", "ok", "refused"}, id : 0..MaxId]
PageTypeOK == releases \in SUBSET Release /\ tagMoved \in BOOLEAN /\ nextId \in 1..MaxId + 1

-----------------------------------------------------------------------------
(* The host. *)

(* The constants are numbers (for every lemma below). *)
LEMMA Numbers ==
  /\ Assets \in Nat /\ MaxId \in Nat /\ MaxForeign \in Nat /\ Assets > 0
  /\ Final \in Nat /\ Final > 0 /\ MaxDispatch \in [Approvals -> Nat]
  /\ Alien \in Nat /\ \A n \in 0..Alien : n \in Nat
  BY HostAssumption, RunAssumption DEF Alien

(* Whatever page and identifiers a request leaves, settling it keeps the   *)
(* types (Settle).                                                         *)
LEMMA SettleTypes ==
  ASSUME HostTypeOK, NEW q \in wire, NEW page \in SUBSET Release, NEW ids \in {0, 1},
         nextId + ids <= MaxId + 1, NEW reply \in Answer, Settle(q, page, ids, reply)
  PROVE  HostTypeOK'
<1>1. releases' \in SUBSET Release /\ wire' \in SUBSET Request
  BY DEF Settle, HostTypeOK
<1>2. nextId' \in 1..MaxId + 1
  BY Numbers DEF Settle, HostTypeOK
<1>3. answer' \in Answer
  BY DEF Settle, HostTypeOK, Answer
<1>4. disturbed' \in BOOLEAN
  BY DEF Settle, HostTypeOK
<1> QED
  BY <1>1, <1>2, <1>3, <1>4, Zenon DEF Settle, HostTypeOK, Answer

(* A release with another asset is a release. *)
LEMMA AssetAdded ==
  ASSUME NEW r \in Release, NEW x \in Asset
  PROVE  [r EXCEPT !.assets = @ \cup {x}] \in Release
  BY DEF Release

(* And so is one with an asset less. *)
LEMMA AssetTaken ==
  ASSUME NEW r \in Release, NEW x
  PROVE  [r EXCEPT !.assets = @ \ {x}] \in Release
  BY DEF Release

(* Settling any request keeps the types (HostStep). *)
LEMMA HostStepTypes == HostTypeOK /\ HostStep => HostTypeOK'
<1> SUFFICES ASSUME HostTypeOK, NEW q \in wire,
                    LandCreate(q) \/ LandUpload(q) \/ LandPublish(q) \/ LandDelete(q) \/ Refuse(q)
             PROVE  HostTypeOK'
  BY Zenon DEF HostStep
<1>0. /\ q \in Request /\ q.rel \in 0..MaxId /\ q.name \in 0..Alien /\ q.kind \in {"exact", "other"}
      /\ releases \in SUBSET Release /\ nextId \in Nat /\ nextId > 0 /\ nextId <= MaxId + 1
  BY Numbers DEF HostTypeOK, Request
<1>a. 0 \in {0, 1} /\ 1 \in {0, 1} /\ nextId + 0 <= MaxId + 1 /\ (nextId <= MaxId => nextId + 1 <= MaxId + 1)
  BY <1>0, Numbers
<1>1. CASE LandCreate(q)
  <2> DEFINE new == [id |-> nextId, draft |-> TRUE, text |-> "planned", assets |-> {}]
  <2>1. nextId \in 1..MaxId
    BY <1>0, <1>1, Numbers DEF LandCreate
  <2>2. new \in Release /\ [is |-> "ok", id |-> nextId] \in Answer
    BY <2>1 DEF Release, Answer
  <2>3. releases \cup {new} \in SUBSET Release
    BY <1>0, <2>2, Zenon
  <2>4. nextId + 1 <= MaxId + 1
    BY <1>a, <2>1, Numbers
  <2> QED
    BY <1>1, <1>a, <2>2, <2>3, <2>4, SettleTypes, Zenon DEF LandCreate
<1>2. ASSUME NEW kind \in {"exact", "partial", "other"}, NEW is \in {"ok", "refused"}, StoreAsset(q, kind, is)
      PROVE  HostTypeOK'
  <2>1. PICK r \in WithId(q.rel) :
          /\ nextId <= MaxId
          /\ Settle(q, (releases \ {r}) \cup
                   {[r EXCEPT !.assets = @ \cup {[id |-> nextId, name |-> q.name, kind |-> kind]}]},
                   1, [is |-> is, id |-> q.rel])
    BY <1>2, Zenon DEF StoreAsset
  <2>2. r \in Release
    BY <1>0 DEF WithId
  <2>3. [id |-> nextId, name |-> q.name, kind |-> kind] \in Asset
    BY <1>0, <2>1, Numbers DEF Asset
  <2>4. [is |-> is, id |-> q.rel] \in Answer
    BY <1>0 DEF Answer
  <2>5. (releases \ {r}) \cup {[r EXCEPT !.assets = @ \cup {[id |-> nextId, name |-> q.name, kind |-> kind]}]}
           \in SUBSET Release
    BY <1>0, <2>2, <2>3, AssetAdded
  <2> QED
    BY <1>a, <2>1, <2>4, <2>5, SettleTypes, Zenon
<1>3. CASE LandUpload(q)
  BY <1>0, <1>2, <1>3, Zenon DEF LandUpload
<1>4. CASE LandPublish(q)
  <2>1. PICK r \in WithId(q.rel) :
          Settle(q, (releases \ {r}) \cup {[r EXCEPT !.draft = FALSE, !.text = "planned"]}, 0,
                 [is |-> "ok", id |-> q.rel])
    BY <1>4, Zenon DEF LandPublish
  <2>2. [r EXCEPT !.draft = FALSE, !.text = "planned"] \in Release
    BY <1>0 DEF WithId, Release
  <2>3. [is |-> "ok", id |-> q.rel] \in Answer
    BY <1>0 DEF Answer
  <2>4. (releases \ {r}) \cup {[r EXCEPT !.draft = FALSE, !.text = "planned"]} \in SUBSET Release
    BY <1>0, <2>2
  <2> QED
    BY <1>a, <2>1, <2>3, <2>4, SettleTypes, Zenon
<1>5. CASE LandDelete(q)
  <2>1. PICK r \in releases : \E x \in r.assets :
          Settle(q, (releases \ {r}) \cup {[r EXCEPT !.assets = @ \ {x}]}, 0, [is |-> "ok", id |-> q.rel])
    BY <1>5, Zenon DEF LandDelete
  <2>a. PICK x \in r.assets :
          Settle(q, (releases \ {r}) \cup {[r EXCEPT !.assets = @ \ {x}]}, 0, [is |-> "ok", id |-> q.rel])
    BY <2>1
  <2>2. [r EXCEPT !.assets = @ \ {x}] \in Release
    BY <1>0, AssetTaken
  <2>3. [is |-> "ok", id |-> q.rel] \in Answer
    BY <1>0 DEF Answer
  <2>4. (releases \ {r}) \cup {[r EXCEPT !.assets = @ \ {x}]} \in SUBSET Release
    BY <1>0, <2>2
  <2> QED
    BY <1>a, <2>a, <2>3, <2>4, SettleTypes, Zenon
<1>6. CASE Refuse(q)
  <2>1. [is |-> "refused", id |-> 0] \in Answer
    BY Numbers DEF Answer
  <2> QED
    BY <1>0, <1>a, <1>6, <2>1, SettleTypes, Zenon DEF Refuse
<1> QED
  BY <1>1, <1>3, <1>4, <1>5, <1>6

(* What other people do keeps the types (ForeignStep). *)
LEMMA ForeignStepTypes == HostTypeOK /\ ForeignStep => HostTypeOK'
<1> SUFFICES ASSUME HostTypeOK, ForeignStep PROVE HostTypeOK'
  OBVIOUS
<1>1. foreign' \in 0..MaxForeign /\ disturbed' \in BOOLEAN /\ UNCHANGED <<wire, answer, look>>
  BY Numbers DEF HostTypeOK, ForeignStep
<1>2. releases \in SUBSET Release /\ nextId \in Nat /\ 1 <= nextId /\ nextId <= MaxId + 1 /\ tagMoved \in BOOLEAN
  BY Numbers DEF HostTypeOK
<1>3. PageTypeOK'
  <2>1. CASE OtherDraft
    <3>1. [id |-> nextId, draft |-> TRUE, text |-> "edited", assets |-> {}] \in Release
      BY <1>2, <2>1, Numbers DEF OtherDraft, Release
    <3>2. nextId' \in 1..MaxId + 1 /\ tagMoved' \in BOOLEAN
      BY <1>2, <2>1, Numbers DEF OtherDraft
    <3> QED
      BY <1>2, <2>1, <3>1, <3>2 DEF OtherDraft, PageTypeOK
  <2>2. CASE MoveTag
    BY <1>2, <2>2, Numbers DEF MoveTag, PageTypeOK
  <2>3. ASSUME NEW r \in releases,
               EditText(r) \/ PublishByHand(r) \/ RemoveRelease(r) \/ DropAsset(r)
        PROVE  PageTypeOK'
    <3>1. r \in Release /\ UNCHANGED <<tagMoved, nextId>>
      BY <1>2, <2>3 DEF EditText, PublishByHand, RemoveRelease, DropAsset
    <3>2. [r EXCEPT !.text = "edited"] \in Release /\ [r EXCEPT !.draft = FALSE] \in Release
      BY <3>1 DEF Release
    <3>3. releases' \in SUBSET Release
      BY <1>2, <2>3, <3>1, <3>2, AssetTaken DEF EditText, PublishByHand, RemoveRelease, DropAsset
    <3> QED
      BY <1>2, <3>1, <3>3, Numbers DEF PageTypeOK
  <2>4. ASSUME NEW r \in releases, AddAsset(r)
        PROVE  PageTypeOK'
    <3> DEFINE new == [id |-> nextId, name |-> Alien, kind |-> "other"]
    <3>1. r \in Release /\ nextId \in 1..MaxId
      BY <1>2, <2>4, Numbers DEF AddAsset
    <3>2. new \in Asset
      BY <3>1, Numbers DEF Asset
    <3>3. [r EXCEPT !.assets = @ \cup {new}] \in Release
      BY <3>1, <3>2, AssetAdded
    <3>4. nextId' \in 1..MaxId + 1 /\ tagMoved' \in BOOLEAN
      BY <1>2, <2>4, Numbers DEF AddAsset
    <3>5. releases' = (releases \ {r}) \cup {[r EXCEPT !.assets = @ \cup {new}]}
      BY <2>4, Zenon DEF AddAsset
    <3> HIDE DEF new
    <3> QED
      BY <1>2, <3>3, <3>4, <3>5 DEF PageTypeOK
  <2>5. ASSUME NEW r \in releases, ReplaceAsset(r)
        PROVE  PageTypeOK'
    <3>1. PICK x \in r.assets :
            releases' = (releases \ {r}) \cup {[r EXCEPT !.assets = (@ \ {x}) \cup {[x EXCEPT !.id = nextId]}]}
      BY <2>5 DEF ReplaceAsset
    <3>2. r \in Release /\ nextId \in 1..MaxId
      BY <1>2, <2>5, Numbers DEF ReplaceAsset
    <3>3. [x EXCEPT !.id = nextId] \in Asset
      BY <3>2 DEF Release, Asset
    <3>4. [r EXCEPT !.assets = (@ \ {x}) \cup {[x EXCEPT !.id = nextId]}] \in Release
      BY <3>2, <3>3 DEF Release
    <3>5. nextId' \in 1..MaxId + 1 /\ tagMoved' \in BOOLEAN
      BY <1>2, <2>5, Numbers DEF ReplaceAsset
    <3> QED
      BY <1>2, <3>1, <3>4, <3>5 DEF PageTypeOK
  <2> QED
    BY <2>1, <2>2, <2>3, <2>4, <2>5, Zenon DEF ForeignStep
<1> QED
  BY <1>1, <1>3, Zenon DEF HostTypeOK, PageTypeOK

(* No two releases have one identifier, and the counter is past them all.  *)
IdsOwned == \A r \in releases : r.id < nextId /\ \A s \in releases : r.id = s.id => r = s

(* A release changes under its identifier, one arrives, or one goes. *)
LEMMA IdsKept ==
  ASSUME HostTypeOK, IdsOwned, nextId' \in {nextId, nextId + 1},
         \/ \E r \in releases : \E s : s.id = r.id /\ releases' = (releases \ {r}) \cup {s}
         \/ \E s : s.id = nextId /\ nextId' = nextId + 1 /\ releases' = releases \cup {s}
         \/ releases' \subseteq releases
  PROVE  IdsOwned'
<1>1. nextId \in Nat /\ \A r \in releases : r.id \in Nat
  BY Numbers DEF HostTypeOK, Release
<1>2. ASSUME NEW r \in releases, NEW s, s.id = r.id, releases' = (releases \ {r}) \cup {s}
      PROVE  IdsOwned'
  BY <1>1, <1>2 DEF IdsOwned
<1>3. ASSUME NEW s, s.id = nextId, nextId' = nextId + 1, releases' = releases \cup {s}
      PROVE  IdsOwned'
  BY <1>1, <1>3 DEF IdsOwned
<1>4. CASE releases' \subseteq releases
  BY <1>1, <1>4 DEF IdsOwned
<1> QED
  BY <1>2, <1>3, <1>4

(* Whoever changes the page, identifiers stay what they are. *)
LEMMA IdsStay == ASSUME HostTypeOK, IdsOwned, HostStep \/ ForeignStep PROVE IdsOwned'
<1>0. releases \in SUBSET Release /\ nextId \in Nat
  BY Numbers DEF HostTypeOK
<1>1. CASE HostStep
  <2>1. PICK q \in wire : LandCreate(q) \/ LandUpload(q) \/ LandPublish(q) \/ LandDelete(q) \/ Refuse(q)
    BY <1>1 DEF HostStep
  <2>2. CASE LandCreate(q)
    <3> DEFINE s == [id |-> nextId, draft |-> TRUE, text |-> "planned", assets |-> {}]
    <3>1. s.id = nextId /\ nextId' = nextId + 1 /\ releases' = releases \cup {s}
      BY <2>2 DEF LandCreate, Settle
    <3> HIDE DEF s
    <3> QED BY <3>1, IdsKept
  <2>3. CASE LandUpload(q)
    <3>1. PICK kind, reply : StoreAsset(q, kind, reply)
      BY <2>3 DEF LandUpload
    <3>2. PICK r \in WithId(q.rel) :
            Settle(q, (releases \ {r}) \cup
                        {[r EXCEPT !.assets = @ \cup {[id |-> nextId, name |-> q.name, kind |-> kind]}]},
                   1, [is |-> reply, id |-> q.rel])
      BY <3>1 DEF StoreAsset
    <3> DEFINE s == [r EXCEPT !.assets = @ \cup {[id |-> nextId, name |-> q.name, kind |-> kind]}]
    <3>3. r \in releases /\ s.id = r.id
      BY <1>0, <3>2 DEF WithId, Release
    <3>4. nextId' = nextId + 1 /\ releases' = (releases \ {r}) \cup {s}
      BY <3>2 DEF Settle
    <3> HIDE DEF s
    <3> QED BY <3>3, <3>4, IdsKept
  <2>4. CASE LandPublish(q)
    <3>1. PICK r \in WithId(q.rel) :
            Settle(q, (releases \ {r}) \cup {[r EXCEPT !.draft = FALSE, !.text = "planned"]},
                   0, [is |-> "ok", id |-> q.rel])
      BY <2>4 DEF LandPublish
    <3> DEFINE s == [r EXCEPT !.draft = FALSE, !.text = "planned"]
    <3>2. r \in releases /\ s.id = r.id
      BY <1>0, <3>1 DEF WithId, Release
    <3>3. nextId' = nextId /\ releases' = (releases \ {r}) \cup {s}
      BY <1>0, <3>1 DEF Settle
    <3> HIDE DEF s
    <3> QED BY <3>2, <3>3, IdsKept
  <2>5. CASE LandDelete(q)
    <3>1. PICK r \in releases : \E x \in r.assets :
            Settle(q, (releases \ {r}) \cup {[r EXCEPT !.assets = @ \ {x}]}, 0, [is |-> "ok", id |-> q.rel])
      BY <2>5, Zenon DEF LandDelete
    <3>2. PICK x \in r.assets :
            Settle(q, (releases \ {r}) \cup {[r EXCEPT !.assets = @ \ {x}]}, 0, [is |-> "ok", id |-> q.rel])
      BY <3>1
    <3> DEFINE s == [r EXCEPT !.assets = @ \ {x}]
    <3>3. s.id = r.id
      BY <1>0 DEF Release
    <3>4. nextId' = nextId /\ releases' = (releases \ {r}) \cup {s}
      BY <1>0, <3>2 DEF Settle
    <3> HIDE DEF s
    <3> QED BY <3>3, <3>4, IdsKept
  <2>6. CASE Refuse(q)
    BY <1>0, <2>6, IdsKept DEF Refuse, Settle
  <2> QED BY <2>1, <2>2, <2>3, <2>4, <2>5, <2>6
<1>2. CASE ForeignStep
  <2>1. CASE OtherDraft
    <3> DEFINE s == [id |-> nextId, draft |-> TRUE, text |-> "edited", assets |-> {}]
    <3>1. s.id = nextId /\ nextId' = nextId + 1 /\ releases' = releases \cup {s}
      BY <2>1 DEF OtherDraft
    <3> HIDE DEF s
    <3> QED BY <3>1, IdsKept
  <2>2. CASE MoveTag
    BY <2>2, IdsKept DEF MoveTag
  <2>3. ASSUME NEW r \in releases, RemoveRelease(r) PROVE IdsOwned'
    <3>1. releases' \subseteq releases /\ nextId' = nextId
      BY <2>3 DEF RemoveRelease
    <3> QED BY <3>1, IdsKept
  <2>4. ASSUME NEW r \in releases, EditText(r) \/ PublishByHand(r) \/ DropAsset(r) \/ AddAsset(r) \/ ReplaceAsset(r)
        PROVE  IdsOwned'
    <3>1. r \in Release
      BY <1>0
    <3>2. /\ [r EXCEPT !.text = "edited"].id = r.id /\ [r EXCEPT !.draft = FALSE].id = r.id
          /\ \A A : [r EXCEPT !.assets = A].id = r.id
      BY <3>1 DEF Release
    <3>3. nextId' \in {nextId, nextId + 1}
      BY <2>4 DEF EditText, PublishByHand, DropAsset, AddAsset, ReplaceAsset
    <3>4. \E s : s.id = r.id /\ releases' = (releases \ {r}) \cup {s}
      <4>1. CASE EditText(r)
        BY <3>2, <4>1 DEF EditText
      <4>2. CASE PublishByHand(r)
        BY <3>2, <4>2 DEF PublishByHand
      <4>3. CASE DropAsset(r) \/ AddAsset(r) \/ ReplaceAsset(r)
        <5>1. PICK A : releases' = (releases \ {r}) \cup {[r EXCEPT !.assets = A]}
          BY <4>3 DEF DropAsset, AddAsset, ReplaceAsset
        <5> QED BY <3>2, <5>1
      <4> QED BY <2>4, <4>1, <4>2, <4>3
    <3> QED BY <3>3, <3>4, IdsKept
  <2> QED BY <1>2, <2>1, <2>2, <2>3, <2>4, Zenon DEF ForeignStep
<1> QED
  BY <1>1, <1>2

(* The host settles one request.  Unless somebody still waits for it, that *)
(* disturbs a readback, and the answer is not touched.                     *)
LEMMA HostSettles ==
  ASSUME HostStep
  PROVE  \E q \in wire : /\ LandCreate(q) \/ LandUpload(q) \/ LandPublish(q) \/ LandDelete(q) \/ Refuse(q)
                         /\ wire' = wire \ {q} /\ disturbed' = (disturbed \/ ~q.live)
                         /\ (~q.live => answer' = answer) /\ UNCHANGED <<tagMoved, look>>
<1>1. PICK q \in wire : LandCreate(q) \/ LandUpload(q) \/ LandPublish(q) \/ LandDelete(q) \/ Refuse(q)
  BY DEF HostStep
<1>2. \E page, ids, reply : Settle(q, page, ids, reply)
  BY <1>1 DEF LandCreate, LandUpload, StoreAsset, LandPublish, LandDelete, Refuse
<1> QED
  BY <1>1, <1>2 DEF Settle

(* One request at most is waited for, and only until its answer is there.  *)
OneWaited ==
  /\ \A q \in wire : q.live => pc = "wait" /\ \A p \in wire : p.live => p = q
  /\ answer.is = "ok" => \A q \in wire : ~q.live

(* Nobody waits for an abandoned request (Abandon). *)
LEMMA NobodyWaits == ASSUME HostTypeOK, Abandon PROVE OneWaited' /\ \A q \in wire' : ~q.live
<1>1. ASSUME NEW q \in wire' PROVE ~q.live
  <2>1. PICK p \in wire : q = [p EXCEPT !.live = FALSE]
    BY DEF Abandon
  <2>2. p \in Request
    BY DEF HostTypeOK
  <2> QED
    BY <2>1, <2>2 DEF Request
<1> QED
  BY <1>1 DEF OneWaited

(* The four ways on in a readback, and its beginning (publication_github.go *)
(* inspect): what has been seen so far always is of the page.               *)
LEMMA LookTypes ==
  ASSUME HostTypeOK, NEW id, NEW draft, NEW names,
         \/ ReadList \/ ReadFails \/ ReadDirect(id, draft) \/ ReadAssets(id, names) \/ BeginLook
         \/ look' \in {NoLook, Refused} \/ look' = [look EXCEPT !.at = "done"]
  PROVE  look' \in Look
<1>0. look \in Look /\ releases \in SUBSET Release
  BY DEF HostTypeOK
<1>1. NoLook \in Look /\ Refused \in Look /\ [NoLook EXCEPT !.at = "list"] \in Look
  BY DEF Look, NoLook, Refused
<1>2. \A at \in {"direct", "assets", "done"} : [look EXCEPT !.at = at] \in Look
  BY <1>0 DEF Look
<1>3. CASE ReadList
  <2>1. PICK hidden \in SUBSET {r \in releases : r.draft} :
          look' = IF tagMoved \/ Cardinality({Meta(r) : r \in releases \ hidden}) > 1 THEN Refused
                  ELSE [look EXCEPT !.at = "direct", !.seen = {Meta(r) : r \in releases \ hidden}]
    BY <1>3, Zenon DEF ReadList
  <2> DEFINE listed == {Meta(r) : r \in releases \ hidden}
  <2>2. listed \in SUBSET [id : 1..MaxId, draft : BOOLEAN, text : {"planned", "edited"}]
    BY <1>0 DEF Meta, Release
  <2>3. look' \in {Refused, [look EXCEPT !.at = "direct", !.seen = listed]}
    BY <2>1, Zenon
  <2> HIDE DEF listed
  <2>4. [look EXCEPT !.at = "direct", !.seen = listed] \in Look
    BY <1>0, <2>2 DEF Look
  <2> QED
    BY <1>1, <2>3, <2>4, Zenon
<1>4. CASE ReadAssets(id, names)
  <2>1. AssetsOf(id) \in SUBSET Asset
    BY <1>0 DEF AssetsOf, WithId, Release
  <2>2. look' \in {Refused, [look EXCEPT !.at = "done", !.found = AssetsOf(id)]}
    BY <1>4, Zenon DEF ReadAssets
  <2>3. [look EXCEPT !.at = "done", !.found = AssetsOf(id)] \in Look
    BY <1>0, <2>1 DEF Look
  <2> QED
    BY <1>1, <2>2, <2>3, Zenon
<1>5. CASE ReadDirect(id, draft)
  <2>1. look' \in {Refused, [look EXCEPT !.at = "assets"]}
    BY <1>5, Zenon DEF ReadDirect
  <2> QED
    BY <1>1, <1>2, <2>1, Zenon
<1> QED
  BY <1>1, <1>2, <1>3, <1>4, <1>5, Zenon DEF ReadFails, BeginLook

(* Nobody waits for an abandoned request any more, but it is still one. *)
LEMMA AbandonTypes ==
  ASSUME HostTypeOK, Abandon
  PROVE  wire' \in SUBSET Request /\ answer' \in Answer
<1>1. \A q \in Request : [q EXCEPT !.live = FALSE] \in Request
  BY DEF Request
<1>2. wire \in SUBSET Request /\ 0 \in 0..MaxId
  BY Numbers DEF HostTypeOK
<1> QED
  BY <1>1, <1>2 DEF Abandon, NoAnswer, Answer

(* A new request on the wire. *)
LEMMA DispatchTypes ==
  ASSUME HostTypeOK, NEW q \in Request, Dispatch(q)
  PROVE  wire' \in SUBSET Request /\ answer' \in Answer
<1>1. wire \in SUBSET Request /\ 0 \in 0..MaxId
  BY Numbers DEF HostTypeOK
<1> QED
  BY <1>1 DEF Dispatch, NoAnswer, Answer

(* Steps that do not touch the host keep its types. *)
LEMMA HostStays == HostTypeOK /\ UNCHANGED hostVars => HostTypeOK'
  BY Zenon DEF HostTypeOK, hostVars, pageVars, Release, Request, Asset, Look

(* Nor do steps that only work on the readback. *)
LEMMA LookMoves ==
  ASSUME HostTypeOK, UNCHANGED <<pageVars, foreign, wire, answer>>, look' \in Look, disturbed' \in BOOLEAN
  PROVE  HostTypeOK'
  BY Zenon DEF HostTypeOK, pageVars

(* Nor do steps that send, drop or forget a request. *)
LEMMA WireMoves ==
  ASSUME HostTypeOK, UNCHANGED <<pageVars, foreign, disturbed>>, look' \in Look,
         wire' \in SUBSET Request, answer' \in Answer
  PROVE  HostTypeOK'
  BY Zenon DEF HostTypeOK, pageVars, Answer

-----------------------------------------------------------------------------
(* The history. *)

(* What a step may do to the ledger. *)
LedgerStep == (\E a \in Approvals : Ledger!Announce(a) \/ Ledger!Send(a)) \/ UNCHANGED ledgerVars


(* A step that leaves history, approval and ledger alone, and the journal  *)
(* open if it is, keeps the history sound.                                 *)
LEMMA HistoryStays ==
  ASSUME HistorySound, UNCHANGED <<historyVars, appr, ledgerVars>>,
         attempt' = attempt, opened => opened', pc # "idle" \/ pc' = pc
  PROVE  HistorySound'
  BY Zenon DEF HistorySound, historyVars, ledgerVars

(* Dispatching, starting and re-running (DispatchRun, StartRun,            *)
(* RerunAttempt): the first run of an approval finds nothing written.      *)
LEMMA HistoryGrows ==
  ASSUME RunTypeOK, HistorySound, NEW a \in Approvals, DispatchRun(a) \/ StartRun(a) \/ RerunAttempt
  PROVE  RunTypeOK' /\ HistorySound'
<1>0. /\ dispatched \in [Approvals -> Nat] /\ started \in [Approvals -> Nat] /\ appr \in Approvals
      /\ written \in [Approvals -> 0..Final] /\ 1 \in Intents /\ \A n \in 0..Final : n \in Nat
  BY Numbers DEF RunTypeOK, Intents
<1>1. CASE DispatchRun(a)
  <2>1. RunTypeOK'
    BY <1>0, <1>1 DEF RunTypeOK, DispatchRun, ledgerVars, Ended, Working
  <2>2. \A b \in Approvals : started'[b] <= dispatched'[b]
    BY <1>0, <1>1 DEF HistorySound, DispatchRun
  <2> QED
    BY <1>1, <2>1, <2>2 DEF HistorySound, DispatchRun, ledgerVars
<1>2. CASE StartRun(a)
  <2>1. RunTypeOK'
    <3>1. pc' \in Working /\ appr' \in Approvals /\ attempt' \in 1..2
      BY <1>2 DEF StartRun, FreshRunner, Working
    <3>2. started' \in [Approvals -> Nat] /\ UNCHANGED <<dispatched, written, sent>>
      BY <1>0, <1>2 DEF StartRun, FreshRunner, ledgerVars
    <3>3. stage' \in Intents /\ opened' \in BOOLEAN
      BY <1>0, <1>2 DEF StartRun, FreshRunner
    <3> QED
      BY <3>1, <3>2, <3>3, Zenon DEF RunTypeOK
  <2>2. \A b \in Approvals : started'[b] <= dispatched'[b] /\ started'[b] >= started[b]
    BY <1>0, <1>2 DEF HistorySound, StartRun, FreshRunner
  <2>3. started'[a] = started[a] + 1 /\ started'[a] > 0 /\ appr' = a
    BY <1>0, <1>2 DEF StartRun
  <2>4. started'[a] = 1 => ~(written'[a] > 0)
    BY <1>0, <1>2, <2>3 DEF HistorySound, StartRun, FreshRunner, ledgerVars
  <2>5. \A b \in Approvals : /\ written'[b] > 0 => started'[b] > 0
                             /\ \A i \in Intents : sent'[b][i] > 0 => i <= written'[b]
    BY <1>0, <1>2, <2>2 DEF HistorySound, StartRun, FreshRunner, ledgerVars
  <2> QED
    BY <2>1, <2>2, <2>3, <2>4, <2>5, Zenon DEF HistorySound
<1>3. CASE RerunAttempt
  <2>1. RunTypeOK'
    <3>1. pc' \in Working /\ attempt' \in 1..2
      BY <1>3 DEF RerunAttempt, FreshRunner, Working
    <3>2. UNCHANGED <<dispatched, started, appr, written, sent>>
      BY <1>3 DEF RerunAttempt, FreshRunner, ledgerVars
    <3>3. stage' \in Intents /\ opened' \in BOOLEAN
      BY <1>0, <1>3 DEF RerunAttempt, FreshRunner
    <3> QED
      BY <3>1, <3>2, <3>3, Zenon DEF RunTypeOK
  <2>2. pc # "idle" /\ attempt' = 2 /\ UNCHANGED <<historyVars, appr, ledgerVars>>
    BY <1>3 DEF RerunAttempt, FreshRunner, historyVars
  <2>3. attempt' # 1
    BY <2>2
  <2> QED
    BY <2>1, <2>2, <2>3, Zenon DEF HistorySound, historyVars, ledgerVars
<1> QED
  BY <1>1, <1>2, <1>3

(* Writing the next intent keeps the history sound and is one step of the  *)
(* promise (WriteIntent).                                                  *)
LEMMA IntentWritten ==
  ASSUME RunTypeOK, HistorySound, WriteIntent, written[appr] = stage - 1, opened, opened',
         pc # "idle", UNCHANGED <<historyVars, appr, attempt>>
  PROVE  /\ HistorySound' /\ written' \in [Approvals -> 0..Final] /\ written'[appr] = stage
         /\ Ledger!Announce(appr)
<1>0. /\ started \in [Approvals -> Nat] /\ appr \in Approvals /\ stage \in 1..Final /\ stage \in Nat
      /\ written \in [Approvals -> 0..Final] /\ \A n \in 0..Final : n \in Nat
  BY Numbers DEF RunTypeOK, Intents
<1>1. written' = [written EXCEPT ![appr] = stage] /\ sent' = sent
  BY DEF WriteIntent
<1>2. written' \in [Approvals -> 0..Final] /\ written'[appr] = stage
  BY <1>0, <1>1, Numbers
<1>3. Ledger!Announce(appr)
  BY <1>0, <1>1, Numbers DEF Ledger!Announce
<1>4. \A a \in Approvals : /\ written'[a] > 0 => started[a] > 0
                           /\ \A i \in Intents : sent[a][i] > 0 => i <= written'[a]
  BY <1>0, <1>1, Numbers DEF HistorySound, Intents
<1> QED
  BY <1>1, <1>2, <1>3, <1>4, Zenon DEF HistorySound, historyVars

(* Sending the request of the last intent, for the first time, keeps the   *)
(* history sound and is one step of the promise (SendRequest).             *)
LEMMA RequestSent ==
  ASSUME RunTypeOK, HistorySound, NEW q, SendRequest(q), written[appr] = stage, sent[appr][stage] = 0
  PROVE  /\ HistorySound' /\ sent' \in [Approvals -> [Intents -> Nat]]
         /\ Ledger!Send(appr)
<1>0. /\ appr \in Approvals /\ stage \in Intents /\ stage \in Nat /\ stage > 0
      /\ written \in [Approvals -> 0..Final] /\ sent \in [Approvals -> [Intents -> Nat]]
      /\ \A n \in 0..Final : n \in Nat
  BY Numbers DEF RunTypeOK, Intents
<1>1. /\ sent' = [sent EXCEPT ![appr][stage] = @ + 1] /\ pc = "send"
      /\ UNCHANGED <<historyVars, appr, attempt, opened, written>>
  BY DEF SendRequest, Goto
<1>2. sent' \in [Approvals -> [Intents -> Nat]] /\ sent' = [sent EXCEPT ![appr][stage] = 1]
  BY <1>0, <1>1
<1>3. Ledger!Send(appr)
  BY <1>0, <1>1, <1>2 DEF Ledger!Send
<1>4. \A a \in Approvals : \A i \in Intents : sent'[a][i] > 0 => i <= written[a]
  BY <1>0, <1>2, Numbers DEF HistorySound, Intents
<1> QED
  BY <1>1, <1>2, <1>3, <1>4, Zenon DEF HistorySound, historyVars
=============================================================================
