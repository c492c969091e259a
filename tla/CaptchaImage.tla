----------------------------- MODULE CaptchaImage -----------------------------
(***************************************************************************)
(* One CAPTCHA image (internal/captcha: generator.go GenerateMultiCharacter*)
(* and Upload, placement.go) as CaptchaHandler.generateCaptchaImage makes  *)
(* it: files come from S3 one by one, characters are placed at random where*)
(* they hit no other, the target last, and any step may fail.  The picture *)
(* is the set of places of its characters; positions are pixels.           *)
(***************************************************************************)
EXTENDS Integers, FiniteSets

CONSTANTS
  Backgrounds,     \* sizes <<width, height>> of the background files
  MaxKeys,         \* bound: character files in the bucket
  CharacterSize,   \* 50 in the code
  DummiesPerType,  \* 30 in the code
  Tolerance        \* 25 in the code: of CaptchaHandler

ASSUME SizesArePositive ==
  /\ Backgrounds \subseteq (Nat \X Nat)
  /\ MaxKeys \in Nat /\ DummiesPerType \in Nat
  /\ CharacterSize \in Nat \ {0}
ASSUME ToleranceIsHalf == Tolerance \in Nat /\ 2 * Tolerance <= CharacterSize

MinTypes == 4

VARIABLES
  pc,        \* what comes next
  bg,        \* the size of the background
  keys,      \* how many character files the bucket lists
  fetched,   \* how many of them have been read
  kind,      \* dummy types finished
  placed,    \* dummies of the current type
  dummies,   \* PlacementManager.placements, before the target's
  target     \* the places of the target: none or one

vars == <<pc, bg, keys, fetched, kind, placed, dummies, target>>

None == <<0, 0>>

Init ==
  /\ pc = "background" /\ bg = None /\ keys = 0 /\ fetched = 0
  /\ kind = 0 /\ placed = 0 /\ dummies = {} /\ target = {}

Step(here, next) == pc = here /\ pc' = next

(* Every error ends the handler; what was drawn is thrown away.            *)
Fail ==
  /\ pc' = "failed"
  /\ bg' = None /\ keys' = 0 /\ fetched' = 0
  /\ kind' = 0 /\ placed' = 0 /\ dummies' = {} /\ target' = {}

-----------------------------------------------------------------------------
(* placement.go                                                            *)

(* Wrong on purpose: only characters side by side are seen.                *)
SameRow(p, q) == p[2] = q[2] /\ p[1] - q[1] \in (1 - CharacterSize)..(CharacterSize - 1)

(* Placement.Intersects, of squares: image.Rectangle is half open.         *)
Intersects(p, q) ==
  \A axis \in {1, 2} : p[axis] - q[axis] \in (1 - CharacterSize)..(CharacterSize - 1)

hasCollision(p) == \E q \in dummies : Intersects(p, q)

(* What rand.Intn(maxX), rand.Intn(maxY) can draw: never the last column   *)
(* and row where a character would fit, and nothing when maxX or maxY is 0.*)
Candidates == (0..(bg[1] - CharacterSize - 1)) \X (0..(bg[2] - CharacterSize - 1))

(* TryPlace succeeds at any candidate without a collision, and may fail    *)
(* when there is no candidate, or one that all of its retries may draw.    *)
TryPlace(p) == p \in Candidates /\ ~hasCollision(p)
TryPlaceFails == Candidates = {} \/ \E p \in Candidates : hasCollision(p)

-----------------------------------------------------------------------------
(* generator.go                                                            *)

getRandomBackgroundImage ==
  /\ Step("background", "list")
  /\ bg' \in Backgrounds
  /\ UNCHANGED <<keys, fetched, kind, placed, dummies, target>>

BackgroundFails == pc = "background" /\ Fail

ListCharacters ==
  /\ Step("list", "characters")
  /\ keys' \in 0..MaxKeys
  /\ UNCHANGED <<bg, fetched, kind, placed, dummies, target>>

(* Wrong on purpose: reads past the end of the listing.                    *)
ReadOneTooMany ==
  /\ Step("characters", "characters")
  /\ fetched <= keys
  /\ fetched' = fetched + 1
  /\ UNCHANGED <<bg, keys, kind, placed, dummies, target>>

ReadCharacter ==
  /\ Step("characters", "characters")
  /\ fetched < keys
  /\ fetched' = fetched + 1
  /\ UNCHANGED <<bg, keys, kind, placed, dummies, target>>

(* The listing, or the reading or decoding of one file: all are lost.      *)
CharactersFail ==
  /\ pc = "list" \/ (pc = "characters" /\ fetched < keys)
  /\ Fail

(* One of them is drawn to be the target, the others are dummy types.      *)
EnoughCharacters ==
  /\ Step("characters", "dummies")
  /\ fetched = keys /\ keys >= MinTypes
  /\ UNCHANGED <<bg, keys, fetched, kind, placed, dummies, target>>

TooFewCharacters ==
  /\ pc = "characters" /\ fetched = keys /\ keys < MinTypes
  /\ Fail

MoreDummies == pc = "dummies" /\ kind < keys - 1

PlaceDummy ==
  /\ MoreDummies /\ placed < DummiesPerType
  /\ \E p \in Candidates : TryPlace(p) /\ dummies' = dummies \cup {p}
  /\ placed' = placed + 1
  /\ UNCHANGED <<pc, bg, keys, fetched, kind, target>>

NextType ==
  /\ kind' = kind + 1 /\ placed' = 0
  /\ UNCHANGED <<pc, bg, keys, fetched, dummies, target>>

TypeComplete == MoreDummies /\ placed = DummiesPerType /\ NextType

(* Wrong on purpose: the type is tried for again, and again.               *)
KeepTrying == MoreDummies /\ placed < DummiesPerType /\ TryPlaceFails /\ UNCHANGED vars

(* One failure gives up the rest of the type, not the types that follow.   *)
GiveUpType == MoreDummies /\ placed < DummiesPerType /\ TryPlaceFails /\ NextType

DummiesDone ==
  /\ kind = keys - 1
  /\ Step("dummies", "target")
  /\ UNCHANGED <<bg, keys, fetched, kind, placed, dummies, target>>

PlaceTarget ==
  /\ Step("target", "upload")
  /\ \E p \in Candidates : TryPlace(p) /\ target' = {p}
  /\ UNCHANGED <<bg, keys, fetched, kind, placed, dummies>>

TargetFails == pc = "target" /\ TryPlaceFails /\ Fail

Upload ==
  /\ Step("upload", "done")
  /\ UNCHANGED <<bg, keys, fetched, kind, placed, dummies, target>>

UploadFails == pc = "upload" /\ Fail

Next ==
  \/ getRandomBackgroundImage \/ BackgroundFails
  \/ ListCharacters \/ ReadCharacter \/ CharactersFail
  \/ EnoughCharacters \/ TooFewCharacters
  \/ PlaceDummy \/ TypeComplete \/ GiveUpType \/ DummiesDone
  \/ PlaceTarget \/ TargetFails \/ Upload \/ UploadFails

(* The handler's goroutine runs on; S3 answers or fails.                   *)
Spec == Init /\ [][Next]_vars /\ WF_vars(Next)

-----------------------------------------------------------------------------
(* What is done with the image                                             *)

(* Wrong on purpose: the click is measured from the corner of the target.  *)
Corner(p) == p

(* CaptchaTargetX, CaptchaTargetY.                                         *)
Center(p) == <<p[1] + CharacterSize \div 2, p[2] + CharacterSize \div 2>>

(* CaptchaHandler.Verify: the click is within the tolerance of the target. *)
Accepted(click, p) ==
  LET dx == click[1] - Center(p)[1]
      dy == click[2] - Center(p)[2]
  IN  dx * dx + dy * dy <= Tolerance * Tolerance

-----------------------------------------------------------------------------
(* Every variable holds what its declaration says.                         *)
TypeOK ==
  /\ pc \in {"background", "list", "characters", "dummies", "target", "upload",
             "done", "failed"}
  /\ bg \in Backgrounds \cup {None}
  /\ keys \in 0..MaxKeys /\ fetched \in 0..keys
  /\ kind \in 0..MaxKeys /\ placed \in 0..DummiesPerType
  /\ dummies \subseteq Candidates /\ target \subseteq Candidates

Pixels(p) ==
  (p[1]..(p[1] + CharacterSize - 1)) \X (p[2]..(p[2] + CharacterSize - 1))

(* Characters share no pixel, whatever was given up before: no dummy hides *)
(* another, and the target, placed last, hides none.                       *)
NothingOverlaps ==
  /\ \A p, q \in dummies : p # q => Pixels(p) \cap Pixels(q) = {}
  /\ \A p \in target, q \in dummies : Pixels(p) \cap Pixels(q) = {}

(* No click that lands on a dummy solves the CAPTCHA, unless it is as far  *)
(* from the centre as the tolerance allows: one pixel beyond the square.   *)
DummiesRefused ==
  \A p \in target, d \in dummies :
    \A click \in Pixels(d) :
      Accepted(click, p) =>
        \E axis \in {1, 2} : click[axis] = Center(p)[axis] + Tolerance

(* Whatever S3 answers and the draws yield, the handler gets an image with *)
(* one target, among dummies, or an error.                                 *)
EverFinishes ==
  <>((pc = "done" /\ Cardinality(target) = 1 /\ dummies # {}) \/ pc = "failed")
=============================================================================
