-------------------------- MODULE CaptchaImageProofs --------------------------
(***************************************************************************)
(* The geometry of CaptchaImage for every size of background, character    *)
(* and bucket: characters share no pixel, and an accepted click is not on  *)
(* a dummy, whatever the draws and the failures were.                      *)
(***************************************************************************)
EXTENDS CaptchaImage, TLAPS

Place == Int \X Int

(* Two places do not meet exactly when an axis separates them.             *)
LEMMA ApartOnAnAxis ==
  ASSUME NEW p \in Place, NEW q \in Place, ~Intersects(p, q)
  PROVE  \E axis \in {1, 2} :
           p[axis] - q[axis] >= CharacterSize \/ q[axis] - p[axis] >= CharacterSize
<1>1. PICK axis \in {1, 2} : p[axis] - q[axis] \notin (1 - CharacterSize)..(CharacterSize - 1)
  BY DEF Intersects
<1>2. p[axis] \in Int /\ q[axis] \in Int
  BY DEF Place
<1>3. CharacterSize \in Int
  BY SizesArePositive
<1>4. p[axis] - q[axis] < 1 - CharacterSize \/ p[axis] - q[axis] > CharacterSize - 1
  BY <1>1, <1>2, <1>3
<1> QED
  BY <1>2, <1>3, <1>4

(* ... and then they share no pixel.                                       *)
LEMMA ApartShareNoPixel ==
  ASSUME NEW p \in Place, NEW q \in Place, ~Intersects(p, q)
  PROVE  Pixels(p) \cap Pixels(q) = {}
<1> SUFFICES ASSUME NEW c \in Pixels(p), c \in Pixels(q) PROVE FALSE
  OBVIOUS
<1>1. PICK axis \in {1, 2} :
        p[axis] - q[axis] >= CharacterSize \/ q[axis] - p[axis] >= CharacterSize
  BY ApartOnAnAxis
<1>2. /\ p[axis] \in Int /\ q[axis] \in Int /\ CharacterSize \in Int
      /\ c[axis] \in p[axis]..(p[axis] + CharacterSize - 1)
      /\ c[axis] \in q[axis]..(q[axis] + CharacterSize - 1)
  BY SizesArePositive DEF Pixels, Place
<1> QED
  BY <1>1, <1>2

(* The tolerance bounds each axis of an accepted click.                    *)
LEMMA SquaresBound ==
  ASSUME NEW x \in Int, NEW y \in Int, NEW t \in Nat, x * x + y * y <= t * t
  PROVE  x <= t /\ -t <= x
<1>1. y * y >= 0
  OBVIOUS
<1>2. x * x <= t * t
  BY <1>1
<1>3. ~(x > t)
  <2>1. x > t => x * x > t * t
    OBVIOUS
  <2> QED BY <1>2, <2>1
<1>4. ~(x < -t)
  <2>1. x < -t => x * x > t * t
    OBVIOUS
  <2> QED BY <1>2, <2>1
<1> QED
  BY <1>3, <1>4

LEMMA AcceptedIsNear ==
  ASSUME NEW p \in Place, NEW click \in Place, Accepted(click, p), NEW axis \in {1, 2}
  PROVE  /\ click[axis] - Center(p)[axis] <= Tolerance
         /\ -Tolerance <= click[axis] - Center(p)[axis]
<1> DEFINE dx == click[1] - Center(p)[1]
           dy == click[2] - Center(p)[2]
<1>1. CharacterSize \in Int /\ CharacterSize \div 2 \in Int /\ Tolerance \in Nat
  BY SizesArePositive, ToleranceIsHalf
<1>2. dx \in Int /\ dy \in Int
  BY <1>1 DEF Center, Place
<1>3. dx * dx + dy * dy <= Tolerance * Tolerance
  BY DEF Accepted
<1>4. dy * dy + dx * dx <= Tolerance * Tolerance
  <2>1. dx * dx \in Int /\ dy * dy \in Int
    BY <1>2
  <2> QED BY <1>3, <2>1
<1> HIDE DEF dx, dy
<1>5. dx <= Tolerance /\ -Tolerance <= dx
  BY <1>1, <1>2, <1>3, SquaresBound
<1>6. dy <= Tolerance /\ -Tolerance <= dy
  BY <1>1, <1>2, <1>4, SquaresBound
<1> QED
  BY <1>5, <1>6 DEF dx, dy

(* A click on a dummy that the target does not meet is accepted at most at *)
(* the distance of the tolerance.                                          *)
LEMMA RefusedOnDummies ==
  ASSUME NEW p \in Place, NEW d \in Place, ~Intersects(p, d),
         NEW click \in Pixels(d), Accepted(click, p)
  PROVE  \E axis \in {1, 2} : click[axis] = Center(p)[axis] + Tolerance
<1>1. PICK axis \in {1, 2} :
        p[axis] - d[axis] >= CharacterSize \/ d[axis] - p[axis] >= CharacterSize
  BY ApartOnAnAxis
<1> DEFINE half == CharacterSize \div 2
<1>2. /\ CharacterSize \in Int /\ half \in Int /\ Tolerance \in Int
      /\ Tolerance <= half /\ Tolerance <= CharacterSize - half
  BY SizesArePositive, ToleranceIsHalf
<1>3. /\ p[axis] \in Int /\ d[axis] \in Int
      /\ click[axis] \in d[axis]..(d[axis] + CharacterSize - 1)
      /\ Center(p)[axis] = p[axis] + half
      /\ click \in Place
  BY <1>2 DEF Place, Pixels, Center
<1>4. /\ click[axis] - Center(p)[axis] <= Tolerance
      /\ -Tolerance <= click[axis] - Center(p)[axis]
  BY <1>3, AcceptedIsNear
<1> HIDE DEF half
<1>5. click[axis] = Center(p)[axis] + Tolerance
  BY <1>1, <1>2, <1>3, <1>4
<1> QED
  BY <1>5

-----------------------------------------------------------------------------
(* The characters placed so far are apart, and the target is the last.     *)
Apart ==
  /\ dummies \subseteq Place /\ target \subseteq Place
  /\ \A p, q \in dummies : p # q => ~Intersects(p, q)
  /\ \A p \in target, q \in dummies : ~Intersects(p, q)
  /\ pc \in {"background", "list", "characters", "dummies", "target"} => target = {}

(* It does not matter in which order two places are compared.              *)
LEMMA IntersectsIsSymmetric ==
  ASSUME NEW p \in Place, NEW q \in Place
  PROVE  Intersects(p, q) <=> Intersects(q, p)
<1>1. /\ CharacterSize \in Int
      /\ p[1] \in Int /\ p[2] \in Int /\ q[1] \in Int /\ q[2] \in Int
  BY SizesArePositive DEF Place
<1>2. \A axis \in {1, 2} :
        p[axis] - q[axis] \in (1 - CharacterSize)..(CharacterSize - 1)
          <=> q[axis] - p[axis] \in (1 - CharacterSize)..(CharacterSize - 1)
  BY <1>1
<1> QED
  BY <1>2 DEF Intersects

LEMMA CandidatesArePlaces == Candidates \subseteq Place
BY DEF Candidates, Place

LEMMA ApartInit == Init => Apart
BY DEF Init, Apart

LEMMA ApartNext == Apart /\ [Next]_vars => Apart'
<1> SUFFICES ASSUME Apart, [Next]_vars PROVE Apart'
  OBVIOUS
<1> USE DEF Apart
<1>1. ASSUME Fail PROVE Apart'
  BY <1>1 DEF Fail
<1>2. ASSUME UNCHANGED <<dummies, target>>,
             pc' \in {"background", "list", "characters", "dummies", "target"}
               => pc \in {"background", "list", "characters", "dummies", "target"}
      PROVE  Apart'
  BY <1>2 DEF Intersects
<1>3. CASE PlaceDummy
  <2>1. PICK p \in Candidates : TryPlace(p) /\ dummies' = dummies \cup {p}
    BY <1>3 DEF PlaceDummy
  <2>2. p \in Place /\ \A q \in dummies : ~Intersects(p, q) /\ ~Intersects(q, p)
    BY <2>1, CandidatesArePlaces, IntersectsIsSymmetric DEF TryPlace, hasCollision
  <2>3. target = {} /\ target' = {}
    BY <1>3 DEF PlaceDummy, MoreDummies
  <2>4. \A r, q \in dummies' : r # q => ~Intersects(r, q)
    BY <2>1, <2>2
  <2> QED
    BY <2>1, <2>2, <2>3, <2>4 DEF Intersects
<1>4. CASE PlaceTarget
  <2>1. PICK p \in Candidates : TryPlace(p) /\ target' = {p}
    BY <1>4 DEF PlaceTarget
  <2>2. p \in Place /\ \A q \in dummies : ~Intersects(p, q)
    BY <2>1, CandidatesArePlaces DEF TryPlace, hasCollision
  <2>3. dummies' = dummies /\ pc' = "upload"
    BY <1>4 DEF PlaceTarget, Step
  <2> QED
    BY <2>1, <2>2, <2>3 DEF Intersects
<1>5. CASE getRandomBackgroundImage
  BY <1>2, <1>5 DEF getRandomBackgroundImage, Step
<1>6. CASE ListCharacters
  BY <1>2, <1>6 DEF ListCharacters, Step
<1>7. CASE ReadCharacter
  BY <1>2, <1>7 DEF ReadCharacter, Step
<1>8. CASE EnoughCharacters
  BY <1>2, <1>8 DEF EnoughCharacters, Step
<1>9. CASE TypeComplete \/ GiveUpType
  BY <1>2, <1>9 DEF TypeComplete, GiveUpType, NextType
<1>10. CASE DummiesDone
  BY <1>2, <1>10 DEF DummiesDone, Step
<1>11. CASE Upload
  BY <1>2, <1>11 DEF Upload, Step
<1>12. CASE BackgroundFails \/ CharactersFail \/ TooFewCharacters \/ TargetFails \/ UploadFails
  BY <1>1, <1>12
     DEF BackgroundFails, CharactersFail, TooFewCharacters, TargetFails, UploadFails
<1>13. CASE UNCHANGED vars
  BY <1>2, <1>13 DEF vars
<1> QED
  BY <1>3, <1>4, <1>5, <1>6, <1>7, <1>8, <1>9, <1>10, <1>11, <1>12, <1>13 DEF Next

LEMMA ApartAlways == Spec => []Apart
<1>1. Init => Apart BY ApartInit
<1>2. Apart /\ [Next]_vars => Apart' BY ApartNext
<1> QED BY <1>1, <1>2, PTL DEF Spec

(* For every size: no two characters of an image share a pixel.            *)
THEOREM CharactersApart == Spec => []NothingOverlaps
<1>1. Apart => NothingOverlaps
  BY ApartShareNoPixel DEF Apart, NothingOverlaps
<1> QED
  BY <1>1, ApartAlways, PTL

(* For every size and tolerance up to half a character: no click on a dummy*)
(* is accepted but at the distance of the tolerance.                       *)
THEOREM DummiesAreRefused == Spec => []DummiesRefused
<1>1. Apart => DummiesRefused
  <2> SUFFICES ASSUME Apart, NEW p \in target, NEW d \in dummies,
                      NEW click \in Pixels(d), Accepted(click, p)
               PROVE  \E axis \in {1, 2} : click[axis] = Center(p)[axis] + Tolerance
    BY DEF DummiesRefused
  <2>1. p \in Place /\ d \in Place /\ ~Intersects(p, d)
    BY DEF Apart
  <2> QED
    BY <2>1, RefusedOnDummies
<1> QED
  BY <1>1, ApartAlways, PTL

-----------------------------------------------------------------------------
(* What is on the picture fits on the background, since nothing is placed  *)
(* before the background is known; and nothing is read before the listing. *)
Fits ==
  /\ TypeOK
  /\ pc \in {"background", "list"} => fetched = 0
  /\ pc \in {"background", "list", "characters"} => dummies = {} /\ target = {}

LEMMA FitsNext == Fits /\ [Next]_vars => Fits'
<1> SUFFICES ASSUME Fits, [Next]_vars PROVE Fits'
  OBVIOUS
<1> USE SizesArePositive DEF Fits, TypeOK
<1>1. ASSUME Fail PROVE Fits'
  BY <1>1 DEF Fail
<1>2. CASE getRandomBackgroundImage
  BY <1>2 DEF getRandomBackgroundImage, Step
<1>3. CASE ListCharacters
  BY <1>3 DEF ListCharacters, Step, Candidates
<1>4. CASE ReadCharacter
  BY <1>4 DEF ReadCharacter, Step, Candidates
<1>5. CASE EnoughCharacters \/ DummiesDone \/ Upload
  BY <1>5 DEF EnoughCharacters, DummiesDone, Upload, Step, Candidates
<1>6. CASE PlaceDummy
  <2>1. dummies' \subseteq Candidates /\ placed' \in 0..DummiesPerType
    BY <1>6 DEF PlaceDummy, TryPlace
  <2>2. UNCHANGED <<pc, bg, keys, fetched, kind, target>> /\ pc = "dummies"
    BY <1>6 DEF PlaceDummy, MoreDummies
  <2> QED BY <2>1, <2>2 DEF Candidates
<1>7. CASE TypeComplete \/ GiveUpType
  <2>1. kind' \in 0..MaxKeys /\ placed' \in 0..DummiesPerType
    BY <1>7 DEF TypeComplete, GiveUpType, MoreDummies, NextType
  <2>2. UNCHANGED <<pc, bg, keys, fetched, dummies, target>>
    BY <1>7 DEF TypeComplete, GiveUpType, NextType
  <2> QED BY <2>1, <2>2 DEF Candidates
<1>8. CASE PlaceTarget
  <2>1. target' \subseteq Candidates /\ pc' = "upload"
    BY <1>8 DEF PlaceTarget, TryPlace, Step
  <2>2. UNCHANGED <<bg, keys, fetched, kind, placed, dummies>>
    BY <1>8 DEF PlaceTarget
  <2> QED BY <2>1, <2>2 DEF Candidates
<1>9. CASE BackgroundFails \/ CharactersFail \/ TooFewCharacters \/ TargetFails \/ UploadFails
  BY <1>1, <1>9
     DEF BackgroundFails, CharactersFail, TooFewCharacters, TargetFails, UploadFails
<1>10. CASE UNCHANGED vars
  BY <1>10 DEF vars, Candidates
<1> QED
  BY <1>2, <1>3, <1>4, <1>5, <1>6, <1>7, <1>8, <1>9, <1>10 DEF Next

(* For every bucket and every size: the counts stay within what is listed, *)
(* and every character lies on the background that was drawn for it.       *)
THEOREM TypeCorrect == Spec => []TypeOK
<1>1. Init => Fits
  BY SizesArePositive DEF Init, Fits, TypeOK
<1>2. Fits => TypeOK
  BY DEF Fits
<1> QED
  BY <1>1, <1>2, FitsNext, PTL DEF Spec
=============================================================================
