----------------------------- MODULE LevelFit -----------------------------
(***************************************************************************)
(* Level-safe ladder fitting (pipeline/profile-level-fit.ts): a rung that  *)
(* declares a height and an H.264 level but no width is given one, so that *)
(* the encoder scales into a box instead of deriving the width from the    *)
(* source.  fitProfileLadderToLevel visits the rungs of a profile in       *)
(* order; the fitted profile may be fitted again, and then a source is     *)
(* encoded on each of its rungs.                                           *)
(*                                                                         *)
(* A level as it is written in a profile is its text, its number when the  *)
(* text is digits only (0 otherwise) and its stem without a trailing ".0"; *)
(* None stands for a key that is missing or an expression.  Divisions are  *)
(* exact where the program's are floating point.                           *)
(***************************************************************************)
EXTENDS Integers, Sequences, FiniteSetsExt
CONSTANTS
  None,
  Ladders,   \* the profiles that can be fitted: sequences of rungs
  Sources    \* the sources: records of width and height in pixels

VARIABLES
  ladder,    \* the profile's rungs
  pos,       \* the rung the pass is at
  pass,      \* the number of passes made
  changed,   \* did the pass under way insert a width?
  authored,  \* the profile as it was written
  shot       \* the encode made, or None
vars == <<ladder, pos, pass, changed, authored, shot>>

Row(l, i, fs, dpb) == [level |-> l, idc |-> i, maxFs |-> fs, maxDpb |-> dpb]
H264Levels ==
  { Row("1", 10, 99, 396), Row("1b", 9, 99, 396), Row("1.1", 11, 396, 900),
    Row("1.2", 12, 396, 2376), Row("1.3", 13, 396, 2376),
    Row("2", 20, 396, 2376), Row("2.1", 21, 792, 4752),
    Row("2.2", 22, 1620, 8100), Row("3", 30, 1620, 8100),
    Row("3.1", 31, 3600, 18000), Row("3.2", 32, 5120, 20480),
    Row("4", 40, 8192, 32768), Row("4.1", 41, 8192, 32768),
    Row("4.2", 42, 8704, 34816), Row("5", 50, 22080, 110400),
    Row("5.1", 51, 36864, 184320), Row("5.2", 52, 36864, 184320),
    Row("6", 60, 139264, 696320), Row("6.1", 61, 139264, 696320),
    Row("6.2", 62, 139264, 696320) }

(* By name, then by level_idc (from 10 on), then by name without ".0". *)
lookupH264Level(v) ==
  LET byName == {l \in H264Levels : l.level = v.text}
      byIdc == {l \in H264Levels : v.num >= 10 /\ l.idc = v.num}
      byStem == {l \in H264Levels : l.level = v.stem}
      hits == IF byName # {} THEN byName ELSE IF byIdc # {} THEN byIdc ELSE byStem
  IN  IF v = None \/ hits = {} THEN None ELSE CHOOSE l \in hits : TRUE

Ceil16(n) == (n + 15) \div 16
Round(a, b) == (2 * a + b) \div (2 * b)
FloorEven(n) == Max({2, (n \div 2) * 2})

frameSizeMbs(w, h) == Ceil16(w) * Ceil16(h)

(* What a frame may take: the frame limit, and the picture buffer shared
   between the reference frames. *)
Budget(limits, ref) == Min({limits.maxFs, limits.maxDpb \div ref})

RefFrames(r) == IF r.ref # None /\ r.ref > 0 THEN r.ref ELSE 4

maxLevelSafeWidthOver(r) ==
  16 * (Budget(lookupH264Level(r.level), RefFrames(r)) \div (r.height \div 16))
maxLevelSafeWidth(r) ==
  16 * (Budget(lookupH264Level(r.level), RefFrames(r)) \div Ceil16(r.height))

nominalSixteenNineWidth(height) == Max({2, 2 * Round(8 * height, 9)})

InBox(s, w, h) ==
  [width |-> FloorEven(Min({Round(h * s.width, s.height), w})),
   height |-> FloorEven(Min({Round(w * s.height, s.width), h}))]

(* What the encoder makes of a source: inside the box (transposed for a
   portrait picture), or one side given and the other from the source. *)
predictScaledOutput(s, box, flip, portrait) ==
  IF box.width # None /\ box.height # None
  THEN IF flip /\ portrait /\ box.width > box.height
       THEN InBox(s, box.height, box.width)
       ELSE InBox(s, box.width, box.height)
  ELSE IF box.height # None
  THEN [width |-> Max({2, 2 * Round(s.width * box.height, 2 * s.height)}),
        height |-> box.height]
  ELSE IF box.width # None
  THEN [width |-> box.width,
        height |-> Max({2, 2 * Round(s.height * box.width, 2 * s.width)})]
  ELSE s

(* The early exits of the loop: an own width, no numeric height, no level,
   no column of macroblocks to spend. *)
Fittable(r) ==
  /\ r.width = None
  /\ r.height # None /\ r.height > 0
  /\ lookupH264Level(r.level) # None
  /\ maxLevelSafeWidth(r) > 0

(* One turn of the loop over the encode items. *)
Visit ==
  /\ pos <= Len(ladder)
  /\ pos' = pos + 1
  /\ LET r == ladder[pos] IN
     IF Fittable(r)
     THEN /\ ladder' = [ladder EXCEPT ![pos].width =
               Min({nominalSixteenNineWidth(r.height), maxLevelSafeWidth(r)})]
          /\ changed' = TRUE
     ELSE UNCHANGED <<ladder, changed>>
  /\ UNCHANGED <<pass, authored, shot>>

(* The profile is handed out; the read path fits what a bootstrap may
   already have fitted. *)
EndPass ==
  /\ pos = Len(ladder) + 1
  /\ pass < 2
  /\ pass' = pass + 1
  /\ pos' = IF pass = 0 THEN 1 ELSE Len(ladder) + 2
  /\ changed' = IF pass = 0 THEN FALSE ELSE changed
  /\ UNCHANGED <<ladder, authored, shot>>

(* The encoder (external) scales source s on rung i.  portrait: what it takes
   the display aspect ratio for, which a rotation may turn around. *)
Encode(i, s, flip, portrait) ==
  /\ pass = 2 /\ shot = None
  /\ shot' = [rung |-> i, source |-> s, portrait |-> portrait,
              out |-> predictScaledOutput(s, ladder[i], flip, portrait)]
  /\ UNCHANGED <<ladder, pos, pass, changed, authored>>

Init ==
  /\ ladder \in Ladders
  /\ authored = ladder
  /\ pos = 1
  /\ pass = 0
  /\ changed = FALSE
  /\ shot = None
Next ==
  \/ Visit
  \/ EndPass
  \/ \E i \in DOMAIN ladder, s \in Sources, flip, portrait \in BOOLEAN :
       Encode(i, s, flip, portrait)
Spec == Init /\ [][Next]_vars

(* Only a width is ever added to a rung: every rung keeps its height, level
   and reference frames, and a width it was written with
   (fitProfileLadderToLevel). *)
TypeOK ==
  /\ DOMAIN ladder = DOMAIN authored
  /\ \A i \in DOMAIN ladder :
       /\ ladder[i].width \in Nat \cup {None}
       /\ authored[i] \in {ladder[i], [ladder[i] EXCEPT !.width = None]}
  /\ pos \in 1..(Len(ladder) + 2) /\ pass \in 0..2 /\ changed \in BOOLEAN

InBudget(r, frame) ==
  frameSizeMbs(frame.width, frame.height) <= Budget(lookupH264Level(r.level), RefFrames(r))
Declared(r) == r.height # None /\ r.width = None /\ lookupH264Level(r.level) # None
Roomy(r) == InBudget(r, [width |-> 16, height |-> r.height])

(* Whatever the source, its rotation and the portrait flag, the frame encoded
   on a rung written with a height and a level fits the level's frame size and
   picture buffer limits, when a single column of macroblocks does
   (maxLevelSafeWidth, predictScaledOutput). *)
FitsLevel ==
  shot # None =>
    LET r == authored[shot.rung] IN
    Declared(r) /\ Roomy(r) => InBudget(r, shot.out)

(* The inserted width is the widest, up to the 16:9 width, whose frame the
   level permits: no picture is narrowed more than the level demands
   (fitProfileLadderToLevel). *)
Widest ==
  \A i \in DOMAIN ladder :
    ladder[i].width # authored[i].width =>
      LET r == ladder[i]
          Permitted(w) == InBudget(r, [width |-> w, height |-> r.height])
      IN  /\ r.width <= nominalSixteenNineWidth(r.height) /\ Permitted(r.width)
          /\ \A w \in (r.width + 1)..nominalSixteenNineWidth(r.height) : ~Permitted(w)

(* A landscape source no wider than 16:9 keeps the whole height of an even
   rung that its level did not narrow, in spite of the three roundings between
   the rung and the frame (nominalSixteenNineWidth, predictScaledOutput). *)
HeightKept ==
  shot # None =>
    LET r == ladder[shot.rung] IN
    (/\ r.width # authored[shot.rung].width
     /\ r.height % 2 = 0
     /\ maxLevelSafeWidth(r) >= (16 * r.height) \div 9 + 2
     /\ ~shot.portrait
     /\ shot.source.width * 9 <= shot.source.height * 16)
    => shot.out.height = r.height

(* A profile that was fitted is left alone by the next pass
   (fitProfileLadderToLevel at the bootstrap and again on the read path). *)
Idempotent == pass >= 1 => ~changed

===========================================================================
