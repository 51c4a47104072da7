------------------------------ MODULE FrameHash -----------------------------
(***************************************************************************)
(* What is computed from one frame: the black borders of the picture       *)
(* (detect_black_borders and apply_crop of video.c) and the bits of the    *)
(* perceptual hash (quickselect_median and dct_hash of hash.c).            *)
(*                                                                         *)
(* A picture is its luma plane, picture[y][x], rows and columns from 0.    *)
(* The transform itself is abstracted: a picture comes with its            *)
(* coefficients, dct[1] the brightness and the others the detail.          *)
(***************************************************************************)
EXTENDS Integers, Sequences, FiniteSets

AK_DEFAULT_BLACK_THRESHOLD == 24

Least(S) == CHOOSE x \in S : \A y \in S : x <= y
Greatest(S) == CHOOSE x \in S : \A y \in S : y <= x

Rows(picture) == DOMAIN picture
Columns(picture) == DOMAIN picture[0]
Height(picture) == Cardinality(Rows(picture))
Width(picture) == Cardinality(Columns(picture))

(* At least one row and one column, of 8 bits a pixel.                     *)
IsPicture(picture) ==
  /\ Height(picture) \in Nat \ {0} /\ Width(picture) \in Nat \ {0}
  /\ picture \in [0 .. (Height(picture) - 1) -> [0 .. (Width(picture) - 1) -> 0 .. 255]]

-----------------------------------------------------------------------------
(***************************************************************************)
(* Turning: transpose=2, "hflip,vflip" and transpose=1 of libavfilter      *)
(***************************************************************************)

Turned(picture, angle) ==
  LET lastRow == Height(picture) - 1
      lastColumn == Width(picture) - 1
  IN CASE angle = 90  -> [y \in Columns(picture) |-> [x \in Rows(picture) |-> picture[x][lastColumn - y]]]
       [] angle = 180 -> [y \in Rows(picture) |-> [x \in Columns(picture) |-> picture[lastRow - y][lastColumn - x]]]
       [] angle = 270 -> [y \in Columns(picture) |-> [x \in Rows(picture) |-> picture[lastRow - x][y]]]
       [] OTHER       -> picture

-----------------------------------------------------------------------------
(***************************************************************************)
(* Black borders                                                           *)
(***************************************************************************)

HasVideo(picture, y, x) == picture[y][x] > AK_DEFAULT_BLACK_THRESHOLD
row_has_video(picture, y) == \E x \in Columns(picture) : HasVideo(picture, y, x)
IsBlack(picture) == \A y \in Rows(picture) : ~row_has_video(picture, y)

(* Mutant: the side edges are taken from the top row of the picture only.  *)
SidesOfTopRow(picture, top, bottom) ==
  LET lit == {x \in Columns(picture) : HasVideo(picture, top, x)}
  IN [left |-> Least(lit), right |-> Greatest(lit)]

(* One row of the loop: it is searched only in the margins still open, and *)
(* not at all once both margins are gone.                                  *)
Narrowed(picture, sides, y) ==
  LET last == Width(picture) - 1
      ls == {x \in 0 .. (sides.left - 1) : HasVideo(picture, y, x)}
      rs == {x \in (sides.right + 1) .. last : HasVideo(picture, y, x)}
  IN IF sides.left = 0 /\ sides.right = last THEN sides
     ELSE [left |-> IF ls = {} THEN sides.left ELSE Least(ls),
           right |-> IF rs = {} THEN sides.right ELSE Greatest(rs)]

(* The side edges, after rows top to bottom.                               *)
Sides(picture, top, bottom) ==
  LET margin[y \in (top - 1) .. bottom] ==
        IF y = top - 1 THEN [left |-> Width(picture) - 1, right |-> 0]
        ELSE Narrowed(picture, margin[y - 1], y)
  IN margin[bottom]

(* The rectangle of the content, edges included.  Only for a picture that  *)
(* is not black.                                                           *)
detect_black_borders(picture) ==
  LET rows == {y \in Rows(picture) : row_has_video(picture, y)}
      sides == Sides(picture, Least(rows), Greatest(rows))
  IN [left |-> sides.left, top |-> Least(rows), right |-> sides.right, bottom |-> Greatest(rows)]

(* av_frame_apply_cropping without AV_FRAME_CROP_UNALIGNED: the new first  *)
(* column is moved left to a multiple of the alignment of the buffer.      *)
av_frame_apply_cropping(box, alignment) == [box EXCEPT !.left = @ - (@ % alignment)]

WholeOf(picture) ==
  [left |-> 0, top |-> 0, right |-> Width(picture) - 1, bottom |-> Height(picture) - 1]

(* What apply_crop keeps of the picture.                                   *)
Cropped(picture, alignment) ==
  LET box == detect_black_borders(picture)
  IN IF box = WholeOf(picture) THEN box ELSE av_frame_apply_cropping(box, alignment)

-----------------------------------------------------------------------------
(***************************************************************************)
(* The bits of the hash                                                    *)
(***************************************************************************)

Swapped(arr, i, j) == [arr EXCEPT ![i] = arr[j], ![j] = arr[i]]

(* Mutant: the middle of the unsorted array.                               *)
MiddleOf(arr) == arr[Len(arr) \div 2 + 1]

(* A round of the do loop, unless i and j have met: i goes up to a value   *)
(* that is not smaller than x, j down to one that is not larger, and the   *)
(* two are swapped.                                                        *)
Round ==
  [s \in [arr : Seq(Int), i : Int, j : Int, x : Int] |->
    LET i == Least({p \in DOMAIN s.arr : p >= s.i /\ ~(s.arr[p] < s.x)})
        j == Greatest({p \in DOMAIN s.arr : p <= s.j /\ ~(s.x < s.arr[p])})
    IN IF s.i > s.j THEN s
       ELSE IF i > j THEN [arr |-> s.arr, i |-> i, j |-> j, x |-> s.x]
       ELSE [arr |-> Swapped(s.arr, i, j), i |-> i + 1, j |-> j - 1, x |-> s.x]]

(* The do loop: what is smaller than x is moved to the left of what is     *)
(* larger.  Each round brings i and j closer.                              *)
Around(arr, l, m, x) ==
  LET round[n \in 0 .. Len(arr)] ==
        IF n = 0 THEN [arr |-> arr, i |-> l, j |-> m, x |-> x] ELSE Round[round[n - 1]]
  IN round[Len(arr)]

(* Done for the value at k, and again for the part that still holds k.     *)
Pass ==
  [s \in [arr : Seq(Int), k : Nat, l : Int, m : Int] |->
    LET split == Around(s.arr, s.l, s.m, s.arr[s.k])
    IN IF s.l >= s.m THEN s
       ELSE [arr |-> split.arr, k |-> s.k,
             l |-> IF split.j < s.k THEN split.i ELSE s.l,
             m |-> IF s.k < split.i THEN split.j ELSE s.m]]

(* Quickselect.  Each pass leaves a shorter part.                          *)
quickselect_median(arr) ==
  LET k == Len(arr) \div 2 + 1
      pass[n \in 0 .. Len(arr)] ==
        IF n = 0 THEN [arr |-> arr, k |-> k, l |-> 1, m |-> Len(arr)] ELSE Pass[pass[n - 1]]
  IN pass[Len(arr)].arr[k]

(* A bit for each coefficient but the first, which is the brightness.  The *)
(* coefficients are in units of DCT_INT_EPISILON.                          *)
dct_hash(dct) ==
  LET threshold == quickselect_median(Tail(dct)) + 1
  IN [k \in 1 .. (Len(dct) - 1) |-> dct[k + 1] > threshold]
=============================================================================
