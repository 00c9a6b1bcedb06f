---------------------------- MODULE GaussianBlur ----------------------------
(***************************************************************************)
(* What the blur reads and writes: do_gausian of app/filter.c, which works *)
(* on a part of the image, do_gausian of app/filterNaoParalelo.c, which    *)
(* works on all of it, and where the parts lie in the image.               *)
(*                                                                         *)
(* A pixel that was blurred is the window it was computed from, that is    *)
(* for each cell of image_buffer the pixel that was read.  Two programs    *)
(* with the same windows print the same pixels, whatever the image is      *)
(* (gausian, the weighted mean of a window, is the same text in both).     *)
(***************************************************************************)
EXTENDS Integers

PART   == 32                    \* width and height of a part
IMAGE  == 128                   \* and of the image
Beyond == <<-1, -1>>            \* what lies before or after the bytes of a picture

Square(width) == (0 .. width - 1) \X (0 .. width - 1)       \* pixels <<x, y>>
Cells == Square(7)

\* my_image.h: a byte of the image is known by its place in it.
image == Square(IMAGE)

\* image_buffer for the pixel c of a picture.  (The test of y, and of x, that is to
\* leave out the border, y > 2 || y < height - 2, is always true: windows run over
\* the ends of lines, and over those of the picture.)
image_buffer(width, c) ==
    [w \in Cells |-> LET k == (c[2] + w[2] - 3) * width + c[1] + w[1] - 3
                     IN IF k \in 0 .. width * width - 1 THEN <<k % width, k \div width>> ELSE Beyond]

\* filterNaoParalelo.c
Sequential == [c \in image |-> image_buffer(IMAGE, c)]

\* "Ajustando a imagem": the pixel that is copied to a pixel near the border.
Inwards(k) == IF k < 3 THEN 3 ELSE IF k >= PART - 3 THEN PART - 4 ELSE k
Copied(c) == IF c[1] >= PART - 3 /\ c[2] >= PART - 3 THEN <<PART - 4, PART - 3>>
             ELSE <<Inwards(c[1]), Inwards(c[2])>>

\* The copies go column by column, and downwards: a pixel that is copied may
\* have been copied itself.
Before(c, d) == c[1] < d[1] \/ (c[1] = d[1] /\ c[2] < d[2])

\* filter.c
do_gausian[c \in Square(PART)] ==
    IF Before(Copied(c), c) THEN do_gausian[Copied(c)] ELSE image_buffer(PART, Copied(c))

\* newPosXAdded, newPosYAdded
Left(p) == (PART * (p[1] - 1)) % IMAGE
Top(p)  == ((PART * (p[1] - 1)) \div IMAGE) * PART + IF p[2] = 1 THEN 0 ELSE 64

\* Where the pixel c of a part is in the image.
InImage(p, c) == <<Left(p) + c[1], Top(p) + c[2]>>
-----------------------------------------------------------------------------
(* What mestre should print *)

\* Columns, or lines, in which a window does not leave the part, and the nearest.
Inner == {k \in 0 .. PART - 1 : k - 3 >= 0 /\ k + 3 < PART}
Abs(k) == IF k < 0 THEN -k ELSE k
Nearest(k) == CHOOSE m \in Inner : \A n \in Inner : Abs(k - m) <= Abs(k - n)

\* At the pixel c of its place p a part that came from place q, blurred, shows
\* what the sequential program shows there, or, within three pixels of the border
\* of the part, at the nearest pixel that is further inside.
Shows(p, q, c) ==
    LET d == <<Nearest(c[1]), Nearest(c[2])>>
    IN \A w \in Cells : /\ do_gausian[c][w] # Beyond
                       /\ InImage(q, do_gausian[c][w]) = Sequential[InImage(p, d)][w]

ShownBy(p, q) == \A c \in Square(PART) : Shows(p, q, c)
=============================================================================
