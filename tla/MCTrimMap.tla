------------------------------ MODULE MCTrimMap ------------------------------
(***************************************************************************)
(* Inputs for checking TrimMap with TLC.  The input image spans latitudes  *)
(* 0..2 and longitudes 0..4 in 8 x 2 pixels, so a pixel is 0.5 degrees of  *)
(* longitude wide and 1 degree of latitude high and the two axes cannot be *)
(* confused without a difference.  Requests put each edge of the keep      *)
(* region below, on and above the input's edges, include a region of zero  *)
(* height and a top edge half-way up a pixel, and sizes smaller than,     *)
(* equal to and larger than the input.                                     *)
(***************************************************************************)
EXTENDS TrimMap

Image == [identify_ok |-> TRUE, name_ok |-> TRUE, floats_ok |-> TRUE,
          blat |-> N(0), tlat |-> N(2), llon |-> N(0), rlon |-> N(4),
          x |-> 8, y |-> 2]

\* The same image named with bottom and top latitude equal.
FlatImage == [Image EXCEPT !.blat = N(1), !.tlat = N(1)]

\* identify fails; the name lacks the blat_..._rlon_... parts; a part of
\* the name is not a number.
BrokenImages == { [Image EXCEPT !.identify_ok = FALSE],
                  [Image EXCEPT !.name_ok = FALSE],
                  [Image EXCEPT !.floats_ok = FALSE] }

MCInFiles == {Image, FlatImage} \cup BrokenImages


MCRequests ==
  [blat : {N(-1), N(0), N(1), N(2)}, tlat : {N(1), Q(3, 2), N(2), N(3)},
   llon : {N(-1), N(0), N(3)}, rlon : {N(1), N(4), N(5)},
   x_size : {2, 8, 9}, y_size : {1, 2},
   olat : {N(1)}, olon : {N(2)}]
=============================================================================
