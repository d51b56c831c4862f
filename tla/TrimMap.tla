------------------------------ MODULE TrimMap ------------------------------
(***************************************************************************)
(* main of src/ivp/scripts/map_get_map/trim_map.py: the checks it makes   *)
(* on its arguments, the input image and the bounds in the image's file   *)
(* name, the pixel arithmetic, the convert crop and the .info file.        *)
(*                                                                         *)
(* Floats are exact rationals (ExactFloat); int() truncates toward zero.   *)
(* The arguments are taken as parsed (a record of numbers), or as one of   *)
(* the two ways main rejects them.  The input file is a record of what    *)
(* identify and the file name say about it.  identify, convert and open   *)
(* are modelled by whether they succeed.  What main prints is left out.   *)
(***************************************************************************)
EXTENDS Integers, ExactFloat

CONSTANTS
  Requests,   \* parsed arguments: [blat, tlat, llon, rlon, olat, olon : numbers,
              \*                    x_size, y_size : Int]
  InFiles     \* [identify_ok, name_ok, floats_ok : BOOLEAN,
              \*  blat, tlat, llon, rlon : numbers (the name's), x, y : pixels]

VARIABLES
  argv,     \* "ok", or how main rejects the command line
  req,      \* the parsed arguments
  infile,   \* the input image
  stage,    \* where main is
  size,     \* (input_image_x, input_image_y) once identify has answered
  bounds,   \* (input_blat, ...) once the file name is parsed
  loc,      \* the sizes, offsets and origin fractions main computes
  crop,     \* the convert -crop geometry, once convert has written outfile
  info,     \* the .info file, once written
  exit      \* how main ended

vars == <<argv, req, infile, stage, size, bounds, loc, crop, info, exit>>

None == [none |-> TRUE]

Exit(e) ==
  /\ stage' = "failed"
  /\ exit' = e

-----------------------------------------------------------------------------
(* Lines 199-252: the arithmetic, as operators of the request r, the      *)
(* bounds b from the file name and the image size s.                       *)

InputLatSpan(b) == Minus(b.tlat, b.blat)
InputLonSpan(b) == Minus(b.rlon, b.llon)
DesiredLatSpan(r) == Minus(r.tlat, r.blat)
\* Line 203, as written: the longitude span is taken from the latitudes.
DesiredLonSpan(r) == Minus(r.tlat, r.blat)

LatPerPixel(b, s) == Over(InputLatSpan(b), N(s.y))
LonPerPixel(b, s) == Over(InputLonSpan(b), N(s.x))

RequiredY(r, b, s) == Trunc(Times(N(s.y), Over(DesiredLatSpan(r), InputLatSpan(b))))
RequiredX(r, b, s) == Trunc(Times(N(s.x), Over(DesiredLonSpan(r), InputLonSpan(b))))

\* Lines 230-231, as written: the x offset from latitudes, y from longitudes.
CropXOffset(r, b, s) == Trunc(Over(Minus(r.blat, b.blat), LatPerPixel(b, s)))
CropYOffset(r, b, s) == Trunc(Over(Minus(r.llon, b.llon), LonPerPixel(b, s)))

\* Lines 238-244, as written: outfile_blat uses crop_x_offset, and
\* outfile_tlat the longitude per-pixel size.
OutfileLlon(r, b, s) == Plus(b.llon, Times(N(CropXOffset(r, b, s)), LonPerPixel(b, s)))
OutfileLonSpan(r, b, s) == Times(N(RequiredX(r, b, s)), LonPerPixel(b, s))
OutfileBlat(r, b, s) == Plus(b.blat, Times(N(CropXOffset(r, b, s)), LatPerPixel(b, s)))
OutfileLatSpan(r, b, s) == Times(N(RequiredY(r, b, s)), LonPerPixel(b, s))

-----------------------------------------------------------------------------
Init ==
  /\ argv \in {"ok", "shape", "unparsable"}
  /\ req \in Requests
  /\ infile \in InFiles
  /\ stage = "start"
  /\ size = None /\ bounds = None /\ loc = None
  /\ crop = None /\ info = None
  /\ exit = "none"

\* Lines 131-154: wrong number or placement of arguments, or a float() /
\* int() of an argument raises: print_usage and exit 1.
PrintUsage ==
  /\ stage = "start" /\ argv # "ok"
  /\ Exit("Usage")
  /\ UNCHANGED <<argv, req, infile, size, bounds, loc, crop, info>>

\* Lines 157 and 71-87: identify -format '%w %h' infile.
GetImageSize ==
  /\ stage = "start" /\ argv = "ok"
  /\ IF infile.identify_ok
       THEN /\ size' = [x |-> infile.x, y |-> infile.y]
            /\ stage' = "sized"
            /\ UNCHANGED exit
       ELSE /\ Exit("IdentifyFailed") /\ UNCHANGED size
  /\ UNCHANGED <<argv, req, infile, bounds, loc, crop, info>>

\* Lines 158-163: the output may not be bigger than the input.
CheckNoUpscale ==
  /\ stage = "sized"
  /\ IF req.x_size > size.x \/ req.y_size > size.y
       THEN Exit("Upscale")
       ELSE stage' = "size_ok" /\ UNCHANGED exit
  /\ UNCHANGED <<argv, req, infile, size, bounds, loc, crop, info>>

\* Lines 174 and 110-126: blat_<f>_tlat_<f>_llon_<f>_rlon_<f>; a part that
\* float() cannot read raises ValueError, which nothing catches.
ParseInputName ==
  /\ stage = "size_ok"
  /\ CASE ~infile.name_ok  -> Exit("BadName") /\ UNCHANGED bounds
       [] ~infile.floats_ok -> Exit("ValueError") /\ UNCHANGED bounds
       [] OTHER ->
            /\ bounds' = [blat |-> infile.blat, tlat |-> infile.tlat,
                          llon |-> infile.llon, rlon |-> infile.rlon]
            /\ stage' = "named"
            /\ UNCHANGED exit
  /\ UNCHANGED <<argv, req, infile, size, loc, crop, info>>

\* Mutant: the check that bottom-lat is not below the input dropped.
RegionProblemsNoLowerLat(r, b) ==
  << Lt(b.tlat, r.blat),
     Lt(r.tlat, b.blat) \/ Lt(b.tlat, r.tlat),
     Lt(r.tlat, r.blat),
     Lt(r.llon, b.llon) \/ Lt(b.rlon, r.llon),
     Lt(r.rlon, b.llon) \/ Lt(b.rlon, r.rlon),
     Lt(r.rlon, r.llon) >>

\* Mutant: left-lon greater than right-lon not checked.
RegionProblemsUnordered(r, b) ==
  << Lt(r.blat, b.blat) \/ Lt(b.tlat, r.blat),
     Lt(r.tlat, b.blat) \/ Lt(b.tlat, r.tlat),
     Lt(r.tlat, r.blat),
     Lt(r.llon, b.llon) \/ Lt(b.rlon, r.llon),
     Lt(r.rlon, b.llon) \/ Lt(b.rlon, r.rlon),
     FALSE >>

\* Lines 176-193: the six region checks, in the order main makes them.
RegionProblems(r, b) ==
  << Lt(r.blat, b.blat) \/ Lt(b.tlat, r.blat),
     Lt(r.tlat, b.blat) \/ Lt(b.tlat, r.tlat),
     Lt(r.tlat, r.blat),
     Lt(r.llon, b.llon) \/ Lt(b.rlon, r.llon),
     Lt(r.rlon, b.llon) \/ Lt(b.rlon, r.rlon),
     Lt(r.rlon, r.llon) >>

\* The sys.exit message of each, by the check's position.
Problems == <<"BlatOutside", "TlatOutside", "BlatAboveTlat",
              "LlonOutside", "RlonOutside", "LlonRightOfRlon">>

CheckRegion ==
  LET p == RegionProblems(req, bounds) IN
  /\ stage = "named"
  /\ IF \E i \in 1..6 : p[i]
       THEN Exit(Problems[CHOOSE i \in 1..6 : p[i] /\ \A j \in 1..(i-1) : ~p[j]])
       ELSE stage' = "region_ok" /\ UNCHANGED exit
  /\ UNCHANGED <<argv, req, infile, size, bounds, loc, crop, info>>

\* Lines 199-216: a zero input span divides by zero at 208 (or 209);
\* otherwise the size the region needs must fit the requested size.
CheckRequiredSize ==
  /\ stage = "region_ok"
  /\ CASE InputLatSpan(bounds) = Zero \/ InputLonSpan(bounds) = Zero ->
              Exit("ZeroDivisionError") /\ UNCHANGED loc
       [] RequiredY(req, bounds, size) > req.y_size
            \/ RequiredX(req, bounds, size) > req.x_size ->
              Exit("TooBig") /\ UNCHANGED loc
       [] OTHER ->
              /\ loc' = [required_x |-> RequiredX(req, bounds, size),
                         required_y |-> RequiredY(req, bounds, size)]
              /\ stage' = "fits"
              /\ UNCHANGED exit
  /\ UNCHANGED <<argv, req, infile, size, bounds, crop, info>>

\* Lines 221-252: offsets, the output's bounds, and the origin's fraction
\* of them; an output span of zero divides by zero at 248 or 249.
Place ==
  LET lonSpan == OutfileLonSpan(req, bounds, size)
      latSpan == OutfileLatSpan(req, bounds, size)
  IN
  /\ stage = "fits"
  /\ IF lonSpan = Zero \/ latSpan = Zero
       THEN Exit("ZeroDivisionError") /\ UNCHANGED loc
       ELSE /\ loc' = [required_x |-> loc.required_x, required_y |-> loc.required_y,
                  x_offset |-> CropXOffset(req, bounds, size),
                  y_offset |-> CropYOffset(req, bounds, size),
                  centx |-> Over(Minus(req.olon, OutfileLlon(req, bounds, size)), lonSpan),
                  centy |-> Over(Minus(req.olat, OutfileBlat(req, bounds, size)), latSpan)]
            /\ stage' = "placed"
            /\ UNCHANGED exit
  /\ UNCHANGED <<argv, req, infile, size, bounds, crop, info>>

\* Lines 304 and 91-106: convert -gravity SouthWest -crop WxH+X+Y with the
\* requested size and the offsets; convert may fail (sys.exit).
CropImage ==
  /\ stage = "placed"
  /\ \/ /\ crop' = [w |-> req.x_size, h |-> req.y_size,
                     x |-> loc.x_offset, y |-> loc.y_offset]
        /\ stage' = "cropped"
        /\ UNCHANGED exit
     \/ Exit("ConvertFailed") /\ UNCHANGED crop
  /\ UNCHANGED <<argv, req, infile, size, bounds, loc, info>>

\* Lines 307-313: open(out_info_file, "w") may raise IOError; otherwise
\* the four values are written and main returns.
WriteInfo ==
  /\ stage = "cropped"
  /\ \/ /\ info' = [centx |-> loc.centx, centy |-> loc.centy,
                     centlat |-> req.olat, centlon |-> req.olon]
        /\ stage' = "done"
        /\ UNCHANGED exit
     \/ Exit("IOError") /\ UNCHANGED info
  /\ UNCHANGED <<argv, req, infile, size, bounds, loc, crop>>

Next ==
  \/ PrintUsage \/ GetImageSize \/ CheckNoUpscale \/ ParseInputName
  \/ CheckRegion \/ CheckRequiredSize \/ Place \/ CropImage \/ WriteInfo

\* A single-threaded script: it runs to its end.
Spec == Init /\ [][Next]_vars /\ WF_vars(Next)

-----------------------------------------------------------------------------
Stages == {"start", "sized", "size_ok", "named", "region_ok", "fits",
           "placed", "cropped", "done", "failed"}

Exits == {"none", "Usage", "IdentifyFailed", "Upscale", "BadName", "ValueError",
          "TooBig", "ZeroDivisionError", "ConvertFailed", "IOError"}
         \cup {Problems[i] : i \in 1..6}

\* The -crop geometry is WxH+X+Y: a size and an offset in whole pixels.
TypeOK ==
  /\ argv \in {"ok", "shape", "unparsable"}
  /\ stage \in Stages
  /\ exit \in Exits
  /\ crop \in {None} \cup [w : Nat, h : Nat, x : Nat, y : Nat]
  /\ (stage = "done") = (info # None)

\* The keep region lies inside the input's bounds, bottom below top and
\* left of right, and the output is no larger than the input (the usage
\* text, lines 18-32).
ValidRequest(r, f) ==
  /\ Leq(f.blat, r.blat) /\ Leq(r.blat, r.tlat) /\ Leq(r.tlat, f.tlat)
  /\ Leq(f.llon, r.llon) /\ Leq(r.llon, r.rlon) /\ Leq(r.rlon, f.rlon)
  /\ r.x_size <= f.x /\ r.y_size <= f.y

\* convert only ever crops for a request that passed every check of main:
\* no output image is made from a region outside the input or upside down.
CropOnlyForValidRequest == crop # None => ValidRequest(req, infile)

\* Where value v lies along an axis of n pixels that spans lo..hi.
PixelAt(v, lo, hi, n) == Times(Over(Minus(v, lo), Minus(hi, lo)), N(n))

MinOf(a, b) == IF a <= b THEN a ELSE b

\* The crop [x, x+w] x [y, y+h] contains the keep region, x from
\* longitudes and y from latitudes (clipped to the input, as convert clips).
CoversRegion(c) ==
  /\ Leq(N(c.x), PixelAt(req.llon, infile.llon, infile.rlon, infile.x))
  /\ Leq(PixelAt(req.rlon, infile.llon, infile.rlon, infile.x),
         N(MinOf(c.x + c.w, infile.x)))
  /\ Leq(N(c.y), PixelAt(req.blat, infile.blat, infile.tlat, infile.y))
  /\ Leq(PixelAt(req.tlat, infile.blat, infile.tlat, infile.y),
         N(MinOf(c.y + c.h, infile.y)))

\* img_centx / img_centy: where the origin lies in the crop, as fractions
\* of its width and height, in the input's degrees per pixel on each axis.
LocatesOrigin(c, i) ==
  LET lonpp == Over(Minus(infile.rlon, infile.llon), N(infile.x))
      latpp == Over(Minus(infile.tlat, infile.blat), N(infile.y))
  IN  /\ i.centx = Over(Minus(req.olon, Plus(infile.llon, Times(N(c.x), lonpp))),
                        Times(N(c.w), lonpp))
      /\ i.centy = Over(Minus(req.olat, Plus(infile.blat, Times(N(c.y), latpp))),
                        Times(N(c.h), latpp))

\* What the usage text (lines 26-32, 42) promises of a run that ends
\* normally: the output image is exactly the requested size, so the crop
\* lies inside the input; it contains the keep region; and the .info file
\* describes where the origin lies in it.
OutputAsRequested ==
  stage = "done" =>
    /\ CoversRegion(crop)
    /\ crop.x + crop.w <= infile.x /\ crop.y + crop.h <= infile.y
    /\ LocatesOrigin(crop, info)
=============================================================================
