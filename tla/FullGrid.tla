------------------------------- MODULE FullGrid -------------------------------
(***************************************************************************)
(* The full grid of a single process and its hierarchization: what the     *)
(* distributed grids must agree with once they are gathered.               *)
(*                                                                         *)
(* A grid is a record made by FullGrid, with its values by linear index.   *)
(* Coordinates are in units of 1/M and values are scaled as in             *)
(* DistributedFullGrid; the stack of in-place loops over poles becomes a   *)
(* fold over the steps of a pole.                                          *)
(***************************************************************************)
EXTENDS DistributedFullGrid

\* createFullGrid sets all values to zero.
FullGrid(level, bdry) ==
    LET points == [d \in DOMAIN level |-> Pow2(level[d]) + bdry[d] - 1]
    IN  [level |-> level, bdry |-> bdry, sizes |-> points, hierarchized |-> FALSE,
         data |-> [i \in 0..(SizeOf(points) - 1) |-> 0]]

setElementVector(fg, values) == [fg EXCEPT !.data = values]

getNrElements(fg) == SizeOf(fg.sizes)
fgVectorIndex(fg, i) ==
    LET offsets == OffsetsVector(fg.sizes)
        rest[d \in 1..(Len(offsets) + 1)] == IF d > Len(offsets) THEN i ELSE rest[d + 1] % offsets[d]
    IN  [d \in DOMAIN offsets |-> rest[d + 1] \div offsets[d]]
fgLinearIndex(fg, v) ==
    MapThenSumSet(LAMBDA d : OffsetsVector(fg.sizes)[d] * v[d], DOMAIN v)

getCoords(fg, M, i) ==
    [d \in DOMAIN fg.level |->
        (fgVectorIndex(fg, i)[d] + (IF fg.bdry[d] > 0 THEN 0 ELSE 1)) * (M \div Pow2(fg.level[d]))]

\* Halve the index while it is even; index 0 is on level 0.
getLI(fg, i) ==
    LET v == fgVectorIndex(fg, i)
        index == [d \in DOMAIN v |-> v[d] + (IF fg.bdry[d] > 0 THEN 0 ELSE 1)]
        halvings(d) == IF index[d] = 0 THEN fg.level[d] ELSE TrailingZeros(index[d])
    IN  [levels |-> [d \in DOMAIN v |-> fg.level[d] - halvings(d)],
         indexes |-> [d \in DOMAIN v |-> index[d] \div Pow2(halvings(d))]]

-----------------------------------------------------------------------------
(* Evaluation *)

\* aindex and normcoord (times the spacing h): beyond the last points, the outermost cell is continued.
Cell(fg, h, d, c) ==
    LET n == fg.sizes[d]
        a == c \div h
        inner == IF a <= 0 THEN 1 ELSE IF a >= n - 1 THEN n - 1 ELSE a
        first == IF a >= n - 1 THEN n - 2 ELSE a
    IN  IF fg.bdry[d] > 0 THEN [index |-> first, norm |-> c - first * h]
        ELSE [index |-> Max({inner - 1, 0}), norm |-> c - inner * h]

\* The value at coords times the product of the spacings.  With a single point in a dimension
\* both corners are that point, each with half of the hat; only in the last dimension (the first
\* to be multiplied) is the falling half of the hat a factor.
eval(fg, M, coords) ==
    LET dims == DOMAIN fg.level
        h == [d \in dims |-> M \div Pow2(fg.level[d])]
        cell == [d \in dims |-> Cell(fg, h[d], d, coords[d])]
        vv(n) == [d \in dims |-> IF fg.sizes[d] > 1 THEN n[d] ELSE 0]
        base(n) ==
            LET from[d \in 1..(Len(h) + 1)] ==
                    IF d > Len(h) THEN 1
                    ELSE IF fg.sizes[d] = 1
                    THEN IF 2 * coords[d] > M
                         THEN from[d + 1] * h[d] - (coords[d] * SizeOf(SubSeq(h, d, Len(h)))) \div M
                         ELSE (from[d + 1] * coords[d]) \div Pow2(fg.level[d])
                    ELSE from[d + 1] * (IF n[d] = 0 THEN h[d] - cell[d].norm ELSE cell[d].norm)
            IN  from[1]
        at(n) == fgLinearIndex(fg, [d \in dims |-> cell[d].index + vv(n)[d]])
    IN  IF \E d \in dims : coords[d] < 0 \/ coords[d] > M THEN 0
        ELSE MapThenSumSet(LAMBDA n : base(n) * fg.data[at(n)], [dims -> {0, 1}])

\* add: value by value if the grids have the same points, else the interpolant of src; times
\* the product of the spacings of src.
add(dst, src, M, coeff) ==
    LET scale == SizeOf([d \in DOMAIN src.level |-> M \div Pow2(src.level[d])])
        same == dst.level = src.level /\ dst.bdry = src.bdry
    IN  [i \in DOMAIN dst.data |->
            dst.data[i] * scale
                + coeff * (IF same THEN src.data[i] * scale ELSE eval(src, M, getCoords(dst, M, i)))]

\* getlpNorm(0), and the sum of which getlpNorm(p) takes the root.
getlpNorm(fg, p) ==
    IF p = 0 THEN Max({0} \cup {Abs(fg.data[i]) : i \in DOMAIN fg.data})
    ELSE MapThenSumSet(LAMBDA i : Abs(fg.data[i]) ^ p, DOMAIN fg.data)

-----------------------------------------------------------------------------
(* Hierarchization *)

\* The points at the positions first, first + 2s, ... of the pole at start lose (or gain) half of
\* the values s before and after them; at the ends of a pole without boundary there is only one.
PoleStep(val, start, stride, size, first, s, sign) ==
    LET pos(i) == (i - start) \div stride
        onPole(i) == i >= start /\ (i - start) % stride = 0 /\ pos(i) < size
        par(k) == IF 0 <= k /\ k < size THEN val[start + k * stride] \div 2 ELSE 0
    IN  [i \in DOMAIN val |->
            IF onPole(i) /\ pos(i) >= first /\ (pos(i) - first) % (2 * s) = 0
            THEN val[i] + sign * (par(pos(i) - s) + par(pos(i) + s)) ELSE val[i]]

hierarchize1DNoBoundary(val, start, stride, size, level) ==
    FoldLeft(LAMBDA v, s : PoleStep(v, start, stride, size, s - 1, s, -1), val,
             [k \in 1..(level - 1) |-> Pow2(k - 1)])
hierarchize1DBoundary(val, start, stride, size, level) ==
    FoldLeft(LAMBDA v, s : PoleStep(v, start, stride, size, s, s, -1), val,
             [k \in 1..level |-> Pow2(k - 1)])
dehierarchize1DNoBoundary(val, start, stride, size, level) ==
    FoldLeft(LAMBDA v, s : PoleStep(v, start, stride, size, s - 1, s, 1), val,
             [k \in 1..(level - 1) |-> Pow2(level - 1 - k)])
dehierarchize1DBoundary(val, start, stride, size, level) ==
    FoldLeft(LAMBDA v, s : PoleStep(v, start, stride, size, s, s, 1), val,
             [k \in 1..level |-> Pow2(level - k)])

\* The starts of the poles of dimension d, in the order of the loop over them.  A grid with a
\* one-sided boundary has fewer points than this length of its poles supposes.
PoleLength(fg, d) == IF fg.bdry[d] = 0 THEN Pow2(fg.level[d]) - 1 ELSE Pow2(fg.level[d]) + 1
PoleStride(fg, d) == SizeOf([e \in 1..(d - 1) |-> PoleLength(fg, e)])
PoleStarts(fg, d) ==
    LET stride == PoleStride(fg, d)
    IN  [n \in 1..(getNrElements(fg) \div PoleLength(fg, d)) |->
            ((n - 1) \div stride) * stride * PoleLength(fg, d) + ((n - 1) % stride)]

AllPoles(fg, OnPole(_, _, _, _, _), d) ==
    [fg EXCEPT !.data =
        FoldLeft(LAMBDA v, start : OnPole(v, start, PoleStride(fg, d), PoleLength(fg, d), fg.level[d]),
                 @, PoleStarts(fg, d))]

hierarchize(fg) ==
    [FoldLeft(LAMBDA f, d : IF f.bdry[d] = 0 THEN AllPoles(f, hierarchize1DNoBoundary, d)
                            ELSE AllPoles(f, hierarchize1DBoundary, d),
              fg, [d \in DOMAIN fg.level |-> d])
        EXCEPT !.hierarchized = TRUE]

dehierarchize(fg) ==
    [FoldLeft(LAMBDA f, d : IF f.bdry[d] = 0 THEN AllPoles(f, dehierarchize1DNoBoundary, d)
                            ELSE AllPoles(f, dehierarchize1DBoundary, d),
              fg, [d \in DOMAIN fg.level |-> d])
        EXCEPT !.hierarchized = FALSE]
=============================================================================
