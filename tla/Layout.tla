------------------------------- MODULE Layout -------------------------------
(***************************************************************************)
(* The layout and typography engines of the composer: regions are clamped,      *)
(* snapped to the grid and spaced; texts are wrapped and shrunk until they fit.   *)
(*                                                                          *)
(* A region is its left, top, width and height, in pixels.  A text is a sequence  *)
(* of words (see CopyArt) whose letters all have the width of an ordinary one;     *)
(* widths are hundredths of a pixel.                                          *)
(***************************************************************************)
EXTENDS Integers, Sequences, FiniteSets, Functions, Selection

Lesser(a, b) == IF a <= b THEN a ELSE b
Greater(a, b) == IF a >= b THEN a ELSE b
Distance(a, b) == IF a >= b THEN a - b ELSE b - a

\* round(n / d): an exact half goes to the even integer.
Rounded(n, d) ==
    LET low == n \div d
        rest == 2 * (n % d)
    IN  IF rest > d \/ (rest = d /\ low % 2 = 1) THEN low + 1 ELSE low

RightOf(b) == b[1] + b[3]
BottomOf(b) == b[2] + b[4]
Within(b, c) == b[1] >= c[1] /\ b[2] >= c[2] /\ RightOf(b) <= RightOf(c) /\ BottomOf(b) <= BottomOf(c)
Overlaps(a, b) ==
    ~ (RightOf(a) <= b[1] \/ RightOf(b) <= a[1] \/ BottomOf(a) <= b[2] \/ BottomOf(b) <= a[2])

----------------------------------------------------------------------------
\* The grid.
CanvasBounds(spec) == <<0, 0, spec.canvas[1], spec.canvas[2]>>
SafeBounds(spec) == <<spec.safe, spec.safe, spec.canvas[1] - 2 * spec.safe, spec.canvas[2] - 2 * spec.safe>>

GuttersConsume(size, count, gutter) == size - gutter * (count - 1) <= 0
TrackLines(start, size, count, gutter) ==
    {start, start + size}
    \cup {Rounded(start * count + i * (size + gutter), count) : i \in 1 .. count - 1}
Nearest(lines, value) ==
    CHOOSE l \in lines : \A k \in lines :
       \/ Distance(l, value) < Distance(k, value)
       \/ Distance(l, value) = Distance(k, value) /\ l <= k

Clamp(b, c) ==
    LET left == Greater(c[1], Lesser(b[1], RightOf(c) - 1))
        top == Greater(c[2], Lesser(b[2], BottomOf(c) - 1))
    IN  <<left, top, Lesser(RightOf(c), Greater(left + 1, RightOf(b))) - left,
          Lesser(BottomOf(c), Greater(top + 1, BottomOf(b))) - top>>

\* The span between two lines; one that collapses is given the baseline, as far as
\* the container reaches.
SnappedSpan(lines, from, to, end, baseline) ==
    LET low == Nearest(lines, from)
        high == Nearest(lines, to)
    IN  <<low, (IF high <= low THEN Lesser(end, low + baseline) ELSE high) - low>>
Snap(b, container, grid) ==
    LET xs == TrackLines(container[1], container[3], grid.columns, grid.gutter)
        ys == TrackLines(container[2], container[4], grid.rows, grid.gutter)
        across == SnappedSpan(xs, b[1], RightOf(b), RightOf(container), grid.baseline)
        down == SnappedSpan(ys, b[2], BottomOf(b), BottomOf(container), grid.baseline)
    IN  <<across[1], down[1], across[2], down[2]>>

\* LayoutEngine.build: only the product may leave the safe area.
Container(spec, role) == IF role = "product" THEN CanvasBounds(spec) ELSE SafeBounds(spec)
Snapped(spec, role) ==
    Snap(Clamp(spec.regions[role], Container(spec, role)), Container(spec, role), spec.grid)
Placements(spec) ==
    [role \in DOMAIN spec.regions |-> Clamp(Snapped(spec, role), Container(spec, role))]

Flow == <<"headline", "offer", "cta", "logo">>

Follows(placed, i, j) ==
    /\ i < j /\ {Flow[i], Flow[j]} \subseteq DOMAIN placed
    /\ \A k \in i + 1 .. j - 1 : Flow[k] \notin DOMAIN placed

\* Mutant: regions may touch.
Touching(placed, baseline) ==
    \E i, j \in DOMAIN Flow :
       Follows(placed, i, j) /\ placed[Flow[j]][2] < BottomOf(placed[Flow[i]])

\* SpacingEngine.relations
Crowded(placed, baseline) ==
    \E i, j \in DOMAIN Flow :
       Follows(placed, i, j) /\ placed[Flow[j]][2] - BottomOf(placed[Flow[i]]) < baseline

\* A region without extent, or a product that vanishes beside its headline, has no
\* place in a plan.
LayoutErrors(spec, placed) ==
    \/ \E c \in {CanvasBounds(spec), SafeBounds(spec)} :
          GuttersConsume(c[3], spec.grid.columns, spec.grid.gutter)
          \/ GuttersConsume(c[4], spec.grid.rows, spec.grid.gutter)
    \/ \E role \in DOMAIN spec.regions : Snapped(spec, role)[3] <= 0 \/ Snapped(spec, role)[4] <= 0
    \/ Crowded(placed, spec.grid.baseline)
    \/ placed["product"][3] * placed["product"][4]
          <= (placed["headline"][3] * placed["headline"][4]) \div 20000

----------------------------------------------------------------------------
\* Texts.
TextRoles == <<"headline", "subheadline", "offer", "supporting", "cta">>
CopyOf(copy, role) ==
    CASE role = "offer" -> copy.offer_copy
      [] role = "supporting" -> copy.supporting_copy
      [] OTHER -> copy[role]
StyleKey(role) == IF role = "supporting" THEN "supporting_copy" ELSE role
MinSize == [headline |-> 24, subheadline |-> 16, offer |-> 18, supporting |-> 16, cta |-> 16]

Glyph == 54
Narrow == 28
Space == 33
Blank == [units |-> 0, chars |-> 0]
Joined(line, word) ==
    IF line.chars = 0 THEN word
    ELSE [units |-> line.units + Space + word.units, chars |-> line.chars + 1 + word.chars]
Set(w) ==
    [units |-> Glyph * w.chars + (IF w.stop = "none" THEN 0 ELSE Narrow),
     chars |-> w.chars + (IF w.stop = "none" THEN 0 ELSE 1)]
Measure(line, size, tracking) == line.units * size + 100 * tracking * Greater(0, line.chars - 1)

\* _split_word: how many lines a word fills, and what it leaves on the last of them.
Largest(numbers) == CHOOSE n \in numbers : \A k \in numbers : k <= n
Room(w, width, size, tracking) ==
    Largest({1} \cup {n \in 1 .. w.chars :
                         Measure([units |-> Glyph * n, chars |-> n], size, tracking) <= 100 * width})
LastPart(full, tail, stop, fits) ==
    IF stop = "none" \/ fits THEN [full |-> full, line |-> tail]
    ELSE [full |-> full + 1, line |-> [units |-> Narrow, chars |-> 1]]
PartsOf(w, room) == (w.chars - 1) \div room
Leftover(w, room) == Set([w EXCEPT !.chars = w.chars - PartsOf(w, room) * room])
SplitBy(w, room, width, size, tracking) ==
    LastPart(PartsOf(w, room), Leftover(w, room), w.stop, Measure(Leftover(w, room), size, tracking) <= 100 * width)
SplitWord(w, width, size, tracking) == SplitBy(w, Room(w, width, size, tracking), width, size, tracking)

\* _wrap: the number of lines.  A word goes on the line, on the next one, or is split
\* over the ones that follow.
Broken(before) == before.full + (IF before.line.chars > 0 THEN 1 ELSE 0)
Following(before, split) == [full |-> Broken(before) + split.full, line |-> split.line]
Wrapped(before, w, width, size, tracking) ==
    IF Measure(Joined(before.line, Set(w)), size, tracking) <= 100 * width
    THEN [full |-> before.full, line |-> Joined(before.line, Set(w))]
    ELSE IF Measure(Set(w), size, tracking) <= 100 * width
    THEN [full |-> Broken(before), line |-> Set(w)]
    ELSE Following(before, SplitWord(w, width, size, tracking))
WrappedUpTo(text, width, size, tracking) ==
    LET set[i \in 0 .. Len(text)] ==
            IF i = 0 THEN [full |-> 0, line |-> Blank]
            ELSE Wrapped(set[i - 1], text[i], width, size, tracking)
    IN  set
LineCount(text, width, size, tracking) == WrappedUpTo(text, width, size, tracking)[Len(text)].full + 1

LineHeight(size, style) == Greater(1, Rounded(size * style.leading, 100))
Luminance(colors, role) == (CHOOSE c \in Range(colors) : c.role = role).luminance
Pair(role) == IF role = "cta" THEN {"cta_text", "cta_background"} ELSE {"text", "background"}
HasPair(role, colors) == Pair(role) \subseteq {c.role : c \in Range(colors)}

\* Contrast of at least 3 for large text, 4.5 for other text.
Legible(role, size, style, colors) ==
    LET shades == {Luminance(colors, c) : c \in Pair(role)}
        light == CHOOSE s \in shades : \A t \in shades : t <= s
        dark == CHOOSE s \in shades : \A t \in shades : s <= t
        tenths == IF size >= 24 \/ (size >= 19 /\ style.weight >= 700) THEN 30 ELSE 45
    IN  10 * (light + 500) >= tenths * (dark + 500)

\* _fit_block: the largest size at which the text fits, and what that needs.
NoBlock(failure) == [failure |-> failure, bounds |-> <<0, 0, 0, 0>>, size |-> 0]
Fitting(lines, style, height) ==
    {size \in DOMAIN lines :
        lines[size] <= style.max_lines /\ LineHeight(size, style) * lines[size] <= height}
BlockOf(role, size, height, style, container, colors) ==
    IF ~ HasPair(role, colors) THEN NoBlock("unreadable")
    ELSE IF ~ Legible(role, size, style, colors) THEN NoBlock("unreadable")
    ELSE [failure |-> "none", size |-> size,
          bounds |-> <<container[1], container[2], container[3], height>>]
SizedBlock(role, lines, fits, style, container, colors) ==
    IF fits = {} THEN NoBlock("overflow")
    ELSE BlockOf(role, Largest(fits), LineHeight(Largest(fits), style) * lines[Largest(fits)],
                 style, container, colors)
LinedBlock(role, lines, style, container, colors) ==
    SizedBlock(role, lines, Fitting(lines, style, container[4]), style, container, colors)
FitBlock(role, text, style, container, colors) ==
    LinedBlock(role,
               [size \in MinSize[role] .. style.size |-> LineCount(text, container[3], size, style.tracking)],
               style, container, colors)

----------------------------------------------------------------------------
StyleOf(spec, role) == CHOOSE s \in Range(spec.typography) : s.role = StyleKey(role)
Requested(spec, copy) ==
    {role \in Range(TextRoles) :
        CopyOf(copy, role) # <<>> /\ StyleKey(role) \in {s.role : s \in Range(spec.typography)}}

\* _fit_group: the headline takes two shares of the height, and what a text does not
\* use is left to the last one.
Share(role) == IF role = "headline" THEN 2 ELSE 1
Shares(roles) == IF roles[1] = "headline" THEN Len(roles) + 1 ELSE Len(roles)
NextBlock(before, block, baseline) ==
    [y |-> before.y + block.bounds[4] + baseline, used |-> before.used + block.bounds[4],
     blocks |-> Append(before.blocks, block)]
FitNext(spec, copy, container, role, before, height) ==
    NextBlock(before,
              FitBlock(role, CopyOf(copy, role), StyleOf(spec, role),
                       <<container[1], before.y, container[3], Greater(1, height)>>, spec.colors),
              spec.grid.baseline)
FittedUpTo(spec, copy, container, roles, available) ==
    LET fitted[i \in 0 .. Len(roles)] ==
            IF i = 0 THEN [y |-> container[2], used |-> 0, blocks |-> <<>>]
            ELSE FitNext(spec, copy, container, roles[i], fitted[i - 1],
                         IF i = Len(roles) THEN available - fitted[i - 1].used
                         ELSE (available * Share(roles[i])) \div Shares(roles))
    IN  fitted
FitAll(spec, copy, container, roles, available) ==
    FittedUpTo(spec, copy, container, roles, available)[Len(roles)].blocks

\* Mutant: the space between the texts of a group is not reserved.
FitUnspaced(spec, copy, container, roles) == FitAll(spec, copy, container, roles, container[4])

FitGroup(spec, copy, container, roles) ==
    LET available == container[4] - spec.grid.baseline * (Len(roles) - 1)
    IN  IF available <= 0 THEN [i \in DOMAIN roles |-> NoBlock("overflow")]
        ELSE FitAll(spec, copy, container, roles, available)

\* TypographyEngine.build: the blocks by role.
Grouped == <<"headline", "subheadline", "supporting">>
FitSingle(spec, copy, placed, role) ==
    IF role \notin DOMAIN placed THEN NoBlock("overflow")
    ELSE FitBlock(role, CopyOf(copy, role), StyleOf(spec, role), placed[role], spec.colors)
BlocksOf(roles, group, grouped, single) ==
    [role \in roles |-> IF role \in DOMAIN single THEN single[role]
                        ELSE grouped[CHOOSE i \in DOMAIN group : group[i] = role]]
TextBlocks(spec, copy, placed) ==
    LET roles == Requested(spec, copy)
        group == Chosen(Grouped, roles)
    IN  BlocksOf(roles, group, FitGroup(spec, copy, placed["headline"], group),
                 [role \in roles \ Range(Grouped) |-> FitSingle(spec, copy, placed, role)])

\* What a plan of the texts may fail for.
TypographyFailures(blocks) ==
    ({blocks[r].failure : r \in DOMAIN blocks} \ {"none"})
    \cup (IF \E r, q \in DOMAIN blocks : r # q /\ Overlaps(blocks[r].bounds, blocks[q].bounds)
          THEN {"overlap"} ELSE {})

----------------------------------------------------------------------------
\* _split_bounds: the product region shared between the products.
ProductGap(region, count) == IF count > 1 THEN Lesser(24, region[3] \div 20) ELSE 0
ProductWidth(region, count) == (region[3] - ProductGap(region, count) * (count - 1)) \div count

\* Mutant: the last product is given the width of the region.
ProductBoundsWide(region, count) ==
    LET step == ProductWidth(region, count) + ProductGap(region, count)
    IN  [i \in 1 .. count |->
            <<region[1] + (i - 1) * step, region[2],
              IF i = count THEN region[3] ELSE ProductWidth(region, count), region[4]>>]

ProductBounds(region, count) ==
    LET step == ProductWidth(region, count) + ProductGap(region, count)
    IN  [i \in 1 .. count |->
            <<region[1] + (i - 1) * step, region[2],
              IF i = count THEN region[3] - (i - 1) * step ELSE ProductWidth(region, count), region[4]>>]

\* _contain: an image as large as its region allows, in the middle of it.
Contained(image, b) ==
    LET tall == image[1] * b[4] <= b[3] * image[2]
        width == Greater(1, IF tall THEN Rounded(image[1] * b[4], image[2]) ELSE b[3])
        height == Greater(1, IF tall THEN b[4] ELSE Rounded(image[2] * b[3], image[1]))
    IN  <<b[1] + (b[3] - width) \div 2, b[2] + (b[4] - height) \div 2, width, height>>
=============================================================================
