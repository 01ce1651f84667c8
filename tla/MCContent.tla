------------------------------ MODULE MCContent -----------------------------
(* Small instances of Api, and so of Content, for TLC.                                     *)
EXTENDS Api, TLC

CONSTANTS root, x, y, z, a, b, i, j, k, l, gone, g, noURI, nil

MCDimensions == {a, b}
MCNodes == {root, x, y, z}
MCIds == {i, j, k, l, gone}
MCGroups == {g}

Slash == <<>>
SlashX == <<"x">>
SlashXY == <<"x", "y">>
SlashXYZ == <<"x", "y", "z">>
MCURIs == {Slash, SlashX, SlashXY, SlashXYZ}

(* A root with two nodes x and y, side by side or one below the other,     *)
(* which may have the same id or uri, link to each other, themselves or    *)
(* nowhere, and be hidden or kept from a group, and a node z below y.  The *)
(* index of a node may miss y, or name a child that is not there.          *)
Tree(py, iy, ux, uy, lx, ly, dx) ==
  [parent |-> root :> nil @@ x :> root @@ y :> py @@ z :> y,
   id |-> root :> i @@ x :> j @@ y :> iy @@ z :> l,
   uri |-> root :> Slash @@ x :> ux @@ y :> uy @@ z :> SlashXYZ,
   link |-> root :> nil @@ x :> lx @@ y :> ly @@ z :> nil,
   dest |-> root :> nil @@ x :> dx @@ y :> nil @@ z :> nil,
   hidden |-> {}, groups |-> [n \in MCNodes |-> {}], unlisted |-> {}, dangling |-> {}]

Straight(py) == Tree(py, k, SlashX, SlashXY, nil, nil, nil)

WithPlain(t) == [d \in MCDimensions |-> IF d = a THEN t ELSE Straight(x)]

Linked ==
  {WithPlain(Tree(py, iy, ux, uy, lx, ly, dx)) :
    py \in {root, x}, iy \in {j, k}, ux \in {SlashX, noURI}, uy \in {SlashXY, SlashX, noURI},
    lx \in {nil, i, j, k, gone}, ly \in {nil, j, l, gone}, dx \in {nil, k, gone}}

Shaded ==
  {WithPlain([Straight(py) EXCEPT !.hidden = h, !.groups[x] = gx,
                                  !.unlisted = un, !.dangling = da]) :
    py \in {root, x}, h \in SUBSET {x, y}, gx \in {{}, {g}}, un \in SUBSET {y},
    da \in {{}, {x}, {y}}}

MCExports == Linked \cup Shaded

ByURI ==
  [uri : {noURI, Slash, SlashXY, SlashXYZ},
   env : [dims : {<<>>, <<a>>, <<b, a>>}, groups : {{}, {g}}],
   root : {i}, dim : {nil}, groups : {{}}, expand : {FALSE}, exposeHidden : {FALSE},
   null : {FALSE}]

ByRoot ==
  [uri : {SlashXY}, env : [dims : {<<a>>}, groups : {{}}],
   root : {nil, i, j}, dim : {nil}, groups : {{}, {g}}, expand : BOOLEAN, exposeHidden : BOOLEAN,
   null : {FALSE}]

ByDimension ==
  [uri : {SlashXY}, env : [dims : {<<nil, b>>}, groups : {{}}] \cup {nil},
   root : {nil, i}, dim : {nil, a}, groups : {{}}, expand : {TRUE}, exposeHidden : {FALSE},
   null : {FALSE}]

WithNull ==
  [uri : {noURI, SlashXY}, env : [dims : {<<a>>}, groups : {{}}] \cup {nil},
   root : {nil, i}, dim : {nil}, groups : {{}}, expand : {FALSE}, exposeHidden : {FALSE},
   null : {TRUE}]

MCRequests == ByURI \cup ByRoot \cup ByDimension \cup WithNull
=============================================================================
