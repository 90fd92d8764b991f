--------------------------- MODULE FepScreenProofs ---------------------------
(* Proofs about FepScreen: what arrives of a text's attribute, that fep    *)
(* knows which attribute it has set, that the cursor is where the child    *)
(* has left it, that what the child has written stays, and that no         *)
(* attribute of it is lost.                                                *)
EXTENDS FepScreen, FepCsiProofs

(* An attribute arrives as it was sent if its numbers are below 256.       *)
THEOREM AttributeRoundTrip ==
  ASSUME NEW a \in Attribute, a.value < 256, a.start < 256, a.end < 256
  PROVE  ReadAttributeArg(a) = a
<1>1. a.value \in Nat /\ a.start \in Nat /\ a.end \in Nat
  BY DEF Attribute
<1>2. a.value % 256 = a.value /\ a.start % 256 = a.start /\ a.end % 256 = a.end
  BY SMT, <1>1
<1> QED BY ZenonT(40), <1>2 DEF ReadAttributeArg, Attribute

(* Beyond that the text is styled elsewhere: of the end index only the     *)
(* rest modulo 256 arrives, so that an attribute for the first 256         *)
(* characters of a status text is one for none of them.                    *)
THEOREM WideAttributeLost ==
  ASSUME NEW a \in Attribute, a.start = 0, a.end = 256
  PROVE  /\ ReadAttributeArg(a).start = 0
         /\ ReadAttributeArg(a).end = 0
<1>1. 0 % 256 = 0 /\ 256 % 256 = 0
  BY SMT
<1> QED BY <1>1 DEF ReadAttributeArg, Attribute

(* After apply_attr fep knows the attribute that it has just set, whatever *)
(* was set before, and has left the cursor, the texts and the child's      *)
(* attribute alone.                                                        *)
THEOREM AttributeKnown ==
  ASSUME NEW s, NEW a, "fep" \in DOMAIN s, "tty" \in DOMAIN s,
         "attr" \in DOMAIN s.fep
  PROVE  /\ ApplyAttr(s, a).fep.attr = a
         /\ \A f \in DOMAIN s.fep \ {"attr"} : ApplyAttr(s, a).fep[f] = s.fep[f]
<1>1. \A z : "fep" \in DOMAIN z /\ "tty" \in DOMAIN z /\ z.fep = s.fep
        => /\ SetAttributes(z, a).fep.attr = a
           /\ \A f \in DOMAIN s.fep \ {"attr"} : SetAttributes(z, a).fep[f] = s.fep[f]
  BY DEF SetAttributes
<1> DEFINE reset == [s EXCEPT !.tty = Render(@, <<0>>)]
<1>2. "fep" \in DOMAIN reset /\ "tty" \in DOMAIN reset /\ reset.fep = s.fep
  OBVIOUS
<1> DEFINE cleared == \/ ~(s.fep.attr.attr \subseteq a.attr)
                      \/ s.fep.attr.fg # 0 /\ a.fg = 0
                      \/ s.fep.attr.bg # 0 /\ a.bg = 0
<1>3. ApplyAttr(s, a) = CASE cleared -> SetAttributes(reset, a)
                          [] ~cleared /\ s.fep.attr # a -> SetAttributes(s, a)
                          [] OTHER -> s
  BY DEF ApplyAttr
<1> HIDE DEF reset, cleared
<1>4. CASE cleared
  <2>1. ApplyAttr(s, a) = SetAttributes(reset, a)
    BY Zenon, <1>3, <1>4
  <2> QED BY <1>1, <1>2, <2>1
<1>5. CASE ~cleared /\ s.fep.attr # a
  <2>1. ApplyAttr(s, a) = SetAttributes(s, a)
    BY Zenon, <1>3, <1>5
  <2> QED BY <1>1, <2>1
<1>6. CASE ~cleared /\ s.fep.attr = a
  <2>1. ApplyAttr(s, a) = s
    BY Zenon, <1>3, <1>6
  <2> QED BY <1>6, <2>1
<1> QED BY <1>4, <1>5, <1>6

-----------------------------------------------------------------------------
(* One step of a fold: a character, a part of a text, a token of the       *)
(* child, a parameter of an SGR for the terminal and one for fep, and a    *)
(* token that fep looks at.                                                *)
One(kind, who, a, z, x) ==
  CASE kind = "char" -> Put(z, who, x)
    [] kind = "part" -> WritePart(z, who, a, x)
    [] kind = "token" -> Play(z, x)
    [] kind = "sgr" -> ApplySgr(z, x)
    [] kind = "param" -> ParamToAttr(who, z, x)
    [] kind = "scan" -> NextSgr(who, a, z, x)

(* f is what FoldLeft of n steps may choose; h[k] is what there is after k *)
(* of them.                                                                *)
FoldOf(kind, who, a, t, str, n, f) ==
  f = [s \in SUBSET (1 .. n) |->
         IF s = {} THEN t ELSE One(kind, who, a, f[s \ {Max(s)}], str[Max(s)])]

Runs(kind, who, a, t, str, n, h) ==
  h[0] = t /\ \A k \in 1 .. n : h[k] = One(kind, who, a, h[k - 1], str[k])

(* There is a function that FoldLeft may choose. *)
LEMMA FoldExists ==
  ASSUME NEW kind, NEW who, NEW a, NEW t, NEW str, NEW n \in Nat
  PROVE  \E f : FoldOf(kind, who, a, t, str, n, f)
<1> DEFINE F(f, m) == [s \in SUBSET (1 .. m) |->
                         IF s = {} THEN t
                         ELSE One(kind, who, a, f[s \ {Max(s)}], str[Max(s)])]
           S == {m \in Nat : \E f : f = F(f, m)}
<1>1. 0 \in S
  <2>1. PICK f : f = [s \in SUBSET (1 .. 0) |-> t]
    OBVIOUS
  <2>2. \A s \in SUBSET (1 .. 0) : s = {}
    BY SMT
  <2>3. F(f, 0) = [s \in SUBSET (1 .. 0) |-> t]
    BY Zenon, <2>2
  <2> QED BY Zenon, <2>1, <2>3
<1>2. ASSUME NEW m \in S PROVE m + 1 \in S
  <2>1. PICK f : f = F(f, m)
    OBVIOUS
  <2>2. PICK g : g = F(f, m + 1)
    OBVIOUS
  <2>3. m \in Nat /\ m + 1 \in Nat
    OBVIOUS
  <2>4. \A s \in SUBSET (1 .. m) : s \in SUBSET (1 .. (m + 1))
    BY SMT, <2>3
  <2>5. \A s \in SUBSET (1 .. (m + 1)) : s # {} => s \ {Max(s)} \in SUBSET (1 .. m)
    <3> SUFFICES ASSUME NEW s \in SUBSET (1 .. (m + 1)), s # {}
                 PROVE  s \ {Max(s)} \in SUBSET (1 .. m)
      OBVIOUS
    <3>1. Max(s) \in s /\ \A x \in s : x <= Max(s)
      BY <2>3, MaxIn
    <3>2. ASSUME NEW x \in s \ {Max(s)} PROVE x \in 1 .. m
      <4>1. PICK y : y = Max(s)
        OBVIOUS
      <4>2. x <= y /\ x # y /\ x \in 1 .. (m + 1) /\ y \in 1 .. (m + 1)
        BY Zenon, <3>1, <4>1
      <4> HIDE DEF S
      <4> QED BY SMT, <2>3, <4>2
    <3> QED BY Zenon, <3>2
  <2>6. \A r \in SUBSET (1 .. m) : g[r] = f[r]
    <3> SUFFICES ASSUME NEW r \in SUBSET (1 .. m) PROVE g[r] = f[r]
      OBVIOUS
    <3>1. f[r] = IF r = {} THEN t ELSE One(kind, who, a, f[r \ {Max(r)}], str[Max(r)])
      BY Zenon, <2>1
    <3>2. g[r] = IF r = {} THEN t ELSE One(kind, who, a, f[r \ {Max(r)}], str[Max(r)])
      BY Zenon, <2>2, <2>4
    <3> HIDE DEF F, S
    <3> QED BY <3>1, <3>2
  <2>7. F(f, m + 1) = F(g, m + 1)
    <3>1. \A s \in SUBSET (1 .. (m + 1)) :
            (IF s = {} THEN t ELSE One(kind, who, a, f[s \ {Max(s)}], str[Max(s)]))
            = (IF s = {} THEN t ELSE One(kind, who, a, g[s \ {Max(s)}], str[Max(s)]))
      BY Zenon, <2>5, <2>6
    <3> QED BY Zenon, <3>1
  <2> QED BY Zenon, <2>2, <2>3, <2>7
<1> HIDE DEF F
<1>3. S = Nat
  BY <1>1, <1>2, NumberInduction
<1>4. \E f : f = F(f, n)
  BY Zenon, <1>3
<1> QED BY Zenon, <1>4 DEF F, FoldOf

(* And what it does with the elements, one after the other. *)
LEMMA FoldSteps ==
  ASSUME NEW kind, NEW who, NEW a, NEW t, NEW str, NEW n \in Nat,
         NEW f, FoldOf(kind, who, a, t, str, n, f)
  PROVE  \E h : h[n] = f[1 .. n] /\ Runs(kind, who, a, t, str, n, h)
<1>0. f = [s \in SUBSET (1 .. n) |->
             IF s = {} THEN t ELSE One(kind, who, a, f[s \ {Max(s)}], str[Max(s)])]
  BY Zenon DEF FoldOf
<1>1. PICK h : h = [k \in 0 .. n |-> f[1 .. k]]
  OBVIOUS
<1>2. h[0] = t
  <2>1. 1 .. 0 = {} /\ 0 \in 0 .. n /\ {} \in SUBSET (1 .. n)
    BY SMT
  <2>2. f[{}] = t
    BY Zenon, <1>0, <2>1
  <2> QED BY Zenon, <1>1, <2>1, <2>2
<1>3. h[n] = f[1 .. n]
  <2>1. n \in 0 .. n
    BY SMT
  <2> QED BY Zenon, <1>1, <2>1
<1>4. ASSUME NEW k \in 1 .. n PROVE h[k] = One(kind, who, a, h[k - 1], str[k])
  <2>1. k \in Nat /\ k # 0 /\ k \in 0 .. n /\ k - 1 \in 0 .. n
        /\ 1 .. k \in SUBSET (1 .. n) /\ 1 .. k # {}
    <3>1. k \in Nat /\ k # 0 /\ k \in 0 .. n /\ k - 1 \in 0 .. n
      BY SMT
    <3>2. \A x \in 1 .. k : x \in 1 .. n
      BY SMT
    <3>3. k \in 1 .. k
      BY SMT
    <3> QED BY Zenon, <3>1, <3>2, <3>3
  <2>2. Max(1 .. k) = k /\ (1 .. k) \ {k} = 1 .. (k - 1)
    BY <2>1, MaxRun
  <2>3. f[1 .. k] = One(kind, who, a, f[(1 .. k) \ {Max(1 .. k)}], str[Max(1 .. k)])
    BY Zenon, <1>0, <2>1
  <2>4. f[1 .. k] = One(kind, who, a, f[1 .. (k - 1)], str[k])
    BY Zenon, <2>2, <2>3
  <2> QED BY Zenon, <1>1, <2>1, <2>4
<1> QED BY Zenon, <1>2, <1>3, <1>4 DEF Runs

-----------------------------------------------------------------------------
(* h[k] is what there is after k characters, k of the child's tokens, k    *)
(* parameters, k tokens that fep has looked at, and k parts of a text.     *)
Written(h, who, t, str, n) ==
  h[0] = t /\ \A k \in 1 .. n : h[k] = Put(h[k - 1], who, str[k])

Played(h, t, str, n) ==
  h[0] = t /\ \A k \in 1 .. n : h[k] = Play(h[k - 1], str[k])

Applied(h, a, params, n) ==
  h[0] = a /\ \A k \in 1 .. n : h[k] = ApplySgr(h[k - 1], params[k])

Read(h, codes, params, n) ==
  /\ h[0] = EmptyAttr
  /\ \A k \in 1 .. n : h[k] = ParamToAttr(codes, h[k - 1], params[k])

Scanned(h, codes, len, z, tokens, n) ==
  h[0] = z /\ \A k \in 1 .. n : h[k] = NextSgr(codes, len, h[k - 1], tokens[k])

Drawn(h, who, a, s, parts, n) ==
  h[0] = s /\ \A k \in 1 .. n : h[k] = WritePart(h[k - 1], who, a, parts[k])

(* The folds take these steps.                                             *)
LEMMA PutRuns ==
  ASSUME NEW t, NEW who, NEW str, NEW n \in Nat, DOMAIN str = 1 .. n
  PROVE  \E h : Written(h, who, t, str, n) /\ h[n] = PutAll(t, who, str)
<1> DEFINE it == CHOOSE f : f = [s \in SUBSET (1 .. n) |->
                    IF s = {} THEN t ELSE Put(f[s \ {Max(s)}], who, str[Max(s)])]
<1>1. PutAll(t, who, str) = it[1 .. n]
  BY Zenon DEF PutAll, FoldLeft, MapThenFoldSet
<1>2. \A z, x : One("char", who, <<>>, z, x) = Put(z, who, x)
  BY DEF One
<1>3. ASSUME NEW f
      PROVE  FoldOf("char", who, <<>>, t, str, n, f)
             <=> f = [s \in SUBSET (1 .. n) |->
                        IF s = {} THEN t ELSE Put(f[s \ {Max(s)}], who, str[Max(s)])]
  <2>1. \A s \in SUBSET (1 .. n) :
          (IF s = {} THEN t ELSE One("char", who, <<>>, f[s \ {Max(s)}], str[Max(s)]))
          = (IF s = {} THEN t ELSE Put(f[s \ {Max(s)}], who, str[Max(s)]))
    BY Zenon, <1>2
  <2>2. [s \in SUBSET (1 .. n) |->
           IF s = {} THEN t ELSE One("char", who, <<>>, f[s \ {Max(s)}], str[Max(s)])]
        = [s \in SUBSET (1 .. n) |->
             IF s = {} THEN t ELSE Put(f[s \ {Max(s)}], who, str[Max(s)])]
    BY Zenon, <2>1
  <2> QED BY Zenon, <2>2 DEF FoldOf
<1>4. \E f : FoldOf("char", who, <<>>, t, str, n, f)
  BY FoldExists
<1>5. it = [s \in SUBSET (1 .. n) |->
              IF s = {} THEN t ELSE Put(it[s \ {Max(s)}], who, str[Max(s)])]
  BY Zenon, <1>3, <1>4
<1> HIDE DEF it
<1>6. FoldOf("char", who, <<>>, t, str, n, it)
  BY Zenon, <1>3, <1>5
<1>7. PICK h : h[n] = it[1 .. n] /\ Runs("char", who, <<>>, t, str, n, h)
  BY Zenon, <1>6, FoldSteps
<1>8. h[0] = t /\ \A k \in 1 .. n : h[k] = Put(h[k - 1], who, str[k])
  <2>1. h[0] = t
    BY Zenon, <1>7 DEF Runs
  <2>2. ASSUME NEW k \in 1 .. n PROVE h[k] = Put(h[k - 1], who, str[k])
    <3>1. h[k] = One("char", who, <<>>, h[k - 1], str[k])
      BY Zenon, <1>7 DEF Runs
    <3> QED BY Zenon, <1>2, <3>1
  <2> QED BY Zenon, <2>1, <2>2
<1>9. h[n] = PutAll(t, who, str)
  BY Zenon, <1>1, <1>7
<1> QED BY Zenon, <1>8, <1>9 DEF Written

LEMMA PlayRuns ==
  ASSUME NEW t, NEW str, NEW n \in Nat, DOMAIN str = 1 .. n
  PROVE  \E h : Played(h, t, str, n) /\ h[n] = PlayAll(t, str)
<1> DEFINE it == CHOOSE f : f = [s \in SUBSET (1 .. n) |->
                    IF s = {} THEN t ELSE Play(f[s \ {Max(s)}], str[Max(s)])]
<1>1. PlayAll(t, str) = it[1 .. n]
  BY Zenon DEF PlayAll, FoldLeft, MapThenFoldSet
<1>2. \A z, x : One("token", <<>>, <<>>, z, x) = Play(z, x)
  BY DEF One
<1>3. ASSUME NEW f
      PROVE  FoldOf("token", <<>>, <<>>, t, str, n, f)
             <=> f = [s \in SUBSET (1 .. n) |->
                        IF s = {} THEN t ELSE Play(f[s \ {Max(s)}], str[Max(s)])]
  <2>1. \A s \in SUBSET (1 .. n) :
          (IF s = {} THEN t ELSE One("token", <<>>, <<>>, f[s \ {Max(s)}], str[Max(s)]))
          = (IF s = {} THEN t ELSE Play(f[s \ {Max(s)}], str[Max(s)]))
    BY Zenon, <1>2
  <2>2. [s \in SUBSET (1 .. n) |->
           IF s = {} THEN t ELSE One("token", <<>>, <<>>, f[s \ {Max(s)}], str[Max(s)])]
        = [s \in SUBSET (1 .. n) |->
             IF s = {} THEN t ELSE Play(f[s \ {Max(s)}], str[Max(s)])]
    BY Zenon, <2>1
  <2> QED BY Zenon, <2>2 DEF FoldOf
<1>4. \E f : FoldOf("token", <<>>, <<>>, t, str, n, f)
  BY FoldExists
<1>5. it = [s \in SUBSET (1 .. n) |->
              IF s = {} THEN t ELSE Play(it[s \ {Max(s)}], str[Max(s)])]
  BY Zenon, <1>3, <1>4
<1> HIDE DEF it
<1>6. FoldOf("token", <<>>, <<>>, t, str, n, it)
  BY Zenon, <1>3, <1>5
<1>7. PICK h : h[n] = it[1 .. n] /\ Runs("token", <<>>, <<>>, t, str, n, h)
  BY Zenon, <1>6, FoldSteps
<1>8. h[0] = t /\ \A k \in 1 .. n : h[k] = Play(h[k - 1], str[k])
  <2>1. h[0] = t
    BY Zenon, <1>7 DEF Runs
  <2>2. ASSUME NEW k \in 1 .. n PROVE h[k] = Play(h[k - 1], str[k])
    <3>1. h[k] = One("token", <<>>, <<>>, h[k - 1], str[k])
      BY Zenon, <1>7 DEF Runs
    <3> QED BY Zenon, <1>2, <3>1
  <2> QED BY Zenon, <2>1, <2>2
<1>9. h[n] = PlayAll(t, str)
  BY Zenon, <1>1, <1>7
<1> QED BY Zenon, <1>8, <1>9 DEF Played

LEMMA ApplyRuns ==
  ASSUME NEW a, NEW params, NEW n \in Nat, DOMAIN params = 1 .. n
  PROVE  \E h : Applied(h, a, params, n) /\ h[n] = ApplyAll(a, params)
<1> DEFINE it == CHOOSE f : f = [s \in SUBSET (1 .. n) |->
                    IF s = {} THEN a ELSE ApplySgr(f[s \ {Max(s)}], params[Max(s)])]
<1>1. ApplyAll(a, params) = it[1 .. n]
  BY Zenon DEF ApplyAll, FoldLeft, MapThenFoldSet
<1>2. \A z, x : One("sgr", <<>>, <<>>, z, x) = ApplySgr(z, x)
  BY DEF One
<1>3. ASSUME NEW f
      PROVE  FoldOf("sgr", <<>>, <<>>, a, params, n, f)
             <=> f = [s \in SUBSET (1 .. n) |->
                        IF s = {} THEN a ELSE ApplySgr(f[s \ {Max(s)}], params[Max(s)])]
  <2>1. \A s \in SUBSET (1 .. n) :
          (IF s = {} THEN a ELSE One("sgr", <<>>, <<>>, f[s \ {Max(s)}], params[Max(s)]))
          = (IF s = {} THEN a ELSE ApplySgr(f[s \ {Max(s)}], params[Max(s)]))
    BY Zenon, <1>2
  <2>2. [s \in SUBSET (1 .. n) |->
           IF s = {} THEN a ELSE One("sgr", <<>>, <<>>, f[s \ {Max(s)}], params[Max(s)])]
        = [s \in SUBSET (1 .. n) |->
             IF s = {} THEN a ELSE ApplySgr(f[s \ {Max(s)}], params[Max(s)])]
    BY Zenon, <2>1
  <2> QED BY Zenon, <2>2 DEF FoldOf
<1>4. \E f : FoldOf("sgr", <<>>, <<>>, a, params, n, f)
  BY FoldExists
<1>5. it = [s \in SUBSET (1 .. n) |->
              IF s = {} THEN a ELSE ApplySgr(it[s \ {Max(s)}], params[Max(s)])]
  BY Zenon, <1>3, <1>4
<1> HIDE DEF it
<1>6. FoldOf("sgr", <<>>, <<>>, a, params, n, it)
  BY Zenon, <1>3, <1>5
<1>7. PICK h : h[n] = it[1 .. n] /\ Runs("sgr", <<>>, <<>>, a, params, n, h)
  BY Zenon, <1>6, FoldSteps
<1>8. h[0] = a /\ \A k \in 1 .. n : h[k] = ApplySgr(h[k - 1], params[k])
  <2>1. h[0] = a
    BY Zenon, <1>7 DEF Runs
  <2>2. ASSUME NEW k \in 1 .. n PROVE h[k] = ApplySgr(h[k - 1], params[k])
    <3>1. h[k] = One("sgr", <<>>, <<>>, h[k - 1], params[k])
      BY Zenon, <1>7 DEF Runs
    <3> QED BY Zenon, <1>2, <3>1
  <2> QED BY Zenon, <2>1, <2>2
<1>9. h[n] = ApplyAll(a, params)
  BY Zenon, <1>1, <1>7
<1> QED BY Zenon, <1>8, <1>9 DEF Applied

LEMMA ParamRuns ==
  ASSUME NEW codes, NEW params, NEW n \in Nat, DOMAIN params = 1 .. n
  PROVE  \E h : Read(h, codes, params, n) /\ h[n] = ParamsToAttr(params, codes)
<1> DEFINE it == CHOOSE f : f = [s \in SUBSET (1 .. n) |->
                    IF s = {} THEN EmptyAttr ELSE ParamToAttr(codes, f[s \ {Max(s)}], params[Max(s)])]
<1>1. ParamsToAttr(params, codes) = it[1 .. n]
  BY Zenon DEF ParamsToAttr, FoldLeft, MapThenFoldSet
<1>2. \A z, x : One("param", codes, <<>>, z, x) = ParamToAttr(codes, z, x)
  BY DEF One
<1>3. ASSUME NEW f
      PROVE  FoldOf("param", codes, <<>>, EmptyAttr, params, n, f)
             <=> f = [s \in SUBSET (1 .. n) |->
                        IF s = {} THEN EmptyAttr ELSE ParamToAttr(codes, f[s \ {Max(s)}], params[Max(s)])]
  <2>1. \A s \in SUBSET (1 .. n) :
          (IF s = {} THEN EmptyAttr ELSE One("param", codes, <<>>, f[s \ {Max(s)}], params[Max(s)]))
          = (IF s = {} THEN EmptyAttr ELSE ParamToAttr(codes, f[s \ {Max(s)}], params[Max(s)]))
    BY Zenon, <1>2
  <2>2. [s \in SUBSET (1 .. n) |->
           IF s = {} THEN EmptyAttr ELSE One("param", codes, <<>>, f[s \ {Max(s)}], params[Max(s)])]
        = [s \in SUBSET (1 .. n) |->
             IF s = {} THEN EmptyAttr ELSE ParamToAttr(codes, f[s \ {Max(s)}], params[Max(s)])]
    BY Zenon, <2>1
  <2> QED BY Zenon, <2>2 DEF FoldOf
<1>4. \E f : FoldOf("param", codes, <<>>, EmptyAttr, params, n, f)
  BY FoldExists
<1>5. it = [s \in SUBSET (1 .. n) |->
              IF s = {} THEN EmptyAttr ELSE ParamToAttr(codes, it[s \ {Max(s)}], params[Max(s)])]
  BY Zenon, <1>3, <1>4
<1> HIDE DEF it
<1>6. FoldOf("param", codes, <<>>, EmptyAttr, params, n, it)
  BY Zenon, <1>3, <1>5
<1>7. PICK h : h[n] = it[1 .. n] /\ Runs("param", codes, <<>>, EmptyAttr, params, n, h)
  BY Zenon, <1>6, FoldSteps
<1>8. h[0] = EmptyAttr /\ \A k \in 1 .. n : h[k] = ParamToAttr(codes, h[k - 1], params[k])
  <2>1. h[0] = EmptyAttr
    BY Zenon, <1>7 DEF Runs
  <2>2. ASSUME NEW k \in 1 .. n PROVE h[k] = ParamToAttr(codes, h[k - 1], params[k])
    <3>1. h[k] = One("param", codes, <<>>, h[k - 1], params[k])
      BY Zenon, <1>7 DEF Runs
    <3> QED BY Zenon, <1>2, <3>1
  <2> QED BY Zenon, <2>1, <2>2
<1>9. h[n] = ParamsToAttr(params, codes)
  BY Zenon, <1>1, <1>7
<1> QED BY Zenon, <1>8, <1>9 DEF Read

LEMMA ScanRuns ==
  ASSUME NEW codes, NEW len, NEW z0, NEW tokens, NEW n \in Nat, DOMAIN tokens = 1 .. n
  PROVE  \E h : Scanned(h, codes, len, z0, tokens, n) /\ h[n] = Scan(codes, len, z0, tokens)
<1> DEFINE it == CHOOSE f : f = [s \in SUBSET (1 .. n) |->
                    IF s = {} THEN z0 ELSE NextSgr(codes, len, f[s \ {Max(s)}], tokens[Max(s)])]
<1>1. Scan(codes, len, z0, tokens) = it[1 .. n]
  BY Zenon DEF Scan, FoldLeft, MapThenFoldSet
<1>2. \A z, x : One("scan", codes, len, z, x) = NextSgr(codes, len, z, x)
  BY DEF One
<1>3. ASSUME NEW f
      PROVE  FoldOf("scan", codes, len, z0, tokens, n, f)
             <=> f = [s \in SUBSET (1 .. n) |->
                        IF s = {} THEN z0 ELSE NextSgr(codes, len, f[s \ {Max(s)}], tokens[Max(s)])]
  <2>1. \A s \in SUBSET (1 .. n) :
          (IF s = {} THEN z0 ELSE One("scan", codes, len, f[s \ {Max(s)}], tokens[Max(s)]))
          = (IF s = {} THEN z0 ELSE NextSgr(codes, len, f[s \ {Max(s)}], tokens[Max(s)]))
    BY Zenon, <1>2
  <2>2. [s \in SUBSET (1 .. n) |->
           IF s = {} THEN z0 ELSE One("scan", codes, len, f[s \ {Max(s)}], tokens[Max(s)])]
        = [s \in SUBSET (1 .. n) |->
             IF s = {} THEN z0 ELSE NextSgr(codes, len, f[s \ {Max(s)}], tokens[Max(s)])]
    BY Zenon, <2>1
  <2> QED BY Zenon, <2>2 DEF FoldOf
<1>4. \E f : FoldOf("scan", codes, len, z0, tokens, n, f)
  BY FoldExists
<1>5. it = [s \in SUBSET (1 .. n) |->
              IF s = {} THEN z0 ELSE NextSgr(codes, len, it[s \ {Max(s)}], tokens[Max(s)])]
  BY Zenon, <1>3, <1>4
<1> HIDE DEF it
<1>6. FoldOf("scan", codes, len, z0, tokens, n, it)
  BY Zenon, <1>3, <1>5
<1>7. PICK h : h[n] = it[1 .. n] /\ Runs("scan", codes, len, z0, tokens, n, h)
  BY Zenon, <1>6, FoldSteps
<1>8. h[0] = z0 /\ \A k \in 1 .. n : h[k] = NextSgr(codes, len, h[k - 1], tokens[k])
  <2>1. h[0] = z0
    BY Zenon, <1>7 DEF Runs
  <2>2. ASSUME NEW k \in 1 .. n PROVE h[k] = NextSgr(codes, len, h[k - 1], tokens[k])
    <3>1. h[k] = One("scan", codes, len, h[k - 1], tokens[k])
      BY Zenon, <1>7 DEF Runs
    <3> QED BY Zenon, <1>2, <3>1
  <2> QED BY Zenon, <2>1, <2>2
<1>9. h[n] = Scan(codes, len, z0, tokens)
  BY Zenon, <1>1, <1>7
<1> QED BY Zenon, <1>8, <1>9 DEF Scanned

LEMMA PartRuns ==
  ASSUME NEW t, NEW who, NEW a, NEW str, NEW n \in Nat, DOMAIN str = 1 .. n
  PROVE  \E h : Drawn(h, who, a, t, str, n) /\ h[n] = WriteParts(t, who, a, str)
<1> DEFINE it == CHOOSE f : f = [s \in SUBSET (1 .. n) |->
                    IF s = {} THEN t ELSE WritePart(f[s \ {Max(s)}], who, a, str[Max(s)])]
<1>1. WriteParts(t, who, a, str) = it[1 .. n]
  BY Zenon DEF WriteParts, FoldLeft, MapThenFoldSet
<1>2. \A z, x : One("part", who, a, z, x) = WritePart(z, who, a, x)
  BY DEF One
<1>3. ASSUME NEW f
      PROVE  FoldOf("part", who, a, t, str, n, f)
             <=> f = [s \in SUBSET (1 .. n) |->
                        IF s = {} THEN t ELSE WritePart(f[s \ {Max(s)}], who, a, str[Max(s)])]
  <2>1. \A s \in SUBSET (1 .. n) :
          (IF s = {} THEN t ELSE One("part", who, a, f[s \ {Max(s)}], str[Max(s)]))
          = (IF s = {} THEN t ELSE WritePart(f[s \ {Max(s)}], who, a, str[Max(s)]))
    BY Zenon, <1>2
  <2>2. [s \in SUBSET (1 .. n) |->
           IF s = {} THEN t ELSE One("part", who, a, f[s \ {Max(s)}], str[Max(s)])]
        = [s \in SUBSET (1 .. n) |->
             IF s = {} THEN t ELSE WritePart(f[s \ {Max(s)}], who, a, str[Max(s)])]
    BY Zenon, <2>1
  <2> QED BY Zenon, <2>2 DEF FoldOf
<1>4. \E f : FoldOf("part", who, a, t, str, n, f)
  BY FoldExists
<1>5. it = [s \in SUBSET (1 .. n) |->
              IF s = {} THEN t ELSE WritePart(it[s \ {Max(s)}], who, a, str[Max(s)])]
  BY Zenon, <1>3, <1>4
<1> HIDE DEF it
<1>6. FoldOf("part", who, a, t, str, n, it)
  BY Zenon, <1>3, <1>5
<1>7. PICK h : h[n] = it[1 .. n] /\ Runs("part", who, a, t, str, n, h)
  BY Zenon, <1>6, FoldSteps
<1>8. h[0] = t /\ \A k \in 1 .. n : h[k] = WritePart(h[k - 1], who, a, str[k])
  <2>1. h[0] = t
    BY Zenon, <1>7 DEF Runs
  <2>2. ASSUME NEW k \in 1 .. n PROVE h[k] = WritePart(h[k - 1], who, a, str[k])
    <3>1. h[k] = One("part", who, a, h[k - 1], str[k])
      BY Zenon, <1>7 DEF Runs
    <3> QED BY Zenon, <1>2, <3>1
  <2> QED BY Zenon, <2>1, <2>2
<1>9. h[n] = WriteParts(t, who, a, str)
  BY Zenon, <1>1, <1>7
<1> QED BY Zenon, <1>8, <1>9 DEF Drawn

-----------------------------------------------------------------------------
(* SGR: attributes stay attributes, and of two terminals the one that had  *)
(* more of them still has.                                                 *)
LEMMA EmptyAttrType == EmptyAttr \in SgrAttr
  BY DEF EmptyAttr, SgrAttr, Colour

LEMMA ApplySgrType ==
  ASSUME NEW a \in SgrAttr, NEW p
  PROVE  ApplySgr(a, p) \in SgrAttr
  BY SMT, EmptyAttrType DEF ApplySgr, SgrAttr, Colour, SgrBits, BOLD, UNDERLINE, BLINK, STANDOUT

LEMMA ApplySgrMore ==
  ASSUME NEW a \in SgrAttr, NEW b \in SgrAttr, b.attr \subseteq a.attr, NEW p
  PROVE  ApplySgr(b, p).attr \subseteq ApplySgr(a, p).attr
  BY SMT DEF ApplySgr, SgrAttr, EmptyAttr

LEMMA ApplyAllType ==
  ASSUME NEW a \in SgrAttr, NEW params, NEW n \in Nat, DOMAIN params = 1 .. n
  PROVE  ApplyAll(a, params) \in SgrAttr
<1>1. PICK h : Applied(h, a, params, n) /\ h[n] = ApplyAll(a, params)
  BY Zenon, ApplyRuns
<1> DEFINE S == {k \in Nat : k <= n => h[k] \in SgrAttr}
<1>2. 0 \in S
  BY <1>1 DEF Applied
<1>3. ASSUME NEW k \in S PROVE k + 1 \in S
  <2> SUFFICES ASSUME k + 1 <= n PROVE h[k + 1] \in SgrAttr
    OBVIOUS
  <2>1. k \in Nat /\ k <= n /\ k + 1 \in 1 .. n /\ (k + 1) - 1 = k
    BY SMT
  <2>2. h[k] \in SgrAttr
    BY <2>1
  <2>3. h[k + 1] = ApplySgr(h[k], params[k + 1])
    BY <1>1, <2>1 DEF Applied
  <2> QED BY <2>2, <2>3, ApplySgrType
<1>4. S = Nat
  BY <1>2, <1>3, NumberInduction
<1>5. h[n] \in SgrAttr
  <2>1. n <= n
    BY SMT
  <2> QED BY Zenon, <1>4, <2>1
<1> QED BY Zenon, <1>1, <1>5

LEMMA ApplyAllMore ==
  ASSUME NEW a \in SgrAttr, NEW b \in SgrAttr, b.attr \subseteq a.attr,
         NEW params, NEW n \in Nat, DOMAIN params = 1 .. n
  PROVE  ApplyAll(b, params).attr \subseteq ApplyAll(a, params).attr
<1>1. PICK h : Applied(h, a, params, n) /\ h[n] = ApplyAll(a, params)
  BY Zenon, ApplyRuns
<1>2. PICK g : Applied(g, b, params, n) /\ g[n] = ApplyAll(b, params)
  BY Zenon, ApplyRuns
<1> DEFINE S == {k \in Nat : k <= n => /\ h[k] \in SgrAttr /\ g[k] \in SgrAttr
                                       /\ g[k].attr \subseteq h[k].attr}
<1>3. 0 \in S
  BY <1>1, <1>2 DEF Applied
<1>4. ASSUME NEW k \in S PROVE k + 1 \in S
  <2> SUFFICES ASSUME k + 1 <= n
               PROVE  /\ h[k + 1] \in SgrAttr /\ g[k + 1] \in SgrAttr
                      /\ g[k + 1].attr \subseteq h[k + 1].attr
    OBVIOUS
  <2>1. k \in Nat /\ k <= n /\ k + 1 \in 1 .. n /\ (k + 1) - 1 = k
    BY SMT
  <2>2. h[k] \in SgrAttr /\ g[k] \in SgrAttr /\ g[k].attr \subseteq h[k].attr
    BY <2>1
  <2>3. /\ h[k + 1] = ApplySgr(h[k], params[k + 1])
        /\ g[k + 1] = ApplySgr(g[k], params[k + 1])
    BY <1>1, <1>2, <2>1 DEF Applied
  <2> QED BY <2>2, <2>3, ApplySgrType, ApplySgrMore
<1>5. S = Nat
  BY <1>3, <1>4, NumberInduction
<1>6. g[n].attr \subseteq h[n].attr
  <2>1. n <= n
    BY SMT
  <2> QED BY Zenon, <1>5, <2>1
<1> QED BY Zenon, <1>1, <1>2, <1>6

(* What fep takes the child's SGR for are attributes, too.                 *)
LEMMA ParamToAttrType ==
  ASSUME NEW codes, NEW a \in SgrAttr, NEW param
  PROVE  ParamToAttr(codes, a, param) \in SgrAttr
<1>1. SetColour(a, param) \in SgrAttr
  BY SMT DEF SetColour, SgrAttr, Colour
<1>2. TypeMask("bold") \in SUBSET SgrBits /\ TypeMask("blink") \in SUBSET SgrBits
      /\ TypeMask("underline") \in SUBSET SgrBits /\ TypeMask("standout") \in SUBSET SgrBits
  BY Zenon DEF TypeMask
<1>3. ASSUME NEW m \in SUBSET SgrBits
      PROVE  [a EXCEPT !.attr = @ \cup m] \in SgrAttr /\ [a EXCEPT !.attr = @ \ m] \in SgrAttr
  BY SMT DEF SgrAttr
<1>4. /\ [a EXCEPT !.fg = 0] \in SgrAttr /\ [a EXCEPT !.bg = 0] \in SgrAttr
      /\ [a EXCEPT !.fg = 0, !.bg = 0] \in SgrAttr
  <2>1. 0 \in Colour
    BY DEF Colour
  <2>2. [a EXCEPT !.fg = 0] \in SgrAttr
    BY SMT, <2>1 DEF SgrAttr
  <2>3. [a EXCEPT !.bg = 0] \in SgrAttr
    BY SMT, <2>1 DEF SgrAttr
  <2>4. [a EXCEPT !.fg = 0, !.bg = 0] \in SgrAttr
    BY ZenonT(30), <2>1 DEF SgrAttr
  <2> QED BY <2>2, <2>3, <2>4
<1> QED BY Zenon, <1>1, <1>2, <1>3, <1>4, EmptyAttrType DEF ParamToAttr

LEMMA ParamsToAttrType ==
  ASSUME NEW codes, NEW params, NEW n \in Nat, DOMAIN params = 1 .. n
  PROVE  ParamsToAttr(params, codes) \in SgrAttr
<1>1. PICK h : Read(h, codes, params, n) /\ h[n] = ParamsToAttr(params, codes)
  BY Zenon, ParamRuns
<1> DEFINE S == {k \in Nat : k <= n => h[k] \in SgrAttr}
<1>2. 0 \in S
  BY <1>1, EmptyAttrType DEF Read
<1>3. ASSUME NEW k \in S PROVE k + 1 \in S
  <2> SUFFICES ASSUME k + 1 <= n PROVE h[k + 1] \in SgrAttr
    OBVIOUS
  <2>1. k \in Nat /\ k <= n /\ k + 1 \in 1 .. n /\ (k + 1) - 1 = k
    BY SMT
  <2>2. h[k] \in SgrAttr
    BY <2>1
  <2>3. h[k + 1] = ParamToAttr(codes, h[k], params[k + 1])
    BY <1>1, <2>1 DEF Read
  <2> QED BY <2>2, <2>3, ParamToAttrType
<1>4. S = Nat
  BY <1>2, <1>3, NumberInduction
<1>5. h[n] \in SgrAttr
  <2>1. n <= n
    BY SMT
  <2> QED BY Zenon, <1>4, <2>1
<1> QED BY Zenon, <1>1, <1>5

LEMMA LastSgrType ==
  ASSUME NEW codes, NEW attr \in SgrAttr, NEW str \in Seq(Token), NEW rest \in Seq(Token)
  PROVE  LastSgr(codes, attr, str, rest) \in SgrAttr
<1>1. PICK z0, len, out : /\ z0 = [pos |-> 0, p |-> 0, attr |-> attr]
                          /\ len = Bytes(str) /\ out = str \o rest
  OBVIOUS
<1>2. PICK n \in Nat : DOMAIN out = 1 .. n /\ \A k \in 1 .. n : out[k] \in Token
  <2>1. out \in Seq(Token)
    BY <1>1
  <2> QED BY <2>1
<1>3. PICK h : Scanned(h, codes, len, z0, out, n) /\ h[n] = Scan(codes, len, z0, out)
  BY Zenon, <1>2, ScanRuns
<1> DEFINE Good(z) == z.attr \in SgrAttr /\ DOMAIN z = {"pos", "p", "attr"}
           S == {k \in Nat : k <= n => Good(h[k])}
<1>4. 0 \in S
  BY <1>1, <1>3 DEF Scanned
<1>5. ASSUME NEW k \in S PROVE k + 1 \in S
  <2> SUFFICES ASSUME k + 1 <= n PROVE Good(h[k + 1])
    OBVIOUS
  <2>1. k \in Nat /\ k <= n /\ k + 1 \in 1 .. n /\ (k + 1) - 1 = k
    BY SMT
  <2>2. Good(h[k]) /\ out[k + 1] \in Token
    BY <1>2, <2>1
  <2>3. h[k + 1] = NextSgr(codes, len, h[k], out[k + 1])
    BY <1>3, <2>1 DEF Scanned
  <2>4. ParamsToAttr(out[k + 1].params, codes) \in SgrAttr
    <3>1. out[k + 1].params \in Seq(Nat)
      BY <2>2 DEF Token
    <3>2. DOMAIN out[k + 1].params = 1 .. Len(out[k + 1].params)
          /\ Len(out[k + 1].params) \in Nat
      BY <3>1
    <3> QED BY <3>2, ParamsToAttrType
  <2>5. PICK y, tok : y = h[k] /\ tok = out[k + 1]
    OBVIOUS
  <2>6. PICK e : e = y.pos + tok.bytes
    OBVIOUS
  <2>7. h[k + 1] = IF tok.op = "sgr" /\ e <= y.p + len
                     THEN [pos |-> e, p |-> e, attr |-> ParamsToAttr(tok.params, codes)]
                     ELSE [y EXCEPT !.pos = e]
    BY Zenon, <2>3, <2>5, <2>6 DEF NextSgr
  <2>8. Good(y) /\ ParamsToAttr(tok.params, codes) \in SgrAttr
    BY <2>2, <2>4, <2>5
  <2> QED BY <2>7, <2>8
<1>6. S = Nat
  BY <1>4, <1>5, NumberInduction
<1>7. Good(h[n])
  <2>1. n <= n
    BY SMT
  <2> QED BY Zenon, <1>6, <2>1
<1> QED BY Zenon, <1>1, <1>3, <1>7 DEF LastSgr

LEMMA AttrFromAttributeType ==
  ASSUME NEW a
  PROVE  AttrFromAttribute(a) \in SgrAttr
<1>1. PICK set : /\ AttrFromAttribute(a) = [EmptyAttr EXCEPT !.attr = set]
                 /\ set \in {{}, {UNDERLINE}, {STANDOUT}, {BOLD}, {BLINK}}
  BY Zenon DEF AttrFromAttribute
<1>2. set \in SUBSET SgrBits
  BY Zenon, <1>1 DEF SgrBits
<1> QED BY SMT, <1>1, <1>2, EmptyAttrType DEF SgrAttr

(* The parameters that fep sets an attribute with.                         *)
Entering(codes) ==
  {codes[e] : e \in {"enter_underline", "enter_standout", "enter_bold", "enter_blink"}} \ {0}

ColourParams == 30 .. 37 \cup 40 .. 47 \cup 90 .. 97 \cup 100 .. 107

LEMMA ParamsOfAttr ==
  ASSUME NEW a \in SgrAttr, NEW codes
  PROVE  /\ ParamsFromAttr(a, codes) \in Seq(Entering(codes) \cup ColourParams)
         /\ a.fg # 0 \/ a.bg # 0 => ParamsFromAttr(a, codes) # <<>>
         /\ \A e \in {[bit |-> UNDERLINE, code |-> "enter_underline"],
                      [bit |-> STANDOUT, code |-> "enter_standout"],
                      [bit |-> BOLD, code |-> "enter_bold"],
                      [bit |-> BLINK, code |-> "enter_blink"]} :
              e.bit \in a.attr /\ codes[e.code] # 0 => ParamsFromAttr(a, codes) # <<>>
<1> DEFINE enter(bit, code) ==
             IF bit \in a.attr /\ codes[code] # 0 THEN <<codes[code]>> ELSE <<>>
           fg == IF a.fg # 0 THEN <<a.fg>> ELSE <<>>
           bg == IF a.bg # 0 THEN <<a.bg + 10>> ELSE <<>>
<1>1. PICK S : S = Entering(codes) \cup ColourParams
  OBVIOUS
<1>2. PICK u, v, w, x : /\ u = enter(UNDERLINE, "enter_underline")
                        /\ v = enter(STANDOUT, "enter_standout")
                        /\ w = enter(BOLD, "enter_bold")
                        /\ x = enter(BLINK, "enter_blink")
  OBVIOUS
<1>3. PICK y, z : y = fg /\ z = bg
  OBVIOUS
<1>4. ParamsFromAttr(a, codes) = u \o v \o w \o x \o y \o z
  BY Zenon, <1>2, <1>3 DEF ParamsFromAttr
<1>5. ASSUME NEW bit,
             NEW e \in {"enter_underline", "enter_standout", "enter_bold", "enter_blink"}
      PROVE  enter(bit, e) \in Seq(S)
  <2>1. codes[e] # 0 => codes[e] \in S
    BY Zenon, <1>1 DEF Entering
  <2>2. codes[e] # 0 => <<codes[e]>> \in Seq(S)
    BY <2>1
  <2>3. <<>> \in Seq(S)
    OBVIOUS
  <2> QED BY Zenon, <2>2, <2>3
<1>6. /\ u \in Seq(S) /\ v \in Seq(S) /\ w \in Seq(S) /\ x \in Seq(S)
  BY Zenon, <1>2, <1>5
<1>7. y \in Seq(S) /\ z \in Seq(S)
  <2>1. /\ a.fg # 0 => a.fg \in ColourParams
        /\ a.bg # 0 => a.bg + 10 \in ColourParams
    BY SMT DEF SgrAttr, Colour, ColourParams
  <2>2. /\ a.fg # 0 => a.fg \in S
        /\ a.bg # 0 => a.bg + 10 \in S
    BY Zenon, <1>1, <2>1
  <2>3. /\ a.fg # 0 => <<a.fg>> \in Seq(S)
        /\ a.bg # 0 => <<a.bg + 10>> \in Seq(S)
    BY <2>2
  <2>4. <<>> \in Seq(S)
    OBVIOUS
  <2> QED BY Zenon, <1>3, <2>3, <2>4
<1>8. u \o v \o w \o x \o y \o z \in Seq(S)
  BY <1>6, <1>7
<1>9. Len(u \o v \o w \o x \o y \o z) = Len(u) + Len(v) + Len(w) + Len(x) + Len(y) + Len(z)
  BY <1>6, <1>7
<1>10. /\ Len(u) \in Nat /\ Len(v) \in Nat /\ Len(w) \in Nat
       /\ Len(x) \in Nat /\ Len(y) \in Nat /\ Len(z) \in Nat
  BY <1>6, <1>7
<1>11. u \o v \o w \o x \o y \o z = <<>> => u = <<>> /\ v = <<>> /\ w = <<>> /\ x = <<>>
                                             /\ y = <<>> /\ z = <<>>
  BY <1>6, <1>7, <1>9, <1>10
<1>12. a.fg # 0 \/ a.bg # 0 => ParamsFromAttr(a, codes) # <<>>
  <2>1. (a.fg # 0 => y # <<>>) /\ (a.bg # 0 => z # <<>>)
    BY <1>3
  <2> QED BY Zenon, <1>4, <1>11, <2>1
<1>13. ASSUME NEW e \in {[bit |-> UNDERLINE, code |-> "enter_underline"],
                         [bit |-> STANDOUT, code |-> "enter_standout"],
                         [bit |-> BOLD, code |-> "enter_bold"],
                         [bit |-> BLINK, code |-> "enter_blink"]},
              e.bit \in a.attr, codes[e.code] # 0
       PROVE  ParamsFromAttr(a, codes) # <<>>
  <2>1. enter(e.bit, e.code) = <<codes[e.code]>>
    BY <1>13
  <2>2. enter(e.bit, e.code) # <<>>
    BY <2>1
  <2>3. enter(e.bit, e.code) \in {u, v, w, x}
    BY <1>2
  <2> QED BY Zenon, <1>4, <1>11, <2>2, <2>3
<1> QED BY Zenon, <1>1, <1>4, <1>8, <1>12, <1>13

(* What fep sets on a terminal with EnteringAdds is set in addition.       *)
LEMMA AddsOne ==
  ASSUME EnteringAdds, NEW a \in SgrAttr,
         NEW p \in Entering(GetSgrCodes) \cup ColourParams
  PROVE  a.attr \subseteq ApplySgr(a, p).attr
<1>1. p \notin {0, 22, 24, 25, 27}
  <2>1. CASE p \in Entering(GetSgrCodes)
    BY Zenon, <2>1 DEF EnteringAdds, Entering
  <2>2. CASE p \in ColourParams
    BY SMT, <2>2 DEF ColourParams
  <2> QED BY <2>1, <2>2
<1> QED BY SMT, <1>1 DEF ApplySgr, SgrAttr

LEMMA AddsAll ==
  ASSUME EnteringAdds, NEW a \in SgrAttr,
         NEW params \in Seq(Entering(GetSgrCodes) \cup ColourParams)
  PROVE  a.attr \subseteq ApplyAll(a, params).attr
<1> DEFINE n == Len(params)
<1>0. n \in Nat /\ DOMAIN params = 1 .. n
  OBVIOUS
<1>1. PICK h : Applied(h, a, params, n) /\ h[n] = ApplyAll(a, params)
  BY Zenon, <1>0, ApplyRuns
<1> DEFINE S == {k \in Nat : k <= n => h[k] \in SgrAttr /\ a.attr \subseteq h[k].attr}
<1>2. 0 \in S
  BY <1>1 DEF Applied
<1>3. ASSUME NEW k \in S PROVE k + 1 \in S
  <2> SUFFICES ASSUME k + 1 <= n
               PROVE  h[k + 1] \in SgrAttr /\ a.attr \subseteq h[k + 1].attr
    OBVIOUS
  <2>1. k \in Nat /\ k <= n /\ k + 1 \in 1 .. n /\ (k + 1) - 1 = k
    BY SMT, <1>0
  <2>2. /\ h[k] \in SgrAttr /\ a.attr \subseteq h[k].attr
        /\ params[k + 1] \in Entering(GetSgrCodes) \cup ColourParams
    BY <2>1
  <2>3. h[k + 1] = ApplySgr(h[k], params[k + 1])
    BY <1>1, <2>1 DEF Applied
  <2>4. h[k].attr \subseteq h[k + 1].attr
    BY <2>2, <2>3, AddsOne
  <2> QED BY <2>2, <2>3, <2>4, ApplySgrType
<1>4. S = Nat
  BY <1>2, <1>3, NumberInduction
<1>5. a.attr \subseteq h[n].attr
  <2>1. n <= n
    BY SMT, <1>0
  <2> QED BY Zenon, <1>0, <1>4, <2>1
<1> QED BY Zenon, <1>1, <1>5

(* An attribute that is not empty has parameters.                          *)
LEMMA ParamsOfSome ==
  ASSUME EnteringAdds, NEW a \in SgrAttr, a # EmptyAttr
  PROVE  ParamsFromAttr(a, GetSgrCodes) # <<>>
<1>1. CASE a.fg # 0 \/ a.bg # 0
  BY <1>1, ParamsOfAttr
<1>2. CASE a.fg = 0 /\ a.bg = 0
  <2>1. PICK bit \in SgrBits : bit \in a.attr
    <3>1. a.attr # {}
      BY <1>2 DEF SgrAttr, EmptyAttr
    <3>2. a.attr \in SUBSET SgrBits
      BY DEF SgrAttr
    <3> QED BY <3>1, <3>2
  <2>2. PICK e \in {[bit |-> UNDERLINE, code |-> "enter_underline"],
                    [bit |-> STANDOUT, code |-> "enter_standout"],
                    [bit |-> BOLD, code |-> "enter_bold"],
                    [bit |-> BLINK, code |-> "enter_blink"]} : e.bit = bit
    BY <2>1 DEF SgrBits
  <2>3. GetSgrCodes[e.code] # 0
    BY <2>2 DEF EnteringAdds
  <2> QED BY Zenon, <2>1, <2>2, <2>3, ParamsOfAttr
<1> QED BY <1>1, <1>2

-----------------------------------------------------------------------------
(* A terminal whose cursor, saved position and scroll region are on its    *)
(* screen, and which has a cell for each position on it.                   *)
OnScreen(t) == [row : 0 .. t.rows - 1, col : 0 .. Cols]

Row == [0 .. Cols - 1 -> Cell]

Screenful(cells) == cells \in [0 .. MaxRows - 1 -> Row]

IsRecord(r) == r = [f \in DOMAIN r |-> r[f]]

Tty(t) ==
  /\ IsRecord(t) /\ IsRecord(t.slot)
  /\ DOMAIN t = {"rows", "bot", "cells", "cur", "sgr", "slot", "spilled", "astray"}
  /\ t.rows \in 1 .. MaxRows
  /\ t.bot \in 0 .. t.rows - 1
  /\ Screenful(t.cells)
  /\ t.cur \in OnScreen(t)
  /\ t.sgr \in SgrAttr
  /\ DOMAIN t.slot = {"cur", "sgr", "who"}
  /\ t.slot.cur \in OnScreen(t)
  /\ t.slot.sgr \in SgrAttr
  /\ t.slot.who \in {"child", "fep"}
  /\ t.spilled \in BOOLEAN /\ t.astray \in BOOLEAN

(* What text with attributes leaves alone of a terminal, and text without; *)
(* what a movement of the cursor leaves alone.                             *)
Kept(t, u) ==
  u.rows = t.rows /\ u.bot = t.bot /\ u.slot = t.slot /\ u.astray = t.astray

Still(t, u) ==
  /\ u.rows = t.rows /\ u.bot = t.bot /\ u.slot = t.slot /\ u.astray = t.astray
  /\ u.sgr = t.sgr

SameCells(t, u) == u.cells = t.cells /\ u.spilled = t.spilled

(* u is t after who has written on it.  If nothing has wrapped the cursor  *)
(* is still in its line, and who has written there; and in any case what   *)
(* is below the scroll region stays, if the cursor is in it.               *)
InLine(who, t, u) ==
  ~u.spilled =>
    /\ ~t.spilled /\ u.cur.row = t.cur.row
    /\ \A r \in 0 .. MaxRows - 1, c \in 0 .. Cols - 1 :
         \/ u.cells[r][c] = t.cells[r][c]
         \/ r = t.cur.row /\ u.cells[r][c].who = who

InRegion(t, u) ==
  t.cur.row <= t.bot =>
    /\ u.cur.row <= t.bot
    /\ \A r \in t.bot + 1 .. MaxRows - 1 : u.cells[r] = t.cells[r]

(* Where the cursor is after a line feed, and after a character; and what  *)
(* is then on the screen.                                                  *)
Down(t) == IF t.cur.row = t.bot THEN t.cur.row ELSE Lesser(t.cur.row + 1, t.rows - 1)

Advanced(t) ==
  IF t.cur.col = Cols THEN [row |-> Down(t), col |-> 1]
  ELSE [row |-> t.cur.row, col |-> t.cur.col + 1]

Scrolled(t) ==
  IF t.cur.row = t.bot
    THEN [r \in DOMAIN t.cells |-> IF r < t.bot THEN t.cells[r + 1]
                                   ELSE IF r = t.bot THEN BlankRow ELSE t.cells[r]]
    ELSE t.cells

LEMMA BlankCells ==
  /\ Blank \in Cell /\ BlankRow \in Row /\ EmptyAttr \in SgrAttr
  /\ [r \in 0 .. MaxRows - 1 |-> BlankRow] \in [0 .. MaxRows - 1 -> Row]
<1>1. Blank \in Cell
  BY CharAssumption, EmptyAttrType DEF Blank, Cell, Writer
<1>2. BlankRow \in Row
  BY Zenon, <1>1 DEF BlankRow, Row
<1> QED BY Zenon, <1>1, <1>2, EmptyAttrType

LEMMA GotoTty ==
  ASSUME NEW t, Tty(t), NEW row \in 0 .. t.rows - 1, NEW col \in 0 .. Cols
  PROVE  /\ Tty(Goto(t, row, col)) /\ Still(t, Goto(t, row, col))
         /\ SameCells(t, Goto(t, row, col))
         /\ Goto(t, row, col).cur = [row |-> row, col |-> col]
<1>1. PICK u : u = Goto(t, row, col)
  OBVIOUS
<1>2. /\ Tty(u) /\ Still(t, u) /\ SameCells(t, u)
      /\ u.cur = [row |-> row, col |-> col]
  BY SMT, <1>1 DEF Goto, Tty, Still, OnScreen, SameCells, IsRecord
<1> QED BY Zenon, <1>1, <1>2

LEMMA DownRow ==
  ASSUME NEW t, Tty(t)
  PROVE  /\ Down(t) \in 0 .. t.rows - 1
         /\ t.cur.row <= t.bot => Down(t) <= t.bot
  BY SMT DEF Down, Lesser, Tty, OnScreen

LEMMA ScrolledCells ==
  ASSUME NEW t, Tty(t)
  PROVE  /\ Screenful(Scrolled(t))
         /\ \A r \in t.bot + 1 .. MaxRows - 1 : Scrolled(t)[r] = t.cells[r]
<1>1. /\ DOMAIN t.cells = 0 .. MaxRows - 1 /\ t.bot \in 0 .. MaxRows - 1
      /\ \A r \in 0 .. MaxRows - 1 : t.cells[r] \in Row
      /\ MaxRows \in Nat
  BY SMT, SizeAssumption DEF Tty, Screenful
<1>2. CASE t.cur.row = t.bot
  <2>1. PICK cells : cells = [r \in 0 .. MaxRows - 1 |->
                                IF r < t.bot THEN t.cells[r + 1]
                                ELSE IF r = t.bot THEN BlankRow ELSE t.cells[r]]
    OBVIOUS
  <2>2. Scrolled(t) = cells
    BY Zenon, <1>1, <1>2, <2>1 DEF Scrolled
  <2>3. BlankRow \in Row
    BY BlankCells
  <2>4. cells \in [0 .. MaxRows - 1 -> Row]
    <3>1. \A r \in 0 .. MaxRows - 1 : r < t.bot => r + 1 \in 0 .. MaxRows - 1
      BY SMT, <1>1
    <3> QED BY Zenon, <1>1, <2>1, <2>3, <3>1
  <2>5. \A r \in t.bot + 1 .. MaxRows - 1 : cells[r] = t.cells[r]
    BY SMT, <1>1, <2>1
  <2> QED BY Zenon, <2>2, <2>4, <2>5 DEF Screenful
<1>3. CASE t.cur.row # t.bot
  <2>1. Scrolled(t) = t.cells
    BY Zenon, <1>3 DEF Scrolled
  <2> QED BY Zenon, <2>1 DEF Tty
<1> QED BY <1>2, <1>3

LEMMA LineFeedTty ==
  ASSUME NEW t, Tty(t)
  PROVE  /\ Tty(LineFeed(t)) /\ Still(t, LineFeed(t))
         /\ LineFeed(t).cur = [row |-> Down(t), col |-> t.cur.col]
         /\ LineFeed(t).spilled = t.spilled /\ LineFeed(t).cells = Scrolled(t)
<1>1. Down(t) \in 0 .. t.rows - 1
  BY DownRow
<1>2. Screenful(Scrolled(t))
  BY ScrolledCells
<1>3. CASE t.cur.row = t.bot
  <2>1. PICK cells, u : /\ u = [t EXCEPT !.cells = cells] /\ u = LineFeed(t)
                        /\ cells = Scrolled(t)
    BY Zenon, <1>3 DEF LineFeed, Scrolled
  <2>2. Down(t) = t.cur.row
    BY Zenon, <1>3 DEF Down
  <2>3. /\ Tty(u) /\ Still(t, u) /\ u.cur = [row |-> Down(t), col |-> t.cur.col]
        /\ u.spilled = t.spilled /\ u.cells = cells
    BY SMT, <1>2, <2>1, <2>2 DEF Tty, Still, OnScreen, IsRecord
  <2> QED BY Zenon, <2>1, <2>3
<1>4. CASE t.cur.row # t.bot
  <2>1. PICK row, u : u = [t EXCEPT !.cur.row = row] /\ u = LineFeed(t) /\ row = Down(t)
    BY Zenon, <1>4 DEF LineFeed, Down
  <2>2. /\ Tty(u) /\ Still(t, u) /\ u.cur = [row |-> row, col |-> t.cur.col]
        /\ u.spilled = t.spilled /\ u.cells = t.cells
    BY SMT, <1>1, <2>1 DEF Tty, Still, OnScreen, IsRecord
  <2>3. t.cells = Scrolled(t)
    BY Zenon, <1>4 DEF Scrolled
  <2> QED BY Zenon, <2>1, <2>2, <2>3
<1> QED BY <1>3, <1>4

LEMMA NewLineTty ==
  ASSUME NEW t, Tty(t)
  PROVE  /\ Tty(NewLine(t)) /\ Still(t, NewLine(t))
         /\ NewLine(t).cur = [row |-> Down(t), col |-> 0]
         /\ NewLine(t).spilled = t.spilled /\ NewLine(t).cells = Scrolled(t)
<1>1. PICK u : u = LineFeed(t)
  OBVIOUS
<1>2. /\ Tty(u) /\ Still(t, u) /\ u.cur.row = Down(t) /\ Down(t) \in 0 .. u.rows - 1
      /\ u.spilled = t.spilled /\ u.cells = Scrolled(t)
  <2>1. /\ Tty(u) /\ Still(t, u) /\ u.cur = [row |-> Down(t), col |-> t.cur.col]
        /\ u.spilled = t.spilled /\ u.cells = Scrolled(t)
    BY Zenon, <1>1, LineFeedTty
  <2>2. Down(t) \in 0 .. t.rows - 1
    BY DownRow
  <2> QED BY <2>1, <2>2 DEF Still
<1>3. 0 \in 0 .. Cols
  BY SMT, SizeAssumption
<1>4. PICK v : v = Goto(u, Down(t), 0)
  OBVIOUS
<1>5. /\ Tty(v) /\ Still(u, v) /\ SameCells(u, v) /\ v.cur = [row |-> Down(t), col |-> 0]
  BY <1>2, <1>3, <1>4, GotoTty
<1>6. NewLine(t) = v
  BY Zenon, <1>1, <1>2, <1>4 DEF NewLine
<1> QED BY Zenon, <1>2, <1>5, <1>6 DEF Still, SameCells

(* A character: perhaps a new line, and then the character in its place.   *)
Place(w, who, ch, spilled) ==
  [w EXCEPT !.cells[w.cur.row][w.cur.col] = [who |-> who, ch |-> ch, sgr |-> w.sgr],
            !.cur.col = @ + 1, !.spilled = spilled]

Wrapped(t) == IF t.cur.col = Cols THEN NewLine(t) ELSE t

LEMMA PutPlaces ==
  ASSUME NEW t, NEW who, NEW ch
  PROVE  Put(t, who, ch)
           = Place(Wrapped(t), who, ch,
                   Wrapped(t).spilled \/ (who # "child" /\ t.cur.col = Cols))
  BY Zenon DEF Put, Place, Wrapped, NewLine

LEMMA WrappedTty ==
  ASSUME NEW t, Tty(t)
  PROVE  /\ Tty(Wrapped(t)) /\ Still(t, Wrapped(t))
         /\ Wrapped(t).cur.col \in 0 .. Cols - 1
         /\ Wrapped(t).spilled = t.spilled
         /\ Advanced(t) = [row |-> Wrapped(t).cur.row, col |-> Wrapped(t).cur.col + 1]
         /\ InRegion(t, Wrapped(t))
         /\ t.cur.col # Cols => Wrapped(t) = t
<1>1. PICK w : w = Wrapped(t)
  OBVIOUS
<1>2. CASE t.cur.col = Cols
  <2>1. w = NewLine(t)
    BY Zenon, <1>1, <1>2 DEF Wrapped
  <2>2. /\ Tty(w) /\ Still(t, w) /\ w.cur = [row |-> Down(t), col |-> 0]
        /\ w.spilled = t.spilled /\ w.cells = Scrolled(t)
    BY Zenon, <2>1, NewLineTty
  <2>3. /\ w.cur.col = 0 /\ w.cur.row = Down(t) /\ 0 \in 0 .. Cols - 1
        /\ Advanced(t) = [row |-> Down(t), col |-> 0 + 1]
    BY SMT, <1>2, <2>2, SizeAssumption DEF Advanced
  <2>4. InRegion(t, w)
    <3>1. t.cur.row <= t.bot => Down(t) <= t.bot
      BY DownRow
    <3>2. \A r \in t.bot + 1 .. MaxRows - 1 : Scrolled(t)[r] = t.cells[r]
      BY ScrolledCells
    <3> QED BY Zenon, <2>2, <2>3, <3>1, <3>2 DEF InRegion
  <2> QED BY Zenon, <1>1, <1>2, <2>2, <2>3, <2>4
<1>3. CASE t.cur.col # Cols
  <2>1. w = t
    BY Zenon, <1>1, <1>3 DEF Wrapped
  <2>2. Still(t, t) /\ InRegion(t, t)
    BY DEF Still, InRegion
  <2>3. Advanced(t) = [row |-> t.cur.row, col |-> t.cur.col + 1]
    BY Zenon, <1>3 DEF Advanced
  <2>4. t.cur.col \in 0 .. Cols - 1
    BY SMT, <1>3, SizeAssumption DEF Tty, OnScreen
  <2> QED BY Zenon, <1>1, <2>1, <2>2, <2>3, <2>4
<1> QED BY <1>2, <1>3

Placed(w, who, ch, u) ==
  /\ Tty(u) /\ Still(w, u) /\ u.cur = [row |-> w.cur.row, col |-> w.cur.col + 1]
  /\ \A r \in 0 .. MaxRows - 1 : r # w.cur.row => u.cells[r] = w.cells[r]
  /\ \A c \in 0 .. Cols - 1 :
       u.cells[w.cur.row][c] = IF c = w.cur.col THEN [who |-> who, ch |-> ch, sgr |-> w.sgr]
                               ELSE w.cells[w.cur.row][c]

LEMMA PlaceTty ==
  ASSUME NEW w, NEW who \in Writer, NEW ch \in Char, NEW spilled \in BOOLEAN, Tty(w),
         w.cur.col \in 0 .. Cols - 1
  PROVE  /\ Placed(w, who, ch, Place(w, who, ch, spilled))
         /\ Place(w, who, ch, spilled).spilled = spilled
<1>1. PICK cell : cell = [who |-> who, ch |-> ch, sgr |-> w.sgr]
  OBVIOUS
<1>2. PICK row, col : row = w.cur.row /\ col = w.cur.col
  OBVIOUS
<1>3. row \in 0 .. MaxRows - 1 /\ row \in 0 .. w.rows - 1 /\ col \in 0 .. Cols - 1
      /\ w.cur = [row |-> row, col |-> col] /\ col + 1 \in 0 .. Cols
  BY SMT, <1>2, SizeAssumption DEF Tty, OnScreen
<1>4. PICK line, cells : /\ line = [w.cells[row] EXCEPT ![col] = cell]
                         /\ cells = [w.cells EXCEPT ![row] = line]
  OBVIOUS
<1>5. /\ DOMAIN w.cells = 0 .. MaxRows - 1 /\ w.cells \in [0 .. MaxRows - 1 -> Row]
      /\ \A r \in 0 .. MaxRows - 1 : DOMAIN w.cells[r] = 0 .. Cols - 1
  BY DEF Tty, Screenful, Row
<1>6. /\ DOMAIN line = 0 .. Cols - 1
      /\ \A c \in 0 .. Cols - 1 : line[c] = IF c = col THEN cell ELSE w.cells[row][c]
  BY Zenon, <1>3, <1>4, <1>5
<1>7. /\ DOMAIN cells = 0 .. MaxRows - 1 /\ cells[row] = line
      /\ \A r \in 0 .. MaxRows - 1 : r # row => cells[r] = w.cells[r]
  BY Zenon, <1>3, <1>4, <1>5
<1>8. Screenful(cells)
  <2>1. cell \in Cell
    BY <1>1 DEF Cell, Tty
  <2>2. line \in Row
    BY Zenon, <1>3, <1>4, <1>5, <2>1 DEF Row
  <2> QED BY Zenon, <1>3, <1>4, <1>5, <2>2 DEF Screenful
<1>9. PICK u : /\ u = [w EXCEPT !.cells[row][col] = cell, !.cur.col = @ + 1,
                                !.spilled = spilled]
               /\ u = Place(w, who, ch, spilled)
  BY Zenon, <1>1, <1>2 DEF Place
<1>10. /\ DOMAIN u = DOMAIN w /\ u.cells = cells /\ u.cur = [w.cur EXCEPT !.col = @ + 1]
       /\ u.spilled = spilled /\ u.rows = w.rows /\ u.bot = w.bot
       /\ u.slot = w.slot /\ u.astray = w.astray /\ u.sgr = w.sgr
  <2>1. DOMAIN w = {"rows", "bot", "cells", "cur", "sgr", "slot", "spilled", "astray"}
    BY DEF Tty
  <2> QED BY SMT, <1>4, <1>9, <2>1
<1>11. u.cur = [row |-> row, col |-> col + 1]
  BY SMT, <1>3, <1>10
<1>12. u.cur \in OnScreen(w)
  BY SMT, <1>3, <1>11 DEF OnScreen
<1>13. Tty(u) /\ Still(w, u)
  <2>1. IsRecord(u)
    BY Zenon, <1>9 DEF IsRecord
  <2> QED BY SMT, <1>8, <1>10, <1>12, <2>1 DEF Tty, Still, OnScreen
<1>14. /\ u.cur = [row |-> w.cur.row, col |-> w.cur.col + 1] /\ u.spilled = spilled
       /\ \A r \in 0 .. MaxRows - 1 : r # w.cur.row => u.cells[r] = w.cells[r]
  BY Zenon, <1>2, <1>7, <1>10, <1>11
<1>15. \A c \in 0 .. Cols - 1 :
         u.cells[w.cur.row][c] = IF c = w.cur.col
                                 THEN [who |-> who, ch |-> ch, sgr |-> w.sgr]
                                 ELSE w.cells[w.cur.row][c]
  BY Zenon, <1>1, <1>2, <1>6, <1>7, <1>10
<1> QED BY Zenon, <1>9, <1>13, <1>14, <1>15 DEF Placed

LEMMA PutTty ==
  ASSUME NEW t, NEW who \in Writer, NEW ch \in Char, Tty(t)
  PROVE  /\ Tty(Put(t, who, ch)) /\ Still(t, Put(t, who, ch))
         /\ Put(t, who, ch).cur = Advanced(t)
         /\ InRegion(t, Put(t, who, ch))
         /\ who # "child" => InLine(who, t, Put(t, who, ch))
<1>1. PICK w : w = Wrapped(t)
  OBVIOUS
<1>2. /\ Tty(w) /\ Still(t, w) /\ w.cur.col \in 0 .. Cols - 1 /\ w.spilled = t.spilled
      /\ Advanced(t) = [row |-> w.cur.row, col |-> w.cur.col + 1]
      /\ InRegion(t, w) /\ (t.cur.col # Cols => w = t)
  BY Zenon, <1>1, WrappedTty
<1>3. PICK spilled \in BOOLEAN : spilled = (w.spilled \/ (who # "child" /\ t.cur.col = Cols))
  BY <1>2 DEF Tty
<1>4. PICK u : u = Place(w, who, ch, spilled)
  OBVIOUS
<1>5. /\ Tty(u) /\ Still(w, u) /\ u.cur = [row |-> w.cur.row, col |-> w.cur.col + 1]
      /\ u.spilled = spilled
      /\ \A r \in 0 .. MaxRows - 1 : r # w.cur.row => u.cells[r] = w.cells[r]
      /\ \A c \in 0 .. Cols - 1 :
           u.cells[w.cur.row][c] = IF c = w.cur.col
                                   THEN [who |-> who, ch |-> ch, sgr |-> w.sgr]
                                   ELSE w.cells[w.cur.row][c]
  <2>1. Placed(w, who, ch, u) /\ u.spilled = spilled
    BY Zenon, <1>2, <1>4, PlaceTty
  <2> QED BY Zenon, <2>1 DEF Placed
<1>6. Put(t, who, ch) = u
  BY Zenon, <1>1, <1>3, <1>4, PutPlaces
<1>7. InRegion(t, u)
  <2> SUFFICES ASSUME t.cur.row <= t.bot
               PROVE  /\ u.cur.row <= t.bot
                      /\ \A r \in t.bot + 1 .. MaxRows - 1 : u.cells[r] = t.cells[r]
    BY DEF InRegion
  <2>1. /\ w.cur.row <= t.bot
        /\ \A r \in t.bot + 1 .. MaxRows - 1 : w.cells[r] = t.cells[r]
    BY <1>2 DEF InRegion
  <2>2. ASSUME NEW r \in t.bot + 1 .. MaxRows - 1
        PROVE  r \in 0 .. MaxRows - 1 /\ r # w.cur.row
    <3>1. t.bot \in Nat /\ w.cur.row \in Nat /\ MaxRows \in Nat /\ w.cur.row <= t.bot
      BY <1>2, <2>1, SizeAssumption DEF Tty, OnScreen
    <3> QED BY SMT, <3>1
  <2>3. u.cur.row <= t.bot
    BY <1>5, <2>1
  <2>4. ASSUME NEW r \in t.bot + 1 .. MaxRows - 1 PROVE u.cells[r] = t.cells[r]
    <3>1. u.cells[r] = w.cells[r]
      BY Zenon, <1>5, <2>2
    <3> QED BY Zenon, <2>1, <3>1
  <2> QED BY Zenon, <2>3, <2>4
<1>8. ASSUME who # "child" PROVE InLine(who, t, u)
  <2> SUFFICES ASSUME ~u.spilled
               PROVE  /\ ~t.spilled /\ u.cur.row = t.cur.row
                      /\ \A r \in 0 .. MaxRows - 1, c \in 0 .. Cols - 1 :
                           \/ u.cells[r][c] = t.cells[r][c]
                           \/ r = t.cur.row /\ u.cells[r][c].who = who
    BY DEF InLine
  <2>1. ~w.spilled /\ t.cur.col # Cols
    BY Zenon, <1>3, <1>5, <1>8
  <2>2. w = t
    BY <1>2, <2>1
  <2>3. u.cur.row = t.cur.row
    BY <1>5, <2>2
  <2>4. ASSUME NEW r \in 0 .. MaxRows - 1, NEW c \in 0 .. Cols - 1
        PROVE  \/ u.cells[r][c] = t.cells[r][c]
               \/ r = t.cur.row /\ u.cells[r][c].who = who
    <3>1. CASE r # t.cur.row
      BY Zenon, <1>5, <2>2, <3>1
    <3>2. CASE r = t.cur.row /\ c # t.cur.col
      BY Zenon, <1>5, <2>2, <3>2
    <3>3. CASE r = t.cur.row /\ c = t.cur.col
      BY <1>5, <2>2, <3>3
    <3> QED BY <3>1, <3>2, <3>3
  <2> QED BY Zenon, <2>1, <2>2, <2>3, <2>4
<1> QED BY Zenon, <1>2, <1>5, <1>6, <1>7, <1>8 DEF Still

LEMMA RenderTty ==
  ASSUME NEW t, NEW params, NEW n \in Nat, DOMAIN params = 1 .. n, Tty(t)
  PROVE  /\ Tty(Render(t, params)) /\ Kept(t, Render(t, params))
         /\ SameCells(t, Render(t, params))
         /\ Render(t, params).cur = t.cur
         /\ Render(t, params).sgr = IF params = <<>> THEN EmptyAttr ELSE ApplyAll(t.sgr, params)
<1>1. PICK sgr, u : /\ u = [t EXCEPT !.sgr = sgr] /\ u = Render(t, params)
                    /\ sgr = IF params = <<>> THEN EmptyAttr ELSE ApplyAll(t.sgr, params)
  BY Zenon DEF Render
<1>2. sgr \in SgrAttr
  <2>1. ApplyAll(t.sgr, params) \in SgrAttr
    BY ApplyAllType DEF Tty
  <2> QED BY <1>1, <2>1, EmptyAttrType
<1>3. Tty(u) /\ Kept(t, u) /\ SameCells(t, u) /\ u.cur = t.cur /\ u.sgr = sgr
  BY SMT, <1>1, <1>2 DEF Tty, Kept, OnScreen, SameCells, IsRecord
<1> QED BY Zenon, <1>1, <1>3

(* The three ways to erase.                                                *)
LEMMA CellsTty ==
  ASSUME NEW t, Tty(t), NEW cells, Screenful(cells)
  PROVE  /\ Tty([t EXCEPT !.cells = cells]) /\ Still(t, [t EXCEPT !.cells = cells])
         /\ [t EXCEPT !.cells = cells].cur = t.cur
         /\ [t EXCEPT !.cells = cells].spilled = t.spilled
         /\ [t EXCEPT !.cells = cells].cells = cells
<1>1. PICK u : u = [t EXCEPT !.cells = cells]
  OBVIOUS
<1>2. /\ Tty(u) /\ Still(t, u) /\ u.cur = t.cur /\ u.spilled = t.spilled
      /\ u.cells = cells
  BY SMT, <1>1 DEF Tty, Still, OnScreen, IsRecord
<1> QED BY Zenon, <1>1, <1>2

LEMMA EraseAllTty ==
  ASSUME NEW t, Tty(t)
  PROVE  /\ Tty(EraseAll(t)) /\ Still(t, EraseAll(t)) /\ EraseAll(t).cur = t.cur
         /\ EraseAll(t).spilled = t.spilled
         /\ EraseAll(t).cells = [r \in 0 .. MaxRows - 1 |-> BlankRow]
<1>1. PICK cells : cells = [r \in 0 .. MaxRows - 1 |-> BlankRow]
  OBVIOUS
<1>2. DOMAIN t.cells = 0 .. MaxRows - 1
  BY DEF Tty, Screenful
<1>3. PICK u : u = EraseAll(t)
  OBVIOUS
<1>4. u = [t EXCEPT !.cells = cells]
  BY Zenon, <1>1, <1>2, <1>3 DEF EraseAll
<1>5. Screenful(cells)
  BY <1>1, BlankCells DEF Screenful
<1>6. /\ Tty(u) /\ Still(t, u) /\ u.cur = t.cur /\ u.spilled = t.spilled
      /\ u.cells = cells
  BY Zenon, <1>4, <1>5, CellsTty
<1> QED BY Zenon, <1>1, <1>3, <1>6

LEMMA EraseLineTty ==
  ASSUME NEW t, Tty(t)
  PROVE  /\ Tty(EraseLine(t)) /\ Still(t, EraseLine(t)) /\ EraseLine(t).cur = t.cur
         /\ EraseLine(t).spilled = t.spilled
         /\ \A r \in 0 .. MaxRows - 1 :
              r # t.cur.row => EraseLine(t).cells[r] = t.cells[r]
         /\ \A c \in 0 .. Cols - 1 :
              EraseLine(t).cells[t.cur.row][c]
                = IF c < Lesser(t.cur.col, Cols - 1) THEN t.cells[t.cur.row][c] ELSE Blank
<1>1. PICK row : row = t.cur.row
  OBVIOUS
<1>2. /\ DOMAIN t.cells = 0 .. MaxRows - 1 /\ row \in 0 .. MaxRows - 1
      /\ t.cells \in [0 .. MaxRows - 1 -> Row]
      /\ \A r \in 0 .. MaxRows - 1 : DOMAIN t.cells[r] = 0 .. Cols - 1
  <2>1. row \in 0 .. MaxRows - 1
    BY SMT, <1>1, SizeAssumption DEF Tty, OnScreen
  <2> QED BY Zenon, <2>1 DEF Tty, Screenful, Row
<1>3. PICK line : line = [c \in 0 .. Cols - 1 |->
                            IF c < Lesser(t.cur.col, Cols - 1) THEN t.cells[row][c] ELSE Blank]
  OBVIOUS
<1>4. PICK cells : cells = [t.cells EXCEPT ![row] = line]
  OBVIOUS
<1>5. PICK u : u = EraseLine(t)
  OBVIOUS
<1>6. u = [t EXCEPT !.cells = cells]
  <2>1. DOMAIN t.cells[row] = 0 .. Cols - 1
    BY <1>2
  <2> QED BY Zenon, <1>1, <1>3, <1>4, <1>5, <2>1 DEF EraseLine
<1>7. /\ DOMAIN cells = 0 .. MaxRows - 1 /\ cells[row] = line
      /\ \A r \in 0 .. MaxRows - 1 : r # row => cells[r] = t.cells[r]
  BY Zenon, <1>2, <1>4
<1>8. Screenful(cells)
  <2>1. t.cells[row] \in [0 .. Cols - 1 -> Cell]
    BY Zenon, <1>2 DEF Row
  <2>2. line \in Row
    BY Zenon, <1>3, <2>1, BlankCells DEF Row
  <2> QED BY Zenon, <1>2, <1>4, <2>2 DEF Screenful
<1>9. /\ Tty(u) /\ Still(t, u) /\ u.cur = t.cur /\ u.spilled = t.spilled
      /\ u.cells = cells
  BY Zenon, <1>6, <1>8, CellsTty
<1>10. \A c \in 0 .. Cols - 1 :
         u.cells[t.cur.row][c]
           = IF c < Lesser(t.cur.col, Cols - 1) THEN t.cells[t.cur.row][c] ELSE Blank
  BY Zenon, <1>1, <1>3, <1>7, <1>9
<1> QED BY Zenon, <1>1, <1>5, <1>7, <1>9, <1>10

LEMMA EraseBelowTty ==
  ASSUME NEW t, Tty(t)
  PROVE  /\ Tty(EraseBelow(t)) /\ Still(t, EraseBelow(t)) /\ EraseBelow(t).cur = t.cur
         /\ EraseBelow(t).spilled = t.spilled
         /\ EraseBelow(t).cells
              = [r \in 0 .. MaxRows - 1 |->
                   IF r <= t.cur.row THEN EraseLine(t).cells[r] ELSE BlankRow]
<1>1. PICK v : v = EraseLine(t)
  OBVIOUS
<1>2. Tty(v) /\ Still(t, v) /\ v.cur = t.cur /\ v.spilled = t.spilled
  BY Zenon, <1>1, EraseLineTty
<1>3. DOMAIN v.cells = 0 .. MaxRows - 1 /\ v.cells \in [0 .. MaxRows - 1 -> Row]
  BY <1>2 DEF Tty, Screenful
<1>4. PICK cells : cells = [r \in 0 .. MaxRows - 1 |->
                              IF r <= t.cur.row THEN v.cells[r] ELSE BlankRow]
  OBVIOUS
<1>5. PICK u : u = EraseBelow(t)
  OBVIOUS
<1>6. u = [v EXCEPT !.cells = cells]
  BY Zenon, <1>1, <1>3, <1>4, <1>5 DEF EraseBelow
<1>7. Screenful(cells)
  BY Zenon, <1>3, <1>4, BlankCells DEF Screenful
<1>8. /\ Tty(u) /\ Still(v, u) /\ u.cur = v.cur /\ u.spilled = v.spilled
      /\ u.cells = cells
  BY Zenon, <1>2, <1>6, <1>7, CellsTty
<1> QED BY Zenon, <1>1, <1>2, <1>4, <1>5, <1>8 DEF Still

LEMMA SlotTty ==
  ASSUME NEW t, NEW who \in {"child", "fep"}, Tty(t)
  PROVE  /\ Tty(SaveCursor(t, who)) /\ SameCells(t, SaveCursor(t, who))
         /\ SaveCursor(t, who).rows = t.rows /\ SaveCursor(t, who).bot = t.bot
         /\ SaveCursor(t, who).cur = t.cur /\ SaveCursor(t, who).astray = t.astray
         /\ SaveCursor(t, who).sgr = t.sgr
         /\ SaveCursor(t, who).slot = [cur |-> t.cur, sgr |-> t.sgr, who |-> who]
         /\ Tty(RestoreCursor(t, who)) /\ SameCells(t, RestoreCursor(t, who))
         /\ RestoreCursor(t, who).rows = t.rows /\ RestoreCursor(t, who).bot = t.bot
         /\ RestoreCursor(t, who).cur = t.slot.cur /\ RestoreCursor(t, who).slot = t.slot
         /\ RestoreCursor(t, who).sgr = t.slot.sgr
         /\ RestoreCursor(t, who).astray
              = (t.astray \/ (who = "child" /\ t.slot.who # "child"))
<1>1. PICK u : u = SaveCursor(t, who)
  OBVIOUS
<1>2. /\ Tty(u) /\ SameCells(t, u) /\ u.rows = t.rows /\ u.bot = t.bot
      /\ u.cur = t.cur /\ u.astray = t.astray /\ u.sgr = t.sgr
      /\ u.slot = [cur |-> t.cur, sgr |-> t.sgr, who |-> who]
  BY SMT, <1>1 DEF SaveCursor, Tty, OnScreen, SameCells, IsRecord
<1>3. PICK astray \in BOOLEAN : astray = (t.astray \/ (who = "child" /\ t.slot.who # "child"))
  BY DEF Tty
<1>4. PICK v : v = RestoreCursor(t, who)
  OBVIOUS
<1>5. v = [t EXCEPT !.cur = t.slot.cur, !.sgr = t.slot.sgr, !.astray = astray]
  BY Zenon, <1>3, <1>4 DEF RestoreCursor
<1>6. /\ Tty(v) /\ SameCells(t, v) /\ v.rows = t.rows /\ v.bot = t.bot
      /\ v.cur = t.slot.cur /\ v.slot = t.slot /\ v.astray = astray /\ v.sgr = t.slot.sgr
  <2>1. IsRecord(v)
    BY Zenon, <1>5 DEF IsRecord
  <2> QED BY SMT, <1>5, <2>1 DEF Tty, OnScreen, SameCells
<1> QED BY Zenon, <1>1, <1>2, <1>3, <1>4, <1>6

(* A text on a terminal leaves everything but the cursor where it is, and  *)
(* its line if it does not wrap.                                           *)
Texted(who, t, u) ==
  Tty(u) /\ Kept(t, u) /\ InRegion(t, u) /\ InLine(who, t, u)

LEMMA TextedOn ==
  ASSUME NEW who, NEW t, NEW u, NEW v, Tty(t), Texted(who, t, u), Texted(who, u, v)
  PROVE  Texted(who, t, v)
<1>1. Tty(v) /\ Kept(t, v)
  BY Zenon DEF Texted, Kept
<1>2. InRegion(t, v)
  <2>1. u.bot = t.bot
    BY DEF Texted, Kept
  <2> QED BY Zenon, <2>1 DEF Texted, InRegion
<1>3. InLine(who, t, v)
  <2> SUFFICES ASSUME ~v.spilled
               PROVE  /\ ~t.spilled /\ v.cur.row = t.cur.row
                      /\ \A r \in 0 .. MaxRows - 1, c \in 0 .. Cols - 1 :
                           \/ v.cells[r][c] = t.cells[r][c]
                           \/ r = t.cur.row /\ v.cells[r][c].who = who
    BY DEF InLine
  <2>1. /\ ~u.spilled /\ v.cur.row = u.cur.row
        /\ \A r \in 0 .. MaxRows - 1, c \in 0 .. Cols - 1 :
             \/ v.cells[r][c] = u.cells[r][c]
             \/ r = u.cur.row /\ v.cells[r][c].who = who
    BY Zenon DEF Texted, InLine
  <2>2. /\ ~t.spilled /\ u.cur.row = t.cur.row
        /\ \A r \in 0 .. MaxRows - 1, c \in 0 .. Cols - 1 :
             \/ u.cells[r][c] = t.cells[r][c]
             \/ r = t.cur.row /\ u.cells[r][c].who = who
    BY Zenon, <2>1 DEF Texted, InLine
  <2> QED BY Zenon, <2>1, <2>2
<1> QED BY Zenon, <1>1, <1>2, <1>3 DEF Texted

LEMMA CalmTexted ==
  ASSUME NEW who, NEW t, NEW u, Tty(u), Kept(t, u), SameCells(t, u), u.cur = t.cur
  PROVE  Texted(who, t, u)
  BY Zenon DEF Texted, InRegion, InLine, SameCells

LEMMA PutAllTexted ==
  ASSUME NEW t, NEW who \in Writer \ {"child"}, NEW n \in Nat, NEW str \in [1 .. n -> Char],
         Tty(t)
  PROVE  Texted(who, t, PutAll(t, who, str))
<1>1. PICK h : Written(h, who, t, str, n) /\ h[n] = PutAll(t, who, str)
  BY Zenon, PutRuns
<1> DEFINE S == {k \in Nat : k <= n => Texted(who, t, h[k])}
<1>2. 0 \in S
  <2>1. Texted(who, t, t)
    BY Zenon, CalmTexted DEF Kept, SameCells
  <2> QED BY <1>1, <2>1 DEF Written
<1>3. ASSUME NEW k \in S PROVE k + 1 \in S
  <2> SUFFICES ASSUME k + 1 <= n PROVE Texted(who, t, h[k + 1])
    OBVIOUS
  <2>1. k \in Nat /\ k <= n /\ k + 1 \in 1 .. n /\ (k + 1) - 1 = k
    BY SMT
  <2>2. Texted(who, t, h[k])
    BY <2>1
  <2>3. h[k + 1] = Put(h[k], who, str[k + 1])
    BY <1>1, <2>1 DEF Written
  <2>4. Texted(who, h[k], h[k + 1])
    <3>1. Tty(h[k])
      BY <2>2 DEF Texted
    <3>2. str[k + 1] \in Char /\ who \in Writer /\ who # "child"
      BY <2>1
    <3>3. /\ Tty(h[k + 1]) /\ Still(h[k], h[k + 1]) /\ InRegion(h[k], h[k + 1])
          /\ InLine(who, h[k], h[k + 1])
      BY Zenon, <2>3, <3>1, <3>2, PutTty
    <3> QED BY Zenon, <3>3 DEF Texted, Still, Kept
  <2> QED BY <2>2, <2>4, TextedOn
<1>4. S = Nat
  BY <1>2, <1>3, NumberInduction
<1>5. n <= n
  BY SMT
<1>6. Texted(who, t, h[n])
  BY Zenon, <1>4, <1>5
<1> QED BY Zenon, <1>1, <1>6

-----------------------------------------------------------------------------
(* a is at least b, on such a terminal.                                    *)
More(a, b) == EnteringAdds => b.attr \subseteq a.attr

CellAlike(x, y) == x.who = "cursor" \/ (x.ch = y.ch /\ More(x.sgr, y.sgr))

(* The child's terminal and the one that it has for itself: the same       *)
(* scroll region, the cursor in the same place, and what the child has     *)
(* saved is the same, too.  They look the same, but for the cursor texts   *)
(* and for attributes that the former has in addition.  Only the last line *)
(* is missing on the latter.                                               *)
Alike(t, p) ==
  /\ More(t.sgr, p.sgr)
  /\ ~t.spilled =>
       \A r \in 0 .. t.bot, c \in 0 .. Cols - 1 : CellAlike(t.cells[r][c], p.cells[r][c])

Together(t, p) ==
  /\ Tty(t) /\ Tty(p)
  /\ t.bot = p.bot /\ p.rows = p.bot + 1
  /\ ~t.astray => /\ t.cur = p.cur /\ Alike(t, p)
                  /\ t.slot.who = "child" => /\ t.slot.cur = p.slot.cur
                                             /\ More(t.slot.sgr, p.slot.sgr)

LEMMA SelfAlike ==
  ASSUME NEW x
  PROVE  More(x, x) /\ CellAlike(x, x)
  BY DEF More, CellAlike

LEMMA StillTogether ==
  ASSUME NEW t, NEW p, NEW u, NEW v, Together(t, p), Tty(u), Kept(t, u),
         Tty(v), Kept(p, v),
         t.cur = p.cur /\ Alike(t, p) => u.cur = v.cur /\ Alike(u, v)
  PROVE  Together(u, v)
  BY Zenon DEF Together, Kept

LEMMA SameAlike ==
  ASSUME NEW t, NEW p, NEW u, NEW v, Alike(t, p), SameCells(t, u), SameCells(p, v),
         u.bot = t.bot, More(u.sgr, v.sgr)
  PROVE  Alike(u, v)
  BY Zenon DEF Alike, SameCells

LEMMA DownTogether ==
  ASSUME NEW t, NEW p, Together(t, p), t.cur = p.cur
  PROVE  Down(t) = Down(p)
  BY SMT DEF Together, Down, Lesser, Tty, OnScreen

LEMMA ScrolledAlike ==
  ASSUME NEW t, NEW p, Together(t, p), t.cur = p.cur, Alike(t, p), ~t.spilled,
         NEW r \in 0 .. t.bot, NEW c \in 0 .. Cols - 1
  PROVE  CellAlike(Scrolled(t)[r][c], Scrolled(p)[r][c])
<1>1. /\ DOMAIN t.cells = 0 .. MaxRows - 1 /\ DOMAIN p.cells = 0 .. MaxRows - 1
      /\ t.bot = p.bot /\ t.bot \in 0 .. MaxRows - 1
      /\ r \in 0 .. MaxRows - 1
      /\ r < t.bot => r + 1 \in 0 .. t.bot /\ r + 1 \in 0 .. MaxRows - 1
  BY SMT, SizeAssumption DEF Together, Tty, Screenful
<1>2. \A q \in 0 .. t.bot : CellAlike(t.cells[q][c], p.cells[q][c])
  BY Zenon DEF Alike
<1>3. CASE t.cur.row = t.bot
  <2>1. p.cur.row = p.bot
    BY Zenon, <1>1, <1>3
  <2>2. CASE r < t.bot
    <3>1. Scrolled(t)[r] = t.cells[r + 1] /\ Scrolled(p)[r] = p.cells[r + 1]
      BY Zenon, <1>1, <1>3, <2>1, <2>2 DEF Scrolled
    <3> QED BY Zenon, <1>1, <1>2, <2>2, <3>1
  <2>3. CASE ~(r < t.bot)
    <3>1. r = t.bot
      BY SMT, <1>1, <2>3
    <3>2. Scrolled(t)[r] = BlankRow /\ Scrolled(p)[r] = BlankRow
      BY Zenon, <1>1, <1>3, <2>1, <2>3, <3>1 DEF Scrolled
    <3> QED BY Zenon, <3>2, SelfAlike
  <2> QED BY <2>2, <2>3
<1>4. CASE t.cur.row # t.bot
  <2>1. Scrolled(t) = t.cells /\ Scrolled(p) = p.cells
    BY Zenon, <1>1, <1>4 DEF Scrolled
  <2> QED BY Zenon, <1>2, <2>1
<1> QED BY <1>3, <1>4

LEMMA NewLineTogether ==
  ASSUME NEW t, NEW p, Together(t, p)
  PROVE  Together(NewLine(t), NewLine(p))
<1>1. PICK u, v : u = NewLine(t) /\ v = NewLine(p)
  OBVIOUS
<1>2. Tty(t) /\ Tty(p)
  BY DEF Together
<1>3. /\ Tty(u) /\ Still(t, u) /\ u.cur = [row |-> Down(t), col |-> 0]
      /\ u.spilled = t.spilled /\ u.cells = Scrolled(t)
      /\ Tty(v) /\ Still(p, v) /\ v.cur = [row |-> Down(p), col |-> 0]
      /\ v.cells = Scrolled(p)
  BY Zenon, <1>1, <1>2, NewLineTty
<1>4. ASSUME t.cur = p.cur, Alike(t, p) PROVE u.cur = v.cur /\ Alike(u, v)
  <2>1. Down(t) = Down(p)
    BY <1>4, DownTogether
  <2>2. u.bot = t.bot
    BY <1>3 DEF Still
  <2>3. ASSUME ~t.spilled, NEW r \in 0 .. t.bot, NEW c \in 0 .. Cols - 1
        PROVE  CellAlike(u.cells[r][c], v.cells[r][c])
    <3>1. CellAlike(Scrolled(t)[r][c], Scrolled(p)[r][c])
      BY <1>4, <2>3, ScrolledAlike
    <3> QED BY Zenon, <1>3, <3>1
  <2>4. Alike(u, v)
    <3>1. More(u.sgr, v.sgr)
      BY Zenon, <1>3, <1>4 DEF Still, Alike
    <3> QED BY Zenon, <1>3, <2>2, <2>3, <3>1 DEF Alike
  <2> QED BY Zenon, <1>3, <2>1, <2>4
<1>5. Together(u, v)
  <2>1. Kept(t, u) /\ Kept(p, v)
    BY <1>3 DEF Still, Kept
  <2> QED BY Zenon, <1>3, <1>4, <2>1, StillTogether
<1> QED BY <1>1, <1>5

(* A character of the child, which perhaps wraps first.                    *)
LEMMA PlaceTogether ==
  ASSUME NEW t, NEW p, NEW ch \in Char, Together(t, p),
         t.cur.col \in 0 .. Cols - 1, p.cur.col \in 0 .. Cols - 1
  PROVE  Together(Place(t, "child", ch, t.spilled), Place(p, "child", ch, p.spilled))
<1>1. PICK u, v : /\ u = Place(t, "child", ch, t.spilled)
                  /\ v = Place(p, "child", ch, p.spilled)
  OBVIOUS
<1>2. Tty(t) /\ Tty(p) /\ t.spilled \in BOOLEAN /\ p.spilled \in BOOLEAN
      /\ "child" \in Writer
  BY DEF Together, Tty, Writer
<1>3. /\ Tty(u) /\ Still(t, u) /\ u.cur = [row |-> t.cur.row, col |-> t.cur.col + 1]
      /\ u.spilled = t.spilled
      /\ \A r \in 0 .. MaxRows - 1 : r # t.cur.row => u.cells[r] = t.cells[r]
      /\ \A c \in 0 .. Cols - 1 :
           u.cells[t.cur.row][c] = IF c = t.cur.col
                                   THEN [who |-> "child", ch |-> ch, sgr |-> t.sgr]
                                   ELSE t.cells[t.cur.row][c]
  <2>1. Placed(t, "child", ch, u) /\ u.spilled = t.spilled
    BY Zenon, <1>1, <1>2, PlaceTty
  <2> QED BY Zenon, <2>1 DEF Placed
<1>4. /\ Tty(v) /\ Still(p, v) /\ v.cur = [row |-> p.cur.row, col |-> p.cur.col + 1]
      /\ \A r \in 0 .. MaxRows - 1 : r # p.cur.row => v.cells[r] = p.cells[r]
      /\ \A c \in 0 .. Cols - 1 :
           v.cells[p.cur.row][c] = IF c = p.cur.col
                                   THEN [who |-> "child", ch |-> ch, sgr |-> p.sgr]
                                   ELSE p.cells[p.cur.row][c]
  <2>1. Placed(p, "child", ch, v)
    BY Zenon, <1>1, <1>2, PlaceTty
  <2> QED BY Zenon, <2>1 DEF Placed
<1>5. ASSUME t.cur = p.cur, Alike(t, p) PROVE u.cur = v.cur /\ Alike(u, v)
  <2>1. u.bot = t.bot
    BY <1>3 DEF Still
  <2>2. \A r \in 0 .. t.bot : r \in 0 .. MaxRows - 1
    BY SMT, SizeAssumption, <1>2 DEF Tty
  <2>3. ASSUME ~t.spilled, NEW r \in 0 .. t.bot, NEW c \in 0 .. Cols - 1
        PROVE  CellAlike(u.cells[r][c], v.cells[r][c])
    <3>1. CellAlike(t.cells[r][c], p.cells[r][c])
      BY Zenon, <1>5, <2>3 DEF Alike
    <3>2. CASE r # t.cur.row
      <4>1. r \in 0 .. MaxRows - 1 /\ r # p.cur.row
        BY Zenon, <1>5, <2>2, <3>2
      <4>2. u.cells[r] = t.cells[r] /\ v.cells[r] = p.cells[r]
        BY Zenon, <1>3, <1>4, <3>2, <4>1
      <4> QED BY Zenon, <3>1, <4>2
    <3>3. CASE r = t.cur.row /\ c # t.cur.col
      <4>1. u.cells[r][c] = t.cells[r][c]
        BY Zenon, <1>3, <3>3
      <4>2. v.cells[r][c] = p.cells[r][c]
        BY Zenon, <1>4, <1>5, <3>3
      <4> QED BY Zenon, <3>1, <4>1, <4>2
    <3>4. CASE r = t.cur.row /\ c = t.cur.col
      <4>1. u.cells[r][c].ch = ch /\ u.cells[r][c].sgr = t.sgr
        BY <1>3, <3>4
      <4>2. v.cells[r][c].ch = ch /\ v.cells[r][c].sgr = p.sgr
        BY <1>4, <1>5, <3>4
      <4> QED BY Zenon, <1>5, <4>1, <4>2 DEF Alike, CellAlike
    <3> QED BY <3>2, <3>3, <3>4
  <2>4. Alike(u, v)
    <3>1. More(u.sgr, v.sgr)
      BY Zenon, <1>3, <1>4, <1>5 DEF Still, Alike
    <3> QED BY Zenon, <1>3, <2>1, <2>3, <3>1 DEF Alike
  <2> QED BY Zenon, <1>3, <1>4, <1>5, <2>4
<1>6. Together(u, v)
  <2>1. Kept(t, u) /\ Kept(p, v)
    BY <1>3, <1>4 DEF Still, Kept
  <2> QED BY Zenon, <1>3, <1>4, <1>5, <2>1, StillTogether
<1> QED BY <1>1, <1>6

LEMMA PutTogether ==
  ASSUME NEW t, NEW p, NEW ch \in Char, Together(t, p)
  PROVE  Together(Put(t, "child", ch), Put(p, "child", ch))
<1>1. PICK u, v : u = Wrapped(t) /\ v = Wrapped(p)
  OBVIOUS
<1>2. Tty(t) /\ Tty(p)
  BY DEF Together
<1>3. /\ u.cur.col \in 0 .. Cols - 1 /\ v.cur.col \in 0 .. Cols - 1
      /\ Tty(u) /\ Still(t, u) /\ Tty(v) /\ Still(p, v)
      /\ u.spilled \in BOOLEAN /\ v.spilled \in BOOLEAN
  BY Zenon, <1>1, <1>2, WrappedTty DEF Tty
<1>4. Together(u, v)
  <2>1. CASE t.cur = p.cur /\ t.cur.col = Cols
    BY Zenon, <1>1, <2>1, NewLineTogether DEF Wrapped
  <2>2. CASE t.cur = p.cur /\ t.cur.col # Cols
    BY Zenon, <1>1, <2>2 DEF Wrapped
  <2>3. CASE t.cur # p.cur
    <3>1. Kept(t, u) /\ Kept(p, v)
      BY <1>3 DEF Still, Kept
    <3> QED BY Zenon, <1>3, <2>3, <3>1, StillTogether
  <2> QED BY <2>1, <2>2, <2>3
<1>5. Together(Place(u, "child", ch, u.spilled), Place(v, "child", ch, v.spilled))
  BY <1>3, <1>4, PlaceTogether
<1>6. Put(t, "child", ch) = Place(u, "child", ch, u.spilled)
  <2>1. (u.spilled \/ ("child" # "child" /\ t.cur.col = Cols)) = u.spilled
    BY Zenon, <1>3
  <2> QED BY Zenon, <1>1, <2>1, PutPlaces
<1>7. Put(p, "child", ch) = Place(v, "child", ch, v.spilled)
  <2>1. (v.spilled \/ ("child" # "child" /\ p.cur.col = Cols)) = v.spilled
    BY Zenon, <1>3
  <2> QED BY Zenon, <1>1, <2>1, PutPlaces
<1> QED BY Zenon, <1>5, <1>6, <1>7

(* The three ways to erase.                                                *)
LEMMA EraseAllTogether ==
  ASSUME NEW t, NEW p, Together(t, p)
  PROVE  Together(EraseAll(t), EraseAll(p))
<1>1. PICK u, v : u = EraseAll(t) /\ v = EraseAll(p)
  OBVIOUS
<1>2. Tty(t) /\ Tty(p)
  BY DEF Together
<1>3. /\ Tty(u) /\ Still(t, u) /\ u.cur = t.cur /\ u.spilled = t.spilled
      /\ Tty(v) /\ Still(p, v) /\ v.cur = p.cur
      /\ u.cells = [r \in 0 .. MaxRows - 1 |-> BlankRow]
      /\ v.cells = [r \in 0 .. MaxRows - 1 |-> BlankRow]
  BY Zenon, <1>1, <1>2, EraseAllTty
<1>4. ASSUME t.cur = p.cur, Alike(t, p) PROVE u.cur = v.cur /\ Alike(u, v)
  <2>1. \A r \in 0 .. u.bot : r \in 0 .. MaxRows - 1
    BY SMT, <1>3, SizeAssumption DEF Tty
  <2>2. \A r \in 0 .. u.bot : u.cells[r] = v.cells[r]
    BY Zenon, <1>3
  <2>3. More(u.sgr, v.sgr)
    BY Zenon, <1>3, <1>4 DEF Still, Alike
  <2> QED BY Zenon, <1>3, <1>4, <2>2, <2>3, SelfAlike DEF Alike
<1>5. Together(u, v)
  <2>1. Kept(t, u) /\ Kept(p, v)
    BY <1>3 DEF Still, Kept
  <2> QED BY Zenon, <1>3, <1>4, <2>1, StillTogether
<1> QED BY <1>1, <1>5

LEMMA EraseLineAlike ==
  ASSUME NEW t, NEW p, Together(t, p), t.cur = p.cur, Alike(t, p), ~t.spilled,
         NEW r \in 0 .. t.bot, NEW c \in 0 .. Cols - 1
  PROVE  CellAlike(EraseLine(t).cells[r][c], EraseLine(p).cells[r][c])
<1>1. Tty(t) /\ Tty(p)
  BY DEF Together
<1>2. r \in 0 .. MaxRows - 1
  BY SMT, <1>1, SizeAssumption DEF Tty
<1>3. CellAlike(t.cells[r][c], p.cells[r][c])
  BY Zenon DEF Alike
<1>4. PICK u, v : u = EraseLine(t) /\ v = EraseLine(p)
  OBVIOUS
<1>5. CASE r # t.cur.row
  <2>1. u.cells[r] = t.cells[r] /\ v.cells[r] = p.cells[r]
    BY Zenon, <1>1, <1>2, <1>4, <1>5, EraseLineTty
  <2> QED BY Zenon, <1>3, <1>4, <2>1
<1>6. CASE r = t.cur.row
  <2>1. /\ u.cells[r][c] = IF c < Lesser(t.cur.col, Cols - 1) THEN t.cells[r][c] ELSE Blank
        /\ v.cells[r][c] = IF c < Lesser(t.cur.col, Cols - 1) THEN p.cells[r][c] ELSE Blank
    BY Zenon, <1>1, <1>4, <1>6, EraseLineTty
  <2> QED BY Zenon, <1>3, <1>4, <2>1, SelfAlike
<1> QED BY <1>5, <1>6

LEMMA EraseBelowTogether ==
  ASSUME NEW t, NEW p, Together(t, p)
  PROVE  Together(EraseBelow(t), EraseBelow(p))
<1>1. PICK u, v : u = EraseBelow(t) /\ v = EraseBelow(p)
  OBVIOUS
<1>2. Tty(t) /\ Tty(p)
  BY DEF Together
<1>3. /\ Tty(u) /\ Still(t, u) /\ u.cur = t.cur /\ u.spilled = t.spilled
      /\ Tty(v) /\ Still(p, v) /\ v.cur = p.cur
      /\ u.cells = [r \in 0 .. MaxRows - 1 |->
                      IF r <= t.cur.row THEN EraseLine(t).cells[r] ELSE BlankRow]
      /\ v.cells = [r \in 0 .. MaxRows - 1 |->
                      IF r <= p.cur.row THEN EraseLine(p).cells[r] ELSE BlankRow]
  BY Zenon, <1>1, <1>2, EraseBelowTty
<1>4. ASSUME t.cur = p.cur, Alike(t, p) PROVE u.cur = v.cur /\ Alike(u, v)
  <2>1. \A r \in 0 .. t.bot : r \in 0 .. MaxRows - 1
    BY SMT, <1>2, SizeAssumption DEF Tty
  <2>2. u.bot = t.bot
    BY <1>3 DEF Still
  <2>3. ASSUME ~t.spilled, NEW r \in 0 .. t.bot, NEW c \in 0 .. Cols - 1
        PROVE  CellAlike(u.cells[r][c], v.cells[r][c])
    <3>1. CASE r <= t.cur.row
      <4>1. /\ u.cells[r] = EraseLine(t).cells[r] /\ v.cells[r] = EraseLine(p).cells[r]
        BY Zenon, <1>3, <1>4, <2>1, <3>1
      <4>2. CellAlike(EraseLine(t).cells[r][c], EraseLine(p).cells[r][c])
        BY <1>4, <2>3, EraseLineAlike
      <4> QED BY Zenon, <4>1, <4>2
    <3>2. CASE ~(r <= t.cur.row)
      BY Zenon, <1>3, <1>4, <2>1, <3>2, SelfAlike
    <3> QED BY <3>1, <3>2
  <2>4. Alike(u, v)
    <3>1. More(u.sgr, v.sgr)
      BY Zenon, <1>3, <1>4 DEF Still, Alike
    <3> QED BY Zenon, <1>3, <2>2, <2>3, <3>1 DEF Alike
  <2> QED BY Zenon, <1>3, <1>4, <2>4
<1>5. Together(u, v)
  <2>1. Kept(t, u) /\ Kept(p, v)
    BY <1>3 DEF Still, Kept
  <2> QED BY Zenon, <1>3, <1>4, <2>1, StillTogether
<1> QED BY <1>1, <1>5

LEMMA PlayTogether ==
  ASSUME NEW t, NEW p, NEW token \in Token, Together(t, p)
  PROVE  Together(Play(t, token), Play(p, token))
<1>0. Tty(t) /\ Tty(p)
  BY DEF Together
<1>1. CASE token.op = "text"
  <2>1. token.ch \in Char
    BY DEF Token
  <2> QED BY Zenon, <1>1, <2>1, PutTogether DEF Play
<1>2. CASE token.op = "newline"
  BY Zenon, <1>2, NewLineTogether DEF Play
<1>3. CASE token.op = "home"
  <2>1. PICK u, v : u = Goto(t, 0, 0) /\ v = Goto(p, 0, 0)
    OBVIOUS
  <2>2. 0 \in 0 .. t.rows - 1 /\ 0 \in 0 .. p.rows - 1 /\ 0 \in 0 .. Cols
    BY SMT, <1>0, SizeAssumption DEF Tty
  <2>3. /\ Tty(u) /\ Still(t, u) /\ SameCells(t, u) /\ u.cur = [row |-> 0, col |-> 0]
        /\ Tty(v) /\ Still(p, v) /\ SameCells(p, v) /\ v.cur = [row |-> 0, col |-> 0]
    BY <1>0, <2>1, <2>2, GotoTty
  <2>4. Alike(t, p) => Alike(u, v)
    BY Zenon, <2>3, SameAlike DEF Still, Alike
  <2>5. Together(u, v)
    <3>1. Kept(t, u) /\ Kept(p, v)
      BY <2>3 DEF Still, Kept
    <3> QED BY Zenon, <2>3, <2>4, <3>1, StillTogether
  <2> QED BY Zenon, <1>3, <2>1, <2>5 DEF Play
<1>4. CASE token.op = "erase"
  BY Zenon, <1>4, EraseAllTogether DEF Play
<1>5. CASE token.op = "eos"
  BY Zenon, <1>5, EraseBelowTogether DEF Play
<1>6. CASE token.op = "sgr"
  <2>1. PICK u, v : u = Render(t, token.params) /\ v = Render(p, token.params)
    OBVIOUS
  <2>2. PICK params, n : /\ params = token.params
                         /\ n \in Nat /\ DOMAIN params = 1 .. n
    <3>1. token.params \in Seq(Nat)
      BY DEF Token
    <3> QED BY <3>1
  <2>3. /\ Tty(u) /\ Kept(t, u) /\ SameCells(t, u) /\ u.cur = t.cur
        /\ Tty(v) /\ Kept(p, v) /\ SameCells(p, v) /\ v.cur = p.cur
        /\ u.sgr = IF params = <<>> THEN EmptyAttr ELSE ApplyAll(t.sgr, params)
        /\ v.sgr = IF params = <<>> THEN EmptyAttr ELSE ApplyAll(p.sgr, params)
    BY Zenon, <1>0, <2>1, <2>2, RenderTty
  <2>4. More(t.sgr, p.sgr) => More(u.sgr, v.sgr)
    <3>1. t.sgr \in SgrAttr /\ p.sgr \in SgrAttr
      BY <1>0 DEF Tty
    <3>2. More(t.sgr, p.sgr) => More(ApplyAll(t.sgr, params), ApplyAll(p.sgr, params))
      BY Zenon, <2>2, <3>1, ApplyAllMore DEF More
    <3> QED BY Zenon, <2>3, <3>2, SelfAlike
  <2>5. Alike(t, p) => Alike(u, v)
    BY Zenon, <2>3, <2>4, SameAlike DEF Kept, Alike
  <2>6. Together(u, v)
    BY Zenon, <2>3, <2>5, StillTogether
  <2> QED BY Zenon, <1>6, <2>1, <2>6 DEF Play
<1>7. CASE token.op = "save"
  <2>1. PICK u, v : u = SaveCursor(t, "child") /\ v = SaveCursor(p, "child")
    OBVIOUS
  <2>2. /\ Tty(u) /\ u.bot = t.bot /\ u.cur = t.cur /\ u.astray = t.astray
        /\ SameCells(t, u) /\ u.sgr = t.sgr
        /\ u.slot = [cur |-> t.cur, sgr |-> t.sgr, who |-> "child"]
        /\ Tty(v) /\ v.rows = p.rows /\ v.bot = p.bot /\ v.cur = p.cur
        /\ SameCells(p, v) /\ v.sgr = p.sgr
        /\ v.slot = [cur |-> p.cur, sgr |-> p.sgr, who |-> "child"]
    BY <1>0, <2>1, SlotTty
  <2>3. Alike(t, p) => Alike(u, v) /\ More(u.slot.sgr, v.slot.sgr)
    <3>1. Alike(t, p) => More(t.sgr, p.sgr)
      BY DEF Alike
    <3>2. u.slot.sgr = t.sgr /\ v.slot.sgr = p.sgr
      BY <2>2
    <3> QED BY Zenon, <2>2, <3>1, <3>2, SameAlike
  <2>4. Together(u, v)
    <3>1. u.slot.cur = t.cur /\ v.slot.cur = p.cur
      BY <2>2
    <3> QED BY Zenon, <2>2, <2>3, <3>1 DEF Together
  <2> QED BY Zenon, <1>7, <2>1, <2>4 DEF Play
<1>8. CASE token.op = "restore"
  <2>1. PICK u, v : u = RestoreCursor(t, "child") /\ v = RestoreCursor(p, "child")
    OBVIOUS
  <2>2. /\ Tty(u) /\ u.bot = t.bot /\ u.cur = t.slot.cur /\ u.slot = t.slot
        /\ u.astray = (t.astray \/ t.slot.who # "child") /\ SameCells(t, u)
        /\ u.sgr = t.slot.sgr
        /\ Tty(v) /\ v.rows = p.rows /\ v.bot = p.bot /\ v.cur = p.slot.cur
        /\ v.slot = p.slot /\ SameCells(p, v) /\ v.sgr = p.slot.sgr
    BY <1>0, <2>1, SlotTty
  <2>3. Alike(t, p) /\ More(t.slot.sgr, p.slot.sgr) => Alike(u, v)
    BY Zenon, <2>2, SameAlike
  <2>4. Together(u, v)
    BY Zenon, <2>2, <2>3 DEF Together
  <2> QED BY Zenon, <1>8, <2>1, <2>4 DEF Play
<1> QED BY <1>1, <1>2, <1>3, <1>4, <1>5, <1>6, <1>7, <1>8 DEF Token

(* The same for all that the child writes, and without a terminal to       *)
(* compare with.                                                           *)
LEMMA PlayAllTogether ==
  ASSUME NEW t, NEW p, NEW out \in Seq(Token), Together(t, p)
  PROVE  Together(PlayAll(t, out), PlayAll(p, out))
<1> DEFINE n == Len(out)
<1>1. n \in Nat /\ DOMAIN out = 1 .. n
  OBVIOUS
<1>2. PICK h : Played(h, t, out, n) /\ h[n] = PlayAll(t, out)
  BY Zenon, <1>1, PlayRuns
<1>3. PICK g : Played(g, p, out, n) /\ g[n] = PlayAll(p, out)
  BY Zenon, <1>1, PlayRuns
<1> DEFINE S == {k \in Nat : k <= n => Together(h[k], g[k])}
<1>4. 0 \in S
  BY <1>2, <1>3 DEF Played
<1>5. ASSUME NEW k \in S PROVE k + 1 \in S
  <2> SUFFICES ASSUME k + 1 <= n PROVE Together(h[k + 1], g[k + 1])
    OBVIOUS
  <2>1. k \in Nat /\ k <= n /\ k + 1 \in 1 .. n /\ (k + 1) - 1 = k
    BY SMT, <1>1
  <2>2. Together(h[k], g[k]) /\ out[k + 1] \in Token
    BY <2>1
  <2>3. h[k + 1] = Play(h[k], out[k + 1]) /\ g[k + 1] = Play(g[k], out[k + 1])
    BY <1>2, <1>3, <2>1 DEF Played
  <2> QED BY Zenon, <2>2, <2>3, PlayTogether
<1>6. S = Nat
  BY <1>4, <1>5, NumberInduction
<1>7. n <= n
  BY SMT, <1>1
<1>8. Together(h[n], g[n])
  BY Zenon, <1>1, <1>6, <1>7
<1> QED BY Zenon, <1>2, <1>3, <1>8

(* What the child writes, in two pieces.                                   *)
LEMMA PlayAllJoin ==
  ASSUME NEW t, NEW out \in Seq(Token), NEW k \in 0 .. Len(out)
  PROVE  PlayAll(t, out)
           = PlayAll(PlayAll(t, SubSeq(out, 1, k)), SubSeq(out, k + 1, Len(out)))
<1> DEFINE n == Len(out)
           str1 == SubSeq(out, 1, k)
           str2 == SubSeq(out, k + 1, n)
<1>1. /\ n \in Nat /\ k \in Nat /\ k <= n /\ n - k \in Nat
      /\ DOMAIN out = 1 .. n /\ DOMAIN str1 = 1 .. k /\ DOMAIN str2 = 1 .. (n - k)
      /\ \A i \in 1 .. k : str1[i] = out[i]
      /\ \A i \in 1 .. (n - k) : str2[i] = out[k + i]
  BY SMT
<1> HIDE DEF n, str1, str2
<1>2. PICK h : Played(h, t, out, n) /\ h[n] = PlayAll(t, out)
  BY Zenon, <1>1, PlayRuns
<1>3. PICK f : Played(f, t, str1, k) /\ f[k] = PlayAll(t, str1)
  BY Zenon, <1>1, PlayRuns
<1>4. PICK g : Played(g, PlayAll(t, str1), str2, n - k) /\ g[n - k] = PlayAll(PlayAll(t, str1), str2)
  BY Zenon, <1>1, PlayRuns
<1> DEFINE S1 == {i \in Nat : i <= k => f[i] = h[i]}
<1>5. S1 = Nat
  <2>1. 0 \in S1
    BY <1>2, <1>3 DEF Played
  <2>2. ASSUME NEW i \in S1 PROVE i + 1 \in S1
    <3> SUFFICES ASSUME i + 1 <= k PROVE f[i + 1] = h[i + 1]
      OBVIOUS
    <3>1. i \in Nat /\ i <= k /\ i + 1 \in 1 .. k /\ i + 1 \in 1 .. n /\ (i + 1) - 1 = i
      BY SMT, <1>1
    <3>2. f[i] = h[i]
      BY <3>1
    <3>3. f[i + 1] = Play(f[i], str1[i + 1]) /\ h[i + 1] = Play(h[i], out[i + 1])
      BY <1>2, <1>3, <3>1 DEF Played
    <3>4. str1[i + 1] = out[i + 1]
      BY Zenon, <1>1, <3>1
    <3> QED BY Zenon, <3>2, <3>3, <3>4
  <2> QED BY <2>1, <2>2, NumberInduction
<1>6. f[k] = h[k]
  BY <1>1, <1>5
<1> DEFINE S2 == {i \in Nat : i <= n - k => g[i] = h[k + i]}
<1>7. S2 = Nat
  <2>1. 0 \in S2
    <3>1. k + 0 = k
      BY SMT, <1>1
    <3> QED BY <1>3, <1>4, <1>6, <3>1 DEF Played
  <2>2. ASSUME NEW i \in S2 PROVE i + 1 \in S2
    <3> SUFFICES ASSUME i + 1 <= n - k PROVE g[i + 1] = h[k + (i + 1)]
      OBVIOUS
    <3>1. /\ i \in Nat /\ i <= n - k /\ i + 1 \in 1 .. (n - k) /\ (i + 1) - 1 = i
          /\ k + (i + 1) \in 1 .. n /\ (k + (i + 1)) - 1 = k + i
      BY SMT, <1>1
    <3>2. g[i] = h[k + i]
      BY <3>1
    <3>3. g[i + 1] = Play(g[i], str2[i + 1])
          /\ h[k + (i + 1)] = Play(h[k + i], out[k + (i + 1)])
      BY <1>2, <1>4, <3>1 DEF Played
    <3>4. str2[i + 1] = out[k + (i + 1)]
      BY Zenon, <1>1, <3>1
    <3> QED BY Zenon, <3>2, <3>3, <3>4
  <2> QED BY <2>1, <2>2, NumberInduction
<1>8. n - k \in Nat /\ n - k <= n - k /\ k + (n - k) = n
  BY SMT, <1>1
<1>9. g[n - k] = h[k + (n - k)]
  BY Zenon, <1>7, <1>8
<1> QED BY Zenon, <1>2, <1>4, <1>8, <1>9 DEF str1, str2, n

-----------------------------------------------------------------------------
(* What output.c keeps of fep, and what drawing a piece of text leaves of  *)
(* it: everything but attr.                                                *)
FepFields ==
  {"wsRow", "sgrCodes", "attr", "attrPty", "cursor", "cursorSave",
   "cursorText", "cursorAttr", "statusText", "statusAttr"}

Shape(s) ==
  /\ DOMAIN s = {"tty", "fep"} /\ Tty(s.tty)
  /\ DOMAIN s.fep = FepFields /\ IsRecord(s.fep)

Draws(who, s, z) ==
  /\ Shape(z) /\ Texted(who, s.tty, z.tty)
  /\ \A f \in FepFields \ {"attr"} : z.fep[f] = s.fep[f]

LEMMA DrawsOn ==
  ASSUME NEW who, NEW s, NEW z, NEW y, Shape(s), Draws(who, s, z), Draws(who, z, y)
  PROVE  Draws(who, s, y)
<1>1. Texted(who, s.tty, y.tty)
  BY TextedOn DEF Draws, Shape
<1> QED BY Zenon, <1>1 DEF Draws

LEMMA DrawsNothing ==
  ASSUME NEW who, NEW s, Shape(s)
  PROVE  Draws(who, s, s)
  BY Zenon, CalmTexted DEF Draws, Shape, Kept, SameCells

(* It is written, and then no attribute is set that was not set before.    *)
Wrote(who, s, z) == Draws(who, s, z) /\ z.fep.attr \in {EmptyAttr, s.fep.attr}

LEMMA WroteOn ==
  ASSUME NEW who, NEW s, NEW z, NEW y, Shape(s), Wrote(who, s, z), Wrote(who, z, y)
  PROVE  Wrote(who, s, y)
<1>1. Draws(who, s, y)
  BY Zenon, DrawsOn DEF Wrote
<1> QED BY Zenon, <1>1 DEF Wrote

(* What changes the attributes only.                                       *)
Sets(s, z) ==
  /\ Shape(z) /\ Kept(s.tty, z.tty) /\ SameCells(s.tty, z.tty) /\ z.tty.cur = s.tty.cur
  /\ \A f \in FepFields \ {"attr"} : z.fep[f] = s.fep[f]

LEMMA SetsDraws ==
  ASSUME NEW who, NEW s, NEW z, Sets(s, z)
  PROVE  Draws(who, s, z)
  BY Zenon, CalmTexted DEF Draws, Sets, Shape

SetTo(s, a, z) ==
  LET params == ParamsFromAttr(a, s.fep.sgrCodes)
  IN /\ Sets(s, z) /\ z.fep.attr = a
     /\ z.tty.sgr = IF params = <<>> THEN EmptyAttr ELSE ApplyAll(s.tty.sgr, params)

LEMMA SetAttributesSets ==
  ASSUME NEW s, NEW a \in SgrAttr, Shape(s)
  PROVE  SetTo(s, a, SetAttributes(s, a))
<1>1. PICK params, u : /\ u = Render(s.tty, params)
                       /\ params = ParamsFromAttr(a, s.fep.sgrCodes)
  OBVIOUS
<1>2. PICK n : n \in Nat /\ DOMAIN params = 1 .. n
  <2>1. params \in Seq(Entering(s.fep.sgrCodes) \cup ColourParams)
    BY <1>1, ParamsOfAttr
  <2> QED BY <2>1
<1>3. /\ Tty(u) /\ Kept(s.tty, u) /\ SameCells(s.tty, u) /\ u.cur = s.tty.cur
      /\ u.sgr = IF params = <<>> THEN EmptyAttr ELSE ApplyAll(s.tty.sgr, params)
  BY Zenon, <1>1, <1>2, RenderTty DEF Shape
<1>4. PICK z : z = SetAttributes(s, a)
  OBVIOUS
<1>5. z = [s EXCEPT !.tty = u, !.fep.attr = a]
  BY Zenon, <1>1, <1>4 DEF SetAttributes
<1>6. /\ DOMAIN z = {"tty", "fep"} /\ z.tty = u /\ DOMAIN z.fep = FepFields
      /\ z.fep.attr = a
      /\ \A f \in FepFields \ {"attr"} : z.fep[f] = s.fep[f]
  BY SMT, <1>5 DEF Shape, FepFields
<1>7. Sets(s, z)
  <2>1. z.fep = [s.fep EXCEPT !.attr = a]
    BY SMT, <1>5 DEF Shape
  <2>2. IsRecord(z.fep)
    BY Zenon, <2>1 DEF IsRecord
  <2> QED BY Zenon, <1>3, <1>6, <2>2 DEF Sets, Shape
<1> QED BY Zenon, <1>1, <1>3, <1>4, <1>6, <1>7 DEF SetTo

LEMMA ApplyAttrSets ==
  ASSUME NEW s, NEW a \in SgrAttr, Shape(s)
  PROVE  Sets(s, ApplyAttr(s, a)) /\ ApplyAttr(s, a).fep.attr = a
<1>1. PICK reset : reset = [s EXCEPT !.tty = Render(@, <<0>>)]
  OBVIOUS
<1>2. Sets(s, reset)
  <2>1. PICK u : u = Render(s.tty, <<0>>)
    OBVIOUS
  <2>2. Tty(u) /\ Kept(s.tty, u) /\ SameCells(s.tty, u) /\ u.cur = s.tty.cur
    <3>1. 1 \in Nat /\ DOMAIN <<0>> = 1 .. 1
      OBVIOUS
    <3> QED BY Zenon, <2>1, <3>1, RenderTty DEF Shape
  <2>3. reset = [s EXCEPT !.tty = u]
    BY Zenon, <1>1, <2>1
  <2>4. DOMAIN reset = {"tty", "fep"} /\ reset.tty = u /\ reset.fep = s.fep
    BY SMT, <2>3 DEF Shape
  <2> QED BY Zenon, <2>2, <2>4 DEF Sets, Shape
<1>3. Sets(s, SetAttributes(s, a)) /\ Sets(s, SetAttributes(reset, a))
  <2>1. PICK z : z = SetAttributes(reset, a)
    OBVIOUS
  <2>2. Sets(reset, z)
    BY Zenon, <1>2, <2>1, SetAttributesSets DEF Sets, SetTo
  <2>3. Sets(s, z)
    BY Zenon, <1>2, <2>2 DEF Sets, Kept, SameCells
  <2> QED BY Zenon, <2>1, <2>3, SetAttributesSets DEF SetTo
<1>4. Sets(s, s)
  BY Zenon DEF Sets, Kept, SameCells
<1>5. ApplyAttr(s, a) \in {SetAttributes(reset, a), SetAttributes(s, a), s}
  BY Zenon, <1>1 DEF ApplyAttr
<1>6. ApplyAttr(s, a).fep.attr = a
  BY AttributeKnown DEF Shape, FepFields
<1> QED BY Zenon, <1>3, <1>4, <1>5, <1>6

(* Before what the child writes, its attribute is set again: one that fep  *)
(* has reset, or that is still set.  Nothing is taken away.                *)
LEMMA ApplyAttrAdds ==
  ASSUME NEW s, Shape(s), NEW a \in SgrAttr, s.fep.attr \in {EmptyAttr, a},
         s.fep.sgrCodes = GetSgrCodes
  PROVE  More(ApplyAttr(s, a).tty.sgr, s.tty.sgr)
<1> SUFFICES ASSUME EnteringAdds
             PROVE  s.tty.sgr.attr \subseteq ApplyAttr(s, a).tty.sgr.attr
  BY DEF More
<1>1. CASE s.fep.attr = a
  <2>1. ApplyAttr(s, a) = s
    BY Zenon, <1>1 DEF ApplyAttr
  <2> QED BY <2>1
<1>2. CASE s.fep.attr # a
  <2>1. s.fep.attr = EmptyAttr /\ a # EmptyAttr
    BY Zenon, <1>2
  <2>2. EmptyAttr.attr = {} /\ EmptyAttr.fg = 0 /\ EmptyAttr.bg = 0
    BY DEF EmptyAttr
  <2>3. ApplyAttr(s, a) = SetAttributes(s, a)
    BY Zenon, <2>1, <2>2 DEF ApplyAttr
  <2>4. PICK params : params = ParamsFromAttr(a, GetSgrCodes)
    OBVIOUS
  <2>5. params # <<>> /\ params \in Seq(Entering(GetSgrCodes) \cup ColourParams)
    BY <2>1, <2>4, ParamsOfSome, ParamsOfAttr
  <2>6. SetAttributes(s, a).tty.sgr = ApplyAll(s.tty.sgr, params)
    BY Zenon, <2>4, <2>5, SetAttributesSets DEF SetTo
  <2>7. s.tty.sgr \in SgrAttr
    BY DEF Shape, Tty
  <2> QED BY Zenon, <2>3, <2>5, <2>6, <2>7, AddsAll
<1> QED BY <1>1, <1>2

LEMMA WriteDraws ==
  ASSUME NEW s, NEW who \in Writer \ {"child"}, NEW n \in Nat, NEW str \in [1 .. n -> Char],
         Shape(s)
  PROVE  Wrote(who, s, Write(s, who, str))
<1>1. PICK u : u = PutAll(s.tty, who, str)
  OBVIOUS
<1>2. Tty(u) /\ Texted(who, s.tty, u)
  BY <1>1, PutAllTexted DEF Shape, Texted
<1>3. PICK z : z = Write(s, who, str)
  OBVIOUS
<1>4. z = [s EXCEPT !.tty = u]
  BY Zenon, <1>1, <1>3 DEF Write
<1>5. DOMAIN z = {"tty", "fep"} /\ z.tty = u /\ z.fep = s.fep
  BY SMT, <1>4 DEF Shape
<1> QED BY Zenon, <1>2, <1>3, <1>5 DEF Draws, Shape, Wrote

(* A part of a text, and all the parts.                                    *)
LEMMA PartDraws ==
  ASSUME NEW s, NEW who \in Writer \ {"child"}, NEW a, NEW part, NEW n \in Nat,
         part.str \in [1 .. n -> Char], Shape(s)
  PROVE  Wrote(who, s, WritePart(s, who, a, part))
<1>1. Wrote(who, s, Write(s, who, part.str))
  BY WriteDraws
<1>2. PICK x, y, z : /\ x = SetAttributes(s, AttrFromAttribute(a))
                     /\ y = Write(x, who, part.str)
                     /\ z = SetAttributes(y, EmptyAttr)
  OBVIOUS
<1>3. Draws(who, s, x)
  BY Zenon, <1>2, SetAttributesSets, SetsDraws, AttrFromAttributeType DEF SetTo
<1>4. Draws(who, x, y)
  <2>1. Shape(x)
    BY <1>3 DEF Draws
  <2> QED BY Zenon, <1>2, <2>1, WriteDraws DEF Wrote
<1>5. Draws(who, y, z) /\ z.fep.attr = EmptyAttr
  <2>1. Shape(y)
    BY <1>4 DEF Draws
  <2> QED BY Zenon, <1>2, <2>1, SetAttributesSets, SetsDraws, EmptyAttrType DEF SetTo
<1>6. Wrote(who, s, z)
  <2>1. Draws(who, s, y)
    BY Zenon, <1>3, <1>4, DrawsOn
  <2> QED BY Zenon, <1>5, <2>1, DrawsOn DEF Wrote
<1>7. WritePart(s, who, a, part) \in {z, Write(s, who, part.str)}
  BY Zenon, <1>2 DEF WritePart
<1> QED BY Zenon, <1>1, <1>6, <1>7

LEMMA PartsDraw ==
  ASSUME NEW s, NEW who \in Writer \ {"child"}, NEW a, NEW parts, NEW n \in Nat,
         DOMAIN parts = 1 .. n,
         \A k \in 1 .. n : \E m \in Nat : parts[k].str \in [1 .. m -> Char],
         Shape(s)
  PROVE  Wrote(who, s, WriteParts(s, who, a, parts))
<1>1. PICK h : /\ Drawn(h, who, a, s, parts, n)
               /\ h[n] = WriteParts(s, who, a, parts)
  BY Zenon, PartRuns
<1> DEFINE S == {k \in Nat : k <= n => Wrote(who, s, h[k])}
<1>2. 0 \in S
  BY <1>1, DrawsNothing DEF Drawn, Wrote
<1>3. ASSUME NEW k \in S PROVE k + 1 \in S
  <2> SUFFICES ASSUME k + 1 <= n PROVE Wrote(who, s, h[k + 1])
    OBVIOUS
  <2>1. k \in Nat /\ k <= n /\ k + 1 \in 1 .. n /\ (k + 1) - 1 = k
    <3>1. k \in Nat
      BY Zenon
    <3> HIDE DEF S
    <3> QED BY SMT, <3>1
  <2>2. Wrote(who, s, h[k])
    BY <2>1
  <2>3. h[k + 1] = WritePart(h[k], who, a, parts[k + 1])
    BY <1>1, <2>1 DEF Drawn
  <2>4. PICK m \in Nat : parts[k + 1].str \in [1 .. m -> Char]
    BY <2>1
  <2>5. Shape(h[k])
    BY <2>2 DEF Draws, Wrote
  <2>6. Wrote(who, h[k], h[k + 1])
    BY <2>3, <2>4, <2>5, PartDraws
  <2> QED BY <2>2, <2>6, WroteOn
<1>4. S = Nat
  BY <1>2, <1>3, NumberInduction
<1>5. n <= n
  BY SMT
<1>6. Wrote(who, s, h[n])
  BY Zenon, <1>4, <1>5
<1> QED BY Zenon, <1>1, <1>6

LEMMA StringDraws ==
  ASSUME NEW s, NEW who \in Writer \ {"child"}, NEW str \in Seq(Char), NEW width \in Nat,
         NEW a \in Attribute, Shape(s)
  PROVE  Wrote(who, s, StringWithAttribute(s, who, str, width, a))
<1> DEFINE trunc == Trunc(str, width)
           n == Len(trunc)
           start == Lesser(n, Lesser(a.start, a.end))
           end == Lesser(n, IF a.start < a.end THEN a.end ELSE a.start)
           part(from, to, styled) == [str |-> SubSeq(trunc, from + 1, to), styled |-> styled]
           parts == <<part(0, IF a.type = "none" THEN 0 ELSE start, FALSE),
                      part(start, end, start < end /\ a.type # "none"),
                      part(end, n, FALSE)>>
           z0 == ApplyAttr(s, EmptyAttr)
           z1 == WriteParts(z0, who, a, parts)
<1>1. trunc \in Seq(Char)
  BY SMT DEF Trunc, Lesser
<1>2. /\ n \in Nat /\ start \in 0 .. n /\ end \in start .. n
      /\ a.start \in Nat /\ a.end \in Nat
  <2>1. n \in Nat
    BY <1>1
  <2>2. a.start \in Nat /\ a.end \in Nat
    BY DEF Attribute
  <2> HIDE DEF n
  <2> QED BY SMT, <2>1, <2>2 DEF Lesser
<1>3. \A from \in 0 .. n, to \in 0 .. n :
        from <= to => \E m \in Nat : SubSeq(trunc, from + 1, to) \in [1 .. m -> Char]
  <2> SUFFICES ASSUME NEW from \in 0 .. n, NEW to \in 0 .. n, from <= to
               PROVE  \E m \in Nat : SubSeq(trunc, from + 1, to) \in [1 .. m -> Char]
    OBVIOUS
  <2> HIDE DEF trunc
  <2>1. /\ from + 1 \in Int /\ to \in Int
        /\ \A i \in from + 1 .. to : trunc[i] \in Char
    BY SMT, <1>1, <1>2
  <2>2. SubSeq(trunc, from + 1, to) \in Seq(Char)
    BY <1>1, <2>1, SubSeqProperties
  <2> QED BY Zenon, <2>2, LenProperties
<1>4. DOMAIN parts = 1 .. 3
  BY SMT
<1>5. \A k \in 1 .. 3 : \E m \in Nat : parts[k].str \in [1 .. m -> Char]
  <2>1. PICK first : first = IF a.type = "none" THEN 0 ELSE start
    OBVIOUS
  <2>2. /\ parts[1].str = SubSeq(trunc, 0 + 1, first)
        /\ parts[2].str = SubSeq(trunc, start + 1, end)
        /\ parts[3].str = SubSeq(trunc, end + 1, n)
    BY SMT, <2>1
  <2> HIDE DEF trunc, n, start, end, parts
  <2>3. /\ 0 \in 0 .. n /\ first \in 0 .. n /\ 0 <= first
        /\ start \in 0 .. n /\ end \in 0 .. n /\ n \in 0 .. n
        /\ start <= end /\ end <= n
    BY SMT, <1>2, <2>1
  <2>4. \E m \in Nat : parts[1].str \in [1 .. m -> Char]
    <3>1. 0 \in 0 .. n /\ first \in 0 .. n /\ 0 <= first
      BY <2>3
    <3>2. \E m \in Nat : SubSeq(trunc, 0 + 1, first) \in [1 .. m -> Char]
      BY Zenon, <1>3, <3>1
    <3> QED BY Zenon, <2>2, <3>2
  <2>5. \E m \in Nat : parts[2].str \in [1 .. m -> Char]
    <3>1. start \in 0 .. n /\ end \in 0 .. n /\ start <= end
      BY <2>3
    <3>2. \E m \in Nat : SubSeq(trunc, start + 1, end) \in [1 .. m -> Char]
      BY Zenon, <1>3, <3>1
    <3> QED BY Zenon, <2>2, <3>2
  <2>6. \E m \in Nat : parts[3].str \in [1 .. m -> Char]
    <3>1. end \in 0 .. n /\ n \in 0 .. n /\ end <= n
      BY <2>3
    <3>2. \E m \in Nat : SubSeq(trunc, end + 1, n) \in [1 .. m -> Char]
      BY Zenon, <1>3, <3>1
    <3> QED BY Zenon, <2>2, <3>2
  <2>7. 1 .. 3 = {1, 2, 3}
    BY SMT
  <2> QED BY Zenon, <2>4, <2>5, <2>6, <2>7
<1>6. Draws(who, s, z0) /\ z0.fep.attr = EmptyAttr
  BY ApplyAttrSets, SetsDraws, EmptyAttrType
<1>7. Wrote(who, z0, z1)
  <2> HIDE DEF z0, parts
  <2>1. Shape(z0)
    BY <1>6 DEF Draws
  <2>2. 3 \in Nat
    OBVIOUS
  <2> QED BY Zenon, <1>4, <1>5, <2>1, <2>2, PartsDraw
<1>8. Wrote(who, s, z1)
  <2> HIDE DEF z0, z1
  <2> QED BY Zenon, <1>6, <1>7, DrawsOn DEF Wrote
<1>9. Wrote(who, s, s)
  BY DrawsNothing DEF Wrote
<1>10. StringWithAttribute(s, who, str, width, a) = IF str = <<>> THEN s ELSE z1
  BY Zenon DEF StringWithAttribute
<1> QED BY Zenon, <1>8, <1>9, <1>10

(* What exactly a text leaves: u is t with k characters of str, the one    *)
(* behind skip and those that follow, each in a cell of its own from the   *)
(* cursor on, and with nothing else changed; the cursor is behind them.    *)
Covers(who, t, u, str, skip, k) ==
  /\ u.spilled = t.spilled
  /\ \A r \in 0 .. MaxRows - 1 : r # t.cur.row => u.cells[r] = t.cells[r]
  /\ \A c \in 0 .. Cols - 1 :
       IF c \in t.cur.col .. t.cur.col + k - 1
         THEN /\ u.cells[t.cur.row][c].who = who
              /\ u.cells[t.cur.row][c].ch = str[skip + 1 + (c - t.cur.col)]
         ELSE u.cells[t.cur.row][c] = t.cells[t.cur.row][c]

Exactly(who, t, u, str, skip, k) ==
  /\ Covers(who, t, u, str, skip, k)
  /\ u.cur = [row |-> t.cur.row, col |-> t.cur.col + k]

(* It does so if there is room for it, and there was if it has not spilled. *)
Shows(who, t, u, str, skip, k) ==
  /\ Tty(u) /\ Kept(t, u)
  /\ t.cur.col + k <= Cols \/ ~u.spilled => Exactly(who, t, u, str, skip, k)

LEMMA ShowsNothing ==
  ASSUME NEW who, NEW t, NEW str, NEW skip, Tty(t)
  PROVE  Shows(who, t, t, str, skip, 0)
<1>1. t.cur.col \in Nat /\ t.cur = [row |-> t.cur.row, col |-> t.cur.col + 0]
  BY SMT DEF Tty, OnScreen
<1>2. \A c \in 0 .. Cols - 1 : c \notin t.cur.col .. t.cur.col + 0 - 1
  BY SMT, <1>1
<1> QED BY Zenon, <1>1, <1>2 DEF Shows, Exactly, Covers, Kept

LEMMA ShowsNext ==
  ASSUME NEW who \in Writer \ {"child"}, NEW t, NEW u, NEW str, NEW skip \in Nat,
         NEW k \in Nat, Tty(t), Shows(who, t, u, str, skip, k),
         NEW ch \in Char, ch = str[skip + k + 1]
  PROVE  Shows(who, t, Put(u, who, ch), str, skip, k + 1)
<1>1. PICK row, col : row = t.cur.row /\ col = t.cur.col
  OBVIOUS
<1>2. row \in 0 .. MaxRows - 1 /\ col \in 0 .. Cols
  BY SMT, <1>1, SizeAssumption DEF Tty, OnScreen
<1>3. /\ Tty(u) /\ Kept(t, u) /\ u.spilled \in BOOLEAN /\ u.cur.col \in 0 .. Cols
      /\ t.cur.col + k <= Cols \/ ~u.spilled => Exactly(who, t, u, str, skip, k)
  BY DEF Shows, Tty, OnScreen
<1>4. PICK w, v, spilled : /\ w = Wrapped(u) /\ v = Place(w, who, ch, spilled)
                           /\ spilled = (u.spilled \/ u.cur.col = Cols)
  OBVIOUS
<1>5. /\ Tty(w) /\ Still(u, w) /\ w.cur.col \in 0 .. Cols - 1 /\ w.spilled = u.spilled
      /\ u.cur.col # Cols => w = u
  BY Zenon, <1>3, <1>4, WrappedTty
<1>6. Put(u, who, ch) = v
  <2>1. (w.spilled \/ (who # "child" /\ u.cur.col = Cols)) = spilled
    BY Zenon, <1>4, <1>5
  <2> QED BY Zenon, <1>4, <2>1, PutPlaces
<1>7. Placed(w, who, ch, v) /\ v.spilled = (u.spilled \/ u.cur.col = Cols)
  <2>1. spilled \in BOOLEAN
    BY Zenon, <1>3, <1>4
  <2> QED BY Zenon, <1>4, <1>5, <2>1, PlaceTty
<1>8. Tty(v) /\ Kept(t, v)
  BY Zenon, <1>3, <1>5, <1>7 DEF Placed, Still, Kept
<1>9. ASSUME col + (k + 1) <= Cols \/ ~v.spilled
      PROVE  Exactly(who, t, v, str, skip, k + 1)
  <2>1. col + k <= Cols \/ ~u.spilled
    <3>1. col + (k + 1) <= Cols => col + k <= Cols
      BY SMT, <1>2, SizeAssumption
    <3>2. ~v.spilled => ~u.spilled
      BY Zenon, <1>7
    <3> QED BY Zenon, <1>9, <3>1, <3>2
  <2>2. Exactly(who, t, u, str, skip, k)
    BY <1>1, <1>3, <2>1
  <2>3. u.cur.row = row /\ u.cur.col = col + k /\ u.spilled = t.spilled
    BY <1>1, <2>2 DEF Exactly, Covers
  <2>4. u.cur.col # Cols
    <3>1. col + (k + 1) <= Cols => col + k # Cols
      BY SMT, <1>2, SizeAssumption
    <3>2. ~v.spilled => u.cur.col # Cols
      BY Zenon, <1>7
    <3> QED BY Zenon, <1>9, <2>3, <3>1, <3>2
  <2>5. Placed(u, who, ch, v) /\ v.spilled = u.spilled
    BY Zenon, <1>3, <1>5, <1>7, <2>4
  <2>6. v.cur = [row |-> row, col |-> col + (k + 1)]
    <3>1. v.cur = [row |-> row, col |-> (col + k) + 1]
      BY Zenon, <2>3, <2>5 DEF Placed
    <3>2. (col + k) + 1 = col + (k + 1)
      BY SMT, <1>2
    <3> QED BY <3>1, <3>2
  <2>7. \A r \in 0 .. MaxRows - 1 : r # row => v.cells[r] = t.cells[r]
    BY Zenon, <1>1, <2>2, <2>3, <2>5 DEF Placed, Exactly, Covers
  <2>8. ASSUME NEW c \in 0 .. Cols - 1
        PROVE  IF c \in col .. col + (k + 1) - 1
                 THEN /\ v.cells[row][c].who = who
                      /\ v.cells[row][c].ch = str[skip + 1 + (c - col)]
                 ELSE v.cells[row][c] = t.cells[row][c]
    <3>1. v.cells[row][c] = IF c = col + k THEN [who |-> who, ch |-> ch, sgr |-> u.sgr]
                            ELSE u.cells[row][c]
      BY Zenon, <2>3, <2>5, <2>8 DEF Placed
    <3>2. IF c \in col .. col + k - 1
            THEN /\ u.cells[row][c].who = who
                 /\ u.cells[row][c].ch = str[skip + 1 + (c - col)]
            ELSE u.cells[row][c] = t.cells[row][c]
      BY Zenon, <1>1, <2>2, <2>8 DEF Exactly, Covers
    <3>3. /\ c # col + k => (c \in col .. col + (k + 1) - 1 <=> c \in col .. col + k - 1)
          /\ c = col + k => /\ c \in col .. col + (k + 1) - 1
                            /\ skip + 1 + (c - col) = skip + k + 1
      BY SMT, <1>2
    <3>4. CASE c = col + k
      BY <3>1, <3>3, <3>4
    <3>5. CASE c # col + k
      BY Zenon, <3>1, <3>2, <3>3, <3>5
    <3> QED BY <3>4, <3>5
  <2> QED BY Zenon, <1>1, <2>3, <2>5, <2>6, <2>7, <2>8 DEF Exactly, Covers
<1> QED BY Zenon, <1>1, <1>6, <1>8, <1>9 DEF Shows

(* A piece of it, then one with its attribute, then the whole text.        *)
LEMMA ShowsPiece ==
  ASSUME NEW who \in Writer \ {"child"}, NEW t, NEW u, NEW str, NEW skip \in Nat,
         NEW k \in Nat, NEW m \in Nat, NEW piece \in [1 .. m -> Char],
         Tty(t), Shows(who, t, u, str, skip, k),
         \A j \in 1 .. m : piece[j] = str[skip + k + j]
  PROVE  Shows(who, t, PutAll(u, who, piece), str, skip, k + m)
<1>1. PICK h : Written(h, who, u, piece, m) /\ h[m] = PutAll(u, who, piece)
  BY Zenon, PutRuns
<1> DEFINE S == {j \in Nat : j <= m => Shows(who, t, h[j], str, skip, k + j)}
<1>2. 0 \in S
  <2>1. k + 0 = k
    BY SMT
  <2> QED BY <1>1, <2>1 DEF Written
<1>3. ASSUME NEW j \in S PROVE j + 1 \in S
  <2> SUFFICES ASSUME j + 1 <= m PROVE Shows(who, t, h[j + 1], str, skip, k + (j + 1))
    OBVIOUS
  <2>1. j \in Nat
    BY Zenon
  <2>2. Shows(who, t, h[j], str, skip, k + j)
    <3>1. j <= m
      BY SMT, <2>1
    <3> QED BY <3>1
  <2> HIDE DEF S
  <2>4. /\ j + 1 \in 1 .. m /\ (j + 1) - 1 = j /\ k + j \in Nat
        /\ k + (j + 1) = (k + j) + 1
        /\ skip + k + (j + 1) = skip + (k + j) + 1
    BY SMT, <2>1
  <2>5. h[j + 1] = Put(h[j], who, piece[j + 1])
    BY <1>1, <2>4 DEF Written
  <2>6. piece[j + 1] \in Char /\ piece[j + 1] = str[skip + (k + j) + 1]
    BY <2>4
  <2>7. PICK n, x, y : n = k + j /\ x = h[j] /\ y = piece[j + 1]
    OBVIOUS
  <2>8. Shows(who, t, Put(x, who, y), str, skip, n + 1)
    <3>1. n \in Nat
      BY <2>4, <2>7
    <3>2. Shows(who, t, x, str, skip, n) /\ y \in Char /\ y = str[skip + n + 1]
      BY <2>2, <2>6, <2>7
    <3> QED BY Zenon, <3>1, <3>2, ShowsNext
  <2> QED BY <2>4, <2>5, <2>7, <2>8
<1>4. S = Nat
  BY <1>2, <1>3, NumberInduction
<1>5. m <= m
  BY SMT
<1>6. Shows(who, t, h[m], str, skip, k + m)
  BY Zenon, <1>4, <1>5
<1> QED BY Zenon, <1>1, <1>6

LEMMA ShowsSets ==
  ASSUME NEW who, NEW t, NEW s, NEW z, NEW str, NEW skip, NEW k,
         Shows(who, t, s.tty, str, skip, k), Sets(s, z)
  PROVE  Shows(who, t, z.tty, str, skip, k)
  BY Zenon DEF Shows, Exactly, Covers, Sets, Shape, Kept, SameCells

(* Without an attribute, what is before its start index is left out.       *)
Skipped(a, n) == IF a.type = "none" THEN Lesser(n, Lesser(a.start, a.end)) ELSE 0

(* The characters of str behind from, up to the one at to.                 *)
Piece(piece, str, from, to) ==
  /\ piece \in [1 .. to - from -> Char]
  /\ \A j \in 1 .. to - from : piece[j] = str[from + j]

LEMMA PieceOf ==
  ASSUME NEW str \in Seq(Char), NEW n \in Nat, n <= Len(str), NEW trunc,
         trunc = SubSeq(str, 1, n),
         NEW from \in Nat, NEW to \in Nat, from <= to, to <= n
  PROVE  Piece(SubSeq(trunc, from + 1, to), str, from, to)
<1>1. trunc \in Seq(Char) /\ Len(trunc) = n /\ \A i \in 1 .. n : trunc[i] = str[i]
  <2>1. 1 \in Int /\ n \in Int /\ \A i \in 1 .. n : str[i] \in Char
    BY SMT
  <2>2. Len(trunc) = n /\ \A i \in 1 .. n : trunc[i] = str[i]
    BY <2>1
  <2> QED BY <2>1, <2>2, SubSeqProperties
<1>2. PICK piece : piece = SubSeq(trunc, from + 1, to)
  OBVIOUS
<1>3. piece \in Seq(Char) /\ Len(piece) = to - from
      /\ \A j \in 1 .. to - from : piece[j] = trunc[from + j]
  <2>1. from + 1 \in Int /\ to \in Int /\ \A i \in from + 1 .. to : trunc[i] \in Char
    BY SMT, <1>1
  <2>2. piece \in Seq(Char)
    BY <1>2, <2>1, SubSeqProperties
  <2>3. /\ Len(piece) = to - from
        /\ \A j \in 1 .. to - from : piece[j] = trunc[from + j]
    BY SMT, <1>2
  <2> QED BY <2>2, <2>3
<1>4. piece \in [1 .. to - from -> Char]
  BY Zenon, <1>3, LenProperties
<1>5. \A j \in 1 .. to - from : piece[j] = str[from + j]
  <2>1. \A j \in 1 .. to - from : from + j \in 1 .. n
    BY SMT
  <2> QED BY Zenon, <1>1, <1>3, <2>1
<1> QED BY <1>2, <1>4, <1>5 DEF Piece

(* The text up to its character at to. *)
Upto(who, t, u, str, skip, to) == Shows(who, t, u, str, skip, to - skip)

LEMMA ShowsPart ==
  ASSUME NEW who \in Writer \ {"child"}, NEW t, NEW s, NEW a, NEW str, NEW skip \in Nat,
         NEW from \in Nat, NEW to \in Nat, skip <= from, from <= to,
         NEW part, Piece(part.str, str, from, to),
         Tty(t), Shape(s), Upto(who, t, s.tty, str, skip, from)
  PROVE  /\ Shape(WritePart(s, who, a, part))
         /\ Upto(who, t, WritePart(s, who, a, part).tty, str, skip, to)
<1>0. PICK k \in Nat, m \in Nat : /\ k = from - skip /\ m = to - from
                                  /\ k + m = to - skip /\ skip + k = from
  BY SMT
<1>1. PICK piece \in [1 .. m -> Char] : piece = part.str
  BY <1>0 DEF Piece
<1>2. \A j \in 1 .. m : piece[j] = str[skip + k + j]
  BY Zenon, <1>0, <1>1 DEF Piece
<1>3. ASSUME NEW x, Shape(x), Shows(who, t, x.tty, str, skip, k)
      PROVE  /\ Shape(Write(x, who, piece))
             /\ Shows(who, t, Write(x, who, piece).tty, str, skip, k + m)
  <2>1. Shape(Write(x, who, piece))
    BY <1>3, WriteDraws DEF Wrote, Draws
  <2>2. Write(x, who, piece).tty = PutAll(x.tty, who, piece)
    BY SMT, <1>3 DEF Write, Shape
  <2>3. Shows(who, t, PutAll(x.tty, who, piece), str, skip, k + m)
    BY Zenon, <1>2, <1>3, ShowsPiece
  <2> QED BY <2>1, <2>2, <2>3
<1>4. PICK x, y, z : /\ x = SetAttributes(s, AttrFromAttribute(a))
                     /\ y = Write(x, who, piece)
                     /\ z = SetAttributes(y, EmptyAttr)
  OBVIOUS
<1>5. Shape(x) /\ Shows(who, t, x.tty, str, skip, k)
  <2>1. Sets(s, x)
    BY Zenon, <1>4, SetAttributesSets, AttrFromAttributeType DEF SetTo
  <2> QED BY Zenon, <1>0, <2>1, ShowsSets DEF Sets, Upto
<1>6. Shape(y) /\ Shows(who, t, y.tty, str, skip, k + m)
  BY Zenon, <1>3, <1>4, <1>5
<1>7. Shape(z) /\ Shows(who, t, z.tty, str, skip, k + m)
  <2>1. Sets(y, z)
    BY Zenon, <1>4, <1>6, SetAttributesSets, EmptyAttrType DEF SetTo
  <2> QED BY Zenon, <1>6, <2>1, ShowsSets DEF Sets
<1>8. WritePart(s, who, a, part) = IF part.styled THEN z ELSE Write(s, who, piece)
  BY Zenon, <1>1, <1>4 DEF WritePart
<1>9. Shows(who, t, s.tty, str, skip, k)
  BY Zenon, <1>0 DEF Upto
<1>10. /\ Shape(WritePart(s, who, a, part))
       /\ Shows(who, t, WritePart(s, who, a, part).tty, str, skip, k + m)
  BY Zenon, <1>3, <1>7, <1>8, <1>9
<1> QED BY Zenon, <1>0, <1>10 DEF Upto

LEMMA ThreeShow ==
  ASSUME NEW who \in Writer \ {"child"}, NEW t, NEW s, NEW a, NEW str,
         NEW first \in Nat, NEW start \in Nat, NEW end \in Nat, NEW n \in Nat,
         first \in {0, start}, start <= end, end <= n,
         NEW skip \in Nat, skip = start - first, Tty(t),
         NEW p1, Piece(p1.str, str, 0, first), NEW p2, Piece(p2.str, str, start, end),
         NEW p3, Piece(p3.str, str, end, n),
         Shape(s), Shows(who, t, s.tty, str, skip, 0),
         NEW x, x = WritePart(s, who, a, p1), NEW y, y = WritePart(x, who, a, p2),
         NEW z, z = WritePart(y, who, a, p3)
  PROVE  Shows(who, t, z.tty, str, skip, n - skip)
<1>1. Upto(who, t, s.tty, str, skip, skip)
  <2>1. skip - skip = 0
    BY SMT
  <2> QED BY <2>1 DEF Upto
<1>2. skip <= skip /\ skip <= start /\ skip <= end
  BY SMT
<1>3. Piece(p1.str, str, skip, start)
  <2>1. CASE first = start
    BY SMT, <2>1
  <2>2. CASE first = 0
    <3>1. skip = start /\ start - start = 0 /\ first - 0 = 0 /\ 1 .. 0 = {}
      BY SMT, <2>2
    <3> QED BY Zenon, <2>2, <3>1 DEF Piece
  <2> QED BY <2>1, <2>2
<1>4. Shape(x) /\ Upto(who, t, x.tty, str, skip, start)
  BY <1>1, <1>2, <1>3, ShowsPart
<1>5. Shape(y) /\ Upto(who, t, y.tty, str, skip, end)
  BY <1>2, <1>4, ShowsPart
<1>6. Upto(who, t, z.tty, str, skip, n)
  BY <1>2, <1>5, ShowsPart
<1> QED BY <1>6 DEF Upto

LEMMA StringShows ==
  ASSUME NEW s, NEW who \in Writer \ {"child"}, NEW str \in Seq(Char), NEW width \in Nat,
         NEW a \in Attribute, Shape(s), NEW n, n = Lesser(Len(str), width)
  PROVE  Shows(who, s.tty, StringWithAttribute(s, who, str, width, a).tty, str,
               Skipped(a, n), n - Skipped(a, n))
<1> DEFINE trunc == Trunc(str, width)
           start == Lesser(n, Lesser(a.start, a.end))
           end == Lesser(n, IF a.start < a.end THEN a.end ELSE a.start)
           part(from, to, styled) == [str |-> SubSeq(trunc, from + 1, to), styled |-> styled]
           first == IF a.type = "none" THEN 0 ELSE start
           parts == <<part(0, first, FALSE),
                      part(start, end, start < end /\ a.type # "none"),
                      part(end, n, FALSE)>>
           z0 == ApplyAttr(s, EmptyAttr)
           z1 == WriteParts(z0, who, a, parts)
<1>1. /\ Len(str) \in Nat /\ n \in Nat /\ n <= Len(str)
      /\ a.start \in Nat /\ a.end \in Nat
  <2>1. Len(str) \in Nat /\ a.start \in Nat /\ a.end \in Nat
    BY DEF Attribute
  <2> QED BY SMT, <2>1 DEF Lesser
<1>2. /\ start \in Nat /\ end \in Nat /\ start <= end /\ end <= n
      /\ first \in Nat /\ first \in {0, start}
      /\ Skipped(a, n) = start - first
  BY SMT, <1>1 DEF Lesser, Skipped
<1>3. trunc = SubSeq(str, 1, n)
  BY DEF Trunc
<1>4. CASE str = <<>>
  <2>1. n = 0 /\ Skipped(a, n) = 0
    BY SMT, <1>1, <1>2, <1>4 DEF Skipped, Lesser
  <2>2. StringWithAttribute(s, who, str, width, a) = s /\ n - Skipped(a, n) = 0
    BY <1>4, <2>1 DEF StringWithAttribute
  <2> QED BY <2>1, <2>2, ShowsNothing DEF Shape
<1>5. CASE str # <<>>
  <2>1. StringWithAttribute(s, who, str, width, a) = z1
    <3>1. Len(trunc) = n
      BY <1>1, <1>3
    <3> QED BY Zenon, <1>5, <3>1 DEF StringWithAttribute
  <2> HIDE DEF trunc
  <2>2. ASSUME NEW from \in Nat, NEW to \in Nat, from <= to, to <= n
        PROVE  Piece(SubSeq(trunc, from + 1, to), str, from, to)
    <3>1. trunc = SubSeq(str, 1, n) /\ n <= Len(str) /\ str \in Seq(Char)
      BY <1>1, <1>3
    <3> HIDE DEF trunc
    <3> QED BY <1>1, <2>2, <3>1, PieceOf
  <2>3. PICK p1, p2, p3 : /\ p1 = part(0, first, FALSE)
                          /\ p2 = part(start, end, start < end /\ a.type # "none")
                          /\ p3 = part(end, n, FALSE)
    OBVIOUS
  <2>4. /\ p1.str = SubSeq(trunc, 0 + 1, first)
        /\ p2.str = SubSeq(trunc, start + 1, end)
        /\ p3.str = SubSeq(trunc, end + 1, n)
    BY <2>3
  <2>5. parts = <<p1, p2, p3>>
    BY <2>3
  <2> HIDE DEF trunc, start, end, first, parts
  <2>6. PICK h : Drawn(h, who, a, z0, parts, 3) /\ h[3] = z1
    <3>1. 3 \in Nat /\ DOMAIN parts = 1 .. 3
      BY <2>5
    <3> QED BY Zenon, <3>1, PartRuns
  <2>7. /\ h[0] = z0 /\ h[1] = WritePart(h[0], who, a, p1)
        /\ h[2] = WritePart(h[1], who, a, p2) /\ h[3] = WritePart(h[2], who, a, p3)
    BY <2>5, <2>6 DEF Drawn
  <2>8. Shape(z0) /\ Shows(who, s.tty, z0.tty, str, Skipped(a, n), 0)
    <3>1. Sets(s, z0)
      BY ApplyAttrSets, EmptyAttrType
    <3>2. Shows(who, s.tty, s.tty, str, Skipped(a, n), 0)
      BY ShowsNothing DEF Shape
    <3> QED BY Zenon, <3>1, <3>2, ShowsSets DEF Sets
  <2>9. /\ Piece(p1.str, str, 0, first) /\ Piece(p2.str, str, start, end)
        /\ Piece(p3.str, str, end, n)
    <3>1. 0 \in Nat /\ 0 <= first /\ first <= n /\ n <= n
      BY SMT, <1>1, <1>2
    <3>2. /\ Piece(SubSeq(trunc, 0 + 1, first), str, 0, first)
          /\ Piece(SubSeq(trunc, start + 1, end), str, start, end)
          /\ Piece(SubSeq(trunc, end + 1, n), str, end, n)
      BY Zenon, <1>1, <1>2, <2>2, <3>1
    <3> QED BY Zenon, <2>4, <3>2
  <2>10. Shows(who, s.tty, h[3].tty, str, Skipped(a, n), n - Skipped(a, n))
    <3>1. PICK skip \in Nat : skip = Skipped(a, n)
      BY SMT, <1>2
    <3>5. PICK x, y, z : x = h[1] /\ y = h[2] /\ z = h[3]
      OBVIOUS
    <3>2. /\ x = WritePart(z0, who, a, p1) /\ y = WritePart(x, who, a, p2)
          /\ z = WritePart(y, who, a, p3)
      BY <2>7, <3>5
    <3>3. skip = start - first /\ Tty(s.tty)
      BY <1>2, <3>1 DEF Shape
    <3>4. Shows(who, s.tty, z.tty, str, skip, n - skip)
      BY Zenon, <1>1, <1>2, <2>8, <2>9, <3>1, <3>2, <3>3, ThreeShow
    <3> QED BY <3>1, <3>4, <3>5
  <2> QED BY <2>1, <2>6, <2>10
<1> QED BY <1>4, <1>5

-----------------------------------------------------------------------------
(* The screen between two steps.  fep's own idea of the cursor is of no    *)
(* use but for the width that it leaves to a cursor text.  The attribute   *)
(* that fep has set is none or the child's.                                *)
Where == [row : -1 .. MaxRows - 1, col : {-1, 0}]

State(s) ==
  /\ Shape(s)
  /\ s.fep.wsRow \in Nat \ {0} /\ s.tty.rows = s.fep.wsRow + 1
  /\ s.fep.sgrCodes = GetSgrCodes
  /\ s.fep.attrPty \in SgrAttr /\ s.fep.attr \in {EmptyAttr, s.fep.attrPty}
  /\ s.fep.cursor \in Where /\ s.fep.cursorSave \in Where
  /\ s.fep.cursorText \in Seq(Char) /\ s.fep.statusText \in Seq(Char)
  /\ s.fep.cursorAttr \in Attribute /\ s.fep.statusAttr \in Attribute

(* Above the last line nothing has changed but where the cursor text is.   *)
Overlaid(t, u, wsRow) ==
  ~u.spilled =>
    /\ ~t.spilled
    /\ t.bot < wsRow =>
         \A r \in 0 .. t.bot, c \in 0 .. Cols - 1 :
           u.cells[r][c] = t.cells[r][c] \/ u.cells[r][c].who = "cursor"

(* A text of fep's has been drawn, and the cursor is back.                 *)
Back(s, z) ==
  /\ State(z) /\ z.fep.wsRow = s.fep.wsRow
  /\ Overlaid(s.tty, z.tty, s.fep.wsRow)
  /\ z.tty.bot = s.tty.bot /\ z.tty.astray = s.tty.astray /\ z.tty.cur = s.tty.cur
  /\ z.tty.sgr = s.tty.sgr
  /\ z.tty.slot = s.tty.slot \/ (z.tty.slot.who = "fep" /\ z.tty.slot.cur = s.tty.cur)

(* The texts that fep remembers. *)
SameStatus(s, z) ==
  z.fep.statusText = s.fep.statusText /\ z.fep.statusAttr = s.fep.statusAttr

SameCursorText(s, z) ==
  z.fep.cursorText = s.fep.cursorText /\ z.fep.cursorAttr = s.fep.cursorAttr

(* The lines below the scroll region. *)
Below(t, u) == \A r \in t.bot + 1 .. MaxRows - 1 : u.cells[r] = t.cells[r]

(* There is a text where the cursor is, if there is room for it. *)
Overwrites(t, u, str, skip, k) ==
  t.cur.col + k <= Cols \/ ~u.spilled => Covers("cursor", t, u, str, skip, k)

(* The status line has the status text, and the lines above are as before. *)
StatusOver(s, z, text, a) ==
  LET n == Lesser(Len(text), Cols)
      skip == Skipped(a, n)
  IN /\ z.tty.spilled = s.tty.spilled
     /\ \A r \in 0 .. MaxRows - 1 : r # s.fep.wsRow => z.tty.cells[r] = s.tty.cells[r]
     /\ \A c \in 0 .. Cols - 1 :
          LET cell == z.tty.cells[s.fep.wsRow][c]
          IN IF c \in 0 .. n - skip - 1
               THEN cell.who = "status" /\ cell.ch = text[skip + 1 + c]
               ELSE cell = Blank

LEMMA WroteState ==
  ASSUME NEW who, NEW s, NEW z, State(s), Wrote(who, s, z)
  PROVE  /\ State(z) /\ z.fep.wsRow = s.fep.wsRow
         /\ SameStatus(s, z) /\ SameCursorText(s, z)
<1>1. Shape(z) /\ z.tty.rows = s.tty.rows
  BY DEF Wrote, Draws, Texted, Kept
<1>2. /\ z.fep.wsRow = s.fep.wsRow /\ z.fep.sgrCodes = s.fep.sgrCodes
      /\ z.fep.attrPty = s.fep.attrPty
      /\ z.fep.cursor = s.fep.cursor /\ z.fep.cursorSave = s.fep.cursorSave
      /\ z.fep.cursorText = s.fep.cursorText /\ z.fep.cursorAttr = s.fep.cursorAttr
      /\ z.fep.statusText = s.fep.statusText /\ z.fep.statusAttr = s.fep.statusAttr
  BY DEF Wrote, Draws, FepFields
<1>3. z.fep.attr \in {EmptyAttr, s.fep.attrPty}
  BY DEF Wrote, State
<1> QED BY Zenon, <1>1, <1>2, <1>3 DEF State, SameStatus, SameCursorText

(* _fep_output_save_cursor and _fep_output_restore_cursor *)
LEMMA SaveState ==
  ASSUME NEW s, State(s)
  PROVE  /\ State(Save(s))
         /\ Save(s).fep.wsRow = s.fep.wsRow /\ Save(s).fep.cursor = s.fep.cursor
         /\ SameStatus(s, Save(s)) /\ SameCursorText(s, Save(s))
         /\ Save(s).tty = SaveCursor(s.tty, "fep")
<1>1. PICK u : u = SaveCursor(s.tty, "fep")
  OBVIOUS
<1>2. Tty(u) /\ u.rows = s.tty.rows
  BY Zenon, <1>1, SlotTty DEF State, Shape
<1>3. PICK z : z = Save(s)
  OBVIOUS
<1>4. z = [s EXCEPT !.tty = u, !.fep.cursorSave = s.fep.cursor]
  BY Zenon, <1>1, <1>3 DEF Save
<1>5. DOMAIN z = {"tty", "fep"} /\ z.tty = u /\ DOMAIN z.fep = FepFields
  BY SMT, <1>4 DEF State, Shape, FepFields
<1>6. /\ z.fep.cursorSave = s.fep.cursor
      /\ \A f \in FepFields \ {"cursorSave"} : z.fep[f] = s.fep[f]
  BY SMT, <1>4 DEF State, Shape, FepFields
<1>7. State(z) /\ z.fep.wsRow = s.fep.wsRow /\ z.fep.cursor = s.fep.cursor
  <2>1. z.fep = [s.fep EXCEPT !.cursorSave = s.fep.cursor]
    BY SMT, <1>4 DEF State, Shape
  <2>2. IsRecord(z.fep)
    BY Zenon, <2>1 DEF IsRecord
  <2> QED BY <1>2, <1>5, <1>6, <2>2 DEF State, Shape, FepFields
<1>8. SameStatus(s, z) /\ SameCursorText(s, z)
  BY <1>6 DEF SameStatus, SameCursorText, FepFields
<1> QED BY Zenon, <1>1, <1>3, <1>5, <1>7, <1>8

LEMMA RestoreState ==
  ASSUME NEW s, State(s)
  PROVE  /\ State(Restore(s))
         /\ Restore(s).fep.wsRow = s.fep.wsRow
         /\ SameStatus(s, Restore(s)) /\ SameCursorText(s, Restore(s))
         /\ Restore(s).tty = RestoreCursor(s.tty, "fep")
<1>1. PICK u : u = RestoreCursor(s.tty, "fep")
  OBVIOUS
<1>2. Tty(u) /\ u.rows = s.tty.rows
  BY Zenon, <1>1, SlotTty DEF State, Shape
<1>3. PICK z : z = Restore(s)
  OBVIOUS
<1>4. z = [s EXCEPT !.tty = u, !.fep.cursor = s.fep.cursorSave]
  BY Zenon, <1>1, <1>3 DEF Restore
<1>5. DOMAIN z = {"tty", "fep"} /\ z.tty = u /\ DOMAIN z.fep = FepFields
  BY SMT, <1>4 DEF State, Shape, FepFields
<1>6. /\ z.fep.cursor = s.fep.cursorSave
      /\ \A f \in FepFields \ {"cursor"} : z.fep[f] = s.fep[f]
  BY SMT, <1>4 DEF State, Shape, FepFields
<1>7. State(z) /\ z.fep.wsRow = s.fep.wsRow
  <2>1. z.fep = [s.fep EXCEPT !.cursor = s.fep.cursorSave]
    BY SMT, <1>4 DEF State, Shape
  <2>2. IsRecord(z.fep)
    BY Zenon, <2>1 DEF IsRecord
  <2> QED BY <1>2, <1>5, <1>6, <2>2 DEF State, Shape, FepFields
<1>8. SameStatus(s, z) /\ SameCursorText(s, z)
  BY <1>6 DEF SameStatus, SameCursorText, FepFields
<1> QED BY Zenon, <1>1, <1>3, <1>5, <1>7, <1>8

(* _fep_output_status_text brings the cursor back, and what the child had  *)
(* saved is gone.                                                          *)
LEMMA StatusTextBack ==
  ASSUME NEW s, NEW text \in Seq(Char), NEW a \in Attribute, State(s)
  PROVE  /\ Back(s, StatusText(s, text, a))
         /\ StatusText(s, text, a).tty.slot.who = "fep"
         /\ StatusText(s, text, a).tty.slot.cur = s.tty.cur
         /\ StatusText(s, text, a).fep.statusText = text
         /\ StatusText(s, text, a).fep.statusAttr = a
         /\ SameCursorText(s, StatusText(s, text, a))
         /\ StatusOver(s, StatusText(s, text, a), text, a)
<1>1. PICK u : u = SaveCursor(s.tty, "fep")
  OBVIOUS
<1>2. /\ Tty(u) /\ u.rows = s.tty.rows /\ u.bot = s.tty.bot /\ u.astray = s.tty.astray
      /\ u.slot.cur = s.tty.cur /\ u.slot.who = "fep" /\ u.slot.sgr = s.tty.sgr
      /\ SameCells(s.tty, u)
  <2>1. "fep" \in {"child", "fep"} /\ Tty(s.tty)
    BY DEF State, Shape
  <2>2. u.slot = [cur |-> s.tty.cur, sgr |-> s.tty.sgr, who |-> "fep"]
    BY Zenon, <1>1, <2>1, SlotTty
  <2>3. /\ Tty(u) /\ u.rows = s.tty.rows /\ u.bot = s.tty.bot
        /\ u.astray = s.tty.astray /\ SameCells(s.tty, u)
    BY Zenon, <1>1, <2>1, SlotTty
  <2> QED BY <2>2, <2>3
<1>3. PICK v : v = Goto(u, s.fep.wsRow, 0)
  OBVIOUS
<1>4. /\ Tty(v) /\ Still(u, v) /\ SameCells(u, v)
      /\ v.cur = [row |-> s.fep.wsRow, col |-> 0]
  <2>1. s.fep.wsRow \in 0 .. u.rows - 1 /\ 0 \in 0 .. Cols
    BY SMT, <1>2, SizeAssumption DEF State
  <2> QED BY <1>2, <1>3, <2>1, GotoTty
<1>5. PICK w : w = EraseLine(v)
  OBVIOUS
<1>6. /\ Tty(w) /\ Still(v, w) /\ w.cur = v.cur /\ w.spilled = v.spilled
      /\ \A r \in 0 .. MaxRows - 1 : r # v.cur.row => w.cells[r] = v.cells[r]
      /\ \A c \in 0 .. Cols - 1 :
           w.cells[v.cur.row][c]
             = IF c < Lesser(v.cur.col, Cols - 1) THEN v.cells[v.cur.row][c] ELSE Blank
  BY Zenon, <1>4, <1>5, EraseLineTty
<1>7. PICK z0 : z0 = [s EXCEPT !.fep.statusText = text, !.fep.statusAttr = a, !.tty = u]
  OBVIOUS
<1>8. PICK z1 : z1 = GotoStatusText(z0, 0)
  OBVIOUS
<1>9. PICK z2 : z2 = [z1 EXCEPT !.tty = EraseLine(@)]
  OBVIOUS
<1>10. PICK z3, z4 : /\ z3 = StringWithAttribute(z2, "status", text, Cols, a)
                     /\ z4 = [z3 EXCEPT !.tty = RestoreCursor(@, "fep")]
                     /\ z4 = StatusText(s, text, a)
  BY Zenon, <1>1, <1>7, <1>8, <1>9 DEF StatusText
<1>11. /\ DOMAIN z0 = {"tty", "fep"} /\ z0.tty = u
       /\ DOMAIN z0.fep = FepFields /\ z0.fep.wsRow = s.fep.wsRow
       /\ z0.fep.cursorSave = s.fep.cursorSave /\ z0.fep.cursorText = s.fep.cursorText
       /\ z0.fep.cursorAttr = s.fep.cursorAttr /\ z0.fep.sgrCodes = s.fep.sgrCodes
       /\ z0.fep.attr = s.fep.attr /\ z0.fep.attrPty = s.fep.attrPty
       /\ z0.fep.statusText = text /\ z0.fep.statusAttr = a
  <2>1. DOMAIN s = {"tty", "fep"} /\ DOMAIN s.fep = FepFields
    BY DEF State, Shape
  <2>2. /\ DOMAIN z0 = {"tty", "fep"} /\ z0.tty = u
        /\ z0.fep = [s.fep EXCEPT !.statusText = text, !.statusAttr = a]
    BY SMT, <1>7, <2>1
  <2> QED BY SMT, <2>1, <2>2 DEF FepFields
<1>12. z1 = [z0 EXCEPT !.tty = v, !.fep.cursor = [row |-> s.fep.wsRow, col |-> 0]]
  BY Zenon, <1>3, <1>8, <1>11 DEF GotoStatusText
<1>13. /\ DOMAIN z1 = {"tty", "fep"} /\ z1.tty = v
       /\ DOMAIN z1.fep = FepFields /\ z1.fep.wsRow = s.fep.wsRow
       /\ z1.fep.cursorSave = s.fep.cursorSave /\ z1.fep.cursorText = s.fep.cursorText
       /\ z1.fep.cursorAttr = s.fep.cursorAttr /\ z1.fep.sgrCodes = s.fep.sgrCodes
       /\ z1.fep.attr = s.fep.attr /\ z1.fep.attrPty = s.fep.attrPty
       /\ z1.fep.cursor = [row |-> s.fep.wsRow, col |-> 0]
       /\ z1.fep.statusText = text /\ z1.fep.statusAttr = a
  BY SMT, <1>11, <1>12 DEF FepFields
<1>14. z2 = [z1 EXCEPT !.tty = w]
  BY Zenon, <1>5, <1>9, <1>13
<1>15. /\ State(z2) /\ z2.tty = w /\ z2.fep.wsRow = s.fep.wsRow
       /\ z2.fep.statusText = text /\ z2.fep.statusAttr = a /\ SameCursorText(s, z2)
  <2>1. DOMAIN z2 = {"tty", "fep"} /\ z2.tty = w /\ z2.fep = z1.fep
    BY SMT, <1>13, <1>14
  <2>2. w.rows = s.tty.rows
    BY <1>2, <1>4, <1>6 DEF Still
  <2>3. [row |-> s.fep.wsRow, col |-> 0] \in Where
    BY SMT, SizeAssumption DEF State, Shape, Tty, Where
  <2>4. s.fep.cursorSave \in Where
    BY DEF State
  <2>5. z1.fep = [z0.fep EXCEPT !.cursor = [row |-> s.fep.wsRow, col |-> 0]]
    BY SMT, <1>11, <1>12
  <2>6. IsRecord(z2.fep)
    BY Zenon, <2>1, <2>5 DEF IsRecord
  <2> QED BY Zenon, <1>6, <1>13, <2>1, <2>2, <2>3, <2>4, <2>6 DEF State, Shape, SameCursorText
<1>16. Wrote("status", z2, z3)
  <2>1. Cols \in Nat /\ "status" \in Writer \ {"child"}
    BY SizeAssumption DEF Writer
  <2> QED BY <1>10, <1>15, <2>1, StringDraws DEF State
<1>17. /\ State(z3) /\ z3.fep.wsRow = s.fep.wsRow
       /\ z3.fep.statusText = text /\ z3.fep.statusAttr = a /\ SameCursorText(s, z3)
  <2>1. State(z3) /\ z3.fep.wsRow = z2.fep.wsRow /\ SameStatus(z2, z3) /\ SameCursorText(z2, z3)
    BY <1>15, <1>16, WroteState
  <2> QED BY Zenon, <1>15, <2>1 DEF SameStatus, SameCursorText
<1>18. /\ z3.tty.rows = s.tty.rows /\ z3.tty.bot = s.tty.bot
       /\ z3.tty.astray = s.tty.astray
       /\ z3.tty.slot.cur = s.tty.cur /\ z3.tty.slot.who = "fep"
       /\ z3.tty.slot.sgr = s.tty.sgr
  <2>1. Kept(w, z3.tty)
    BY <1>15, <1>16 DEF Wrote, Draws, Texted
  <2> QED BY <1>2, <1>4, <1>6, <2>1 DEF Kept, Still
<1>19. PICK x : x = RestoreCursor(z3.tty, "fep")
  OBVIOUS
<1>20. /\ Tty(x) /\ x.rows = z3.tty.rows /\ x.bot = z3.tty.bot
       /\ x.cur = z3.tty.slot.cur /\ x.slot = z3.tty.slot /\ x.astray = z3.tty.astray
       /\ SameCells(z3.tty, x) /\ x.sgr = z3.tty.slot.sgr
  <2>1. Tty(z3.tty) /\ z3.tty.astray \in BOOLEAN
    BY <1>17 DEF State, Shape, Tty
  <2>2. /\ Tty(x) /\ x.rows = z3.tty.rows /\ x.bot = z3.tty.bot
        /\ x.cur = z3.tty.slot.cur /\ x.slot = z3.tty.slot /\ SameCells(z3.tty, x)
        /\ x.sgr = z3.tty.slot.sgr
        /\ x.astray = (z3.tty.astray \/ ("fep" = "child" /\ z3.tty.slot.who # "child"))
    BY <1>19, <2>1, SlotTty
  <2> QED BY <2>1, <2>2
<1>21. z4.tty = x /\ z4.fep = z3.fep /\ DOMAIN z4 = {"tty", "fep"}
  <2>1. z4 = [z3 EXCEPT !.tty = x]
    BY Zenon, <1>10, <1>19
  <2> QED BY SMT, <1>17, <2>1 DEF State, Shape
<1>22. State(z4)
  BY <1>17, <1>20, <1>21 DEF State, Shape
<1>23. Overlaid(s.tty, x, s.fep.wsRow)
  <2>1. InLine("status", w, z3.tty)
    BY <1>15, <1>16 DEF Wrote, Draws, Texted
  <2>2. x.cells = z3.tty.cells /\ x.spilled = z3.tty.spilled
    BY <1>20 DEF SameCells
  <2>3. v.cells = s.tty.cells /\ v.spilled = s.tty.spilled
    BY <1>2, <1>4 DEF SameCells
  <2>4. v.cur.row = s.fep.wsRow /\ w.cur.row = s.fep.wsRow
    BY <1>4, <1>6
  <2>5. ASSUME ~x.spilled, s.tty.bot < s.fep.wsRow,
               NEW r \in 0 .. s.tty.bot, NEW c \in 0 .. Cols - 1
        PROVE  x.cells[r][c] = s.tty.cells[r][c]
    <3>1. r \in 0 .. MaxRows - 1 /\ r # s.fep.wsRow
      BY SMT, <2>5, SizeAssumption DEF State, Shape, Tty
    <3>2. z3.tty.cells[r][c] = w.cells[r][c]
      BY Zenon, <2>1, <2>2, <2>4, <2>5, <3>1 DEF InLine
    <3>3. w.cells[r] = v.cells[r]
      BY Zenon, <1>6, <2>4, <3>1
    <3> QED BY <2>2, <2>3, <3>2, <3>3
  <2>6. ~x.spilled => ~s.tty.spilled
    BY Zenon, <1>6, <2>1, <2>2, <2>3 DEF InLine
  <2> QED BY Zenon, <2>5, <2>6 DEF Overlaid
<1>24. PICK n, skip : n = Lesser(Len(text), Cols) /\ skip = Skipped(a, n)
  OBVIOUS
<1>25. n \in Nat /\ skip \in Nat /\ n - skip \in Nat /\ n - skip <= Cols
  <2>1. Len(text) \in Nat /\ a.start \in Nat /\ a.end \in Nat
    BY DEF Attribute
  <2> QED BY SMT, <1>24, <2>1, SizeAssumption DEF Skipped, Lesser
<1>26. Exactly("status", w, z3.tty, text, skip, n - skip)
  <2>1. Cols \in Nat /\ "status" \in Writer \ {"child"} /\ Shape(z2)
    BY <1>15, SizeAssumption DEF Writer, State
  <2>2. Shows("status", w, z3.tty, text, skip, n - skip)
    BY Zenon, <1>10, <1>15, <1>24, <2>1, StringShows
  <2>3. w.cur.col + (n - skip) <= Cols
    <3>1. w.cur.col = 0
      BY <1>4, <1>6
    <3> QED BY SMT, <1>25, <3>1
  <2> QED BY Zenon, <2>2, <2>3 DEF Shows
<1>27. StatusOver(s, z4, text, a)
  <2>1. x.cells = z3.tty.cells /\ x.spilled = z3.tty.spilled
    BY <1>20 DEF SameCells
  <2>2. v.cells = s.tty.cells /\ v.spilled = s.tty.spilled
    BY <1>2, <1>4 DEF SameCells
  <2>3. /\ v.cur.row = s.fep.wsRow /\ w.cur.row = s.fep.wsRow
        /\ v.cur.col = 0 /\ w.cur.col = 0
    BY <1>4, <1>6
  <2>4. z4.tty.spilled = s.tty.spilled
    BY Zenon, <1>6, <1>21, <1>26, <2>1, <2>2 DEF Exactly, Covers
  <2>5. \A r \in 0 .. MaxRows - 1 : r # s.fep.wsRow => z4.tty.cells[r] = s.tty.cells[r]
    <3>1. \A r \in 0 .. MaxRows - 1 : r # s.fep.wsRow => w.cells[r] = v.cells[r]
      BY <1>6, <2>3
    <3>2. \A r \in 0 .. MaxRows - 1 : r # w.cur.row => z3.tty.cells[r] = w.cells[r]
      BY Zenon, <1>26 DEF Exactly, Covers
    <3> QED BY <1>21, <2>1, <2>2, <2>3, <3>1, <3>2
  <2>6. ASSUME NEW c \in 0 .. Cols - 1
        PROVE  IF c \in 0 .. n - skip - 1
                 THEN /\ z4.tty.cells[s.fep.wsRow][c].who = "status"
                      /\ z4.tty.cells[s.fep.wsRow][c].ch = text[skip + 1 + c]
                 ELSE z4.tty.cells[s.fep.wsRow][c] = Blank
    <3>1. w.cells[s.fep.wsRow][c] = Blank
      <4>1. ~(c < Lesser(0, Cols - 1))
        BY SMT, SizeAssumption DEF Lesser
      <4> QED BY Zenon, <1>6, <2>3, <4>1
    <3>2. IF c \in 0 .. 0 + (n - skip) - 1
            THEN /\ z4.tty.cells[s.fep.wsRow][c].who = "status"
                 /\ z4.tty.cells[s.fep.wsRow][c].ch = text[skip + 1 + (c - 0)]
            ELSE z4.tty.cells[s.fep.wsRow][c] = w.cells[s.fep.wsRow][c]
      BY Zenon, <1>21, <1>26, <2>1, <2>3 DEF Exactly, Covers
    <3>3. 0 + (n - skip) - 1 = n - skip - 1 /\ c - 0 = c
      BY SMT, <1>25
    <3> QED BY Zenon, <3>1, <3>2, <3>3
  <2> QED BY Zenon, <1>24, <2>4, <2>5, <2>6 DEF StatusOver
<1>28. z4.fep.statusText = text /\ z4.fep.statusAttr = a /\ SameCursorText(s, z4)
  BY Zenon, <1>17, <1>21 DEF SameCursorText
<1>29. Back(s, z4)
  BY Zenon, <1>17, <1>18, <1>20, <1>21, <1>22, <1>23 DEF Back
<1> QED BY Zenon, <1>10, <1>18, <1>20, <1>21, <1>27, <1>28, <1>29

(* What is saved before a text of fep's and restored behind it.            *)
LEMMA DrawnBack ==
  ASSUME NEW s, NEW z, State(s), State(z), z.fep.wsRow = s.fep.wsRow,
         Texted("cursor", SaveCursor(s.tty, "fep"), z.tty),
         NEW str, NEW skip, NEW k, Shows("cursor", SaveCursor(s.tty, "fep"), z.tty, str, skip, k)
  PROVE  /\ Back(s, Restore(z))
         /\ s.tty.cur.row <= s.tty.bot => Below(s.tty, Restore(z).tty)
         /\ Overwrites(s.tty, Restore(z).tty, str, skip, k)
<1>1. PICK u : u = SaveCursor(s.tty, "fep")
  OBVIOUS
<1>2. /\ u.bot = s.tty.bot /\ u.astray = s.tty.astray /\ SameCells(s.tty, u)
      /\ u.cur = s.tty.cur
      /\ u.slot.cur = s.tty.cur /\ u.slot.who = "fep" /\ u.slot.sgr = s.tty.sgr
  <2>1. "fep" \in {"child", "fep"} /\ Tty(s.tty)
    BY DEF State, Shape
  <2>2. u.slot = [cur |-> s.tty.cur, sgr |-> s.tty.sgr, who |-> "fep"]
    BY Zenon, <1>1, <2>1, SlotTty
  <2>3. /\ u.bot = s.tty.bot /\ u.astray = s.tty.astray /\ SameCells(s.tty, u)
        /\ u.cur = s.tty.cur
    BY Zenon, <1>1, <2>1, SlotTty
  <2> QED BY <2>2, <2>3
<1>3. Tty(z.tty) /\ z.tty.astray \in BOOLEAN
  BY DEF State, Shape, Tty
<1>4. PICK x : x = RestoreCursor(z.tty, "fep")
  OBVIOUS
<1>5. /\ x.bot = z.tty.bot /\ x.cur = z.tty.slot.cur /\ x.slot = z.tty.slot
      /\ SameCells(z.tty, x) /\ x.sgr = z.tty.slot.sgr
      /\ x.astray = (z.tty.astray \/ ("fep" = "child" /\ z.tty.slot.who # "child"))
  BY <1>3, <1>4, SlotTty
<1>6. x.astray = z.tty.astray
  BY <1>3, <1>5
<1>7. State(Restore(z)) /\ Restore(z).fep.wsRow = s.fep.wsRow /\ Restore(z).tty = x
  BY <1>4, RestoreState
<1>8. Kept(u, z.tty) /\ InLine("cursor", u, z.tty)
  BY <1>1 DEF Texted
<1>9. Overlaid(s.tty, x, s.fep.wsRow)
  <2>1. \A r \in 0 .. s.tty.bot : r \in 0 .. MaxRows - 1
    BY SMT, SizeAssumption DEF State, Shape, Tty
  <2>2. u.cells = s.tty.cells /\ u.spilled = s.tty.spilled
    BY <1>2 DEF SameCells
  <2>3. x.cells = z.tty.cells /\ x.spilled = z.tty.spilled
    BY <1>5 DEF SameCells
  <2>4. ASSUME ~x.spilled, NEW r \in 0 .. s.tty.bot, NEW c \in 0 .. Cols - 1
        PROVE  x.cells[r][c] = s.tty.cells[r][c] \/ x.cells[r][c].who = "cursor"
    BY Zenon, <1>8, <2>1, <2>2, <2>3, <2>4 DEF InLine
  <2>5. ~x.spilled => ~s.tty.spilled
    BY Zenon, <1>8, <2>2, <2>3 DEF InLine
  <2> QED BY Zenon, <2>4, <2>5 DEF Overlaid
<1>10. Back(s, Restore(z))
  BY Zenon, <1>2, <1>5, <1>6, <1>7, <1>8, <1>9 DEF Back, Kept
<1>11. s.tty.cur.row <= s.tty.bot => Below(s.tty, x)
  <2>1. InRegion(u, z.tty)
    BY <1>1 DEF Texted
  <2>2. u.cells = s.tty.cells /\ x.cells = z.tty.cells
    BY <1>2, <1>5 DEF SameCells
  <2> QED BY Zenon, <1>2, <2>1, <2>2 DEF InRegion, Below
<1>12. Overwrites(s.tty, x, str, skip, k)
  <2>1. u.cells = s.tty.cells /\ u.spilled = s.tty.spilled
    BY <1>2 DEF SameCells
  <2>2. x.cells = z.tty.cells /\ x.spilled = z.tty.spilled
    BY <1>5 DEF SameCells
  <2>3. u.cur.col + k <= Cols \/ ~z.tty.spilled => Covers("cursor", u, z.tty, str, skip, k)
    BY Zenon, <1>1 DEF Shows, Exactly
  <2> QED BY Zenon, <1>2, <2>1, <2>2, <2>3 DEF Overwrites, Covers
<1> QED BY <1>7, <1>10, <1>11, <1>12

LEMMA BackOn ==
  ASSUME NEW s, NEW z, NEW y, Back(s, z), Back(z, y)
  PROVE  Back(s, y)
<1>1. Overlaid(s.tty, y.tty, s.fep.wsRow)
  <2>1. z.tty.bot = s.tty.bot /\ z.fep.wsRow = s.fep.wsRow
    BY DEF Back
  <2>2. Overlaid(s.tty, z.tty, s.fep.wsRow) /\ Overlaid(z.tty, y.tty, s.fep.wsRow)
    BY <2>1 DEF Back
  <2> QED BY Zenon, <2>1, <2>2 DEF Overlaid
<1> QED BY Zenon, <1>1 DEF Back

(* Nothing has changed but what is remembered of the cursor text. *)
Remembers(s, z, text, a) ==
  /\ State(z) /\ z.tty = s.tty /\ SameStatus(s, z)
  /\ z.fep.wsRow = s.fep.wsRow /\ z.fep.cursor = s.fep.cursor
  /\ z.fep.cursorText = text /\ z.fep.cursorAttr = a

LEMMA TextState ==
  ASSUME NEW s, State(s), NEW text \in Seq(Char), NEW z, z = [s EXCEPT !.fep.cursorText = text]
  PROVE  Remembers(s, z, text, s.fep.cursorAttr)
<1>1. DOMAIN s = {"tty", "fep"} /\ DOMAIN s.fep = FepFields
  BY DEF State, Shape
<1>2. /\ DOMAIN z = {"tty", "fep"} /\ z.tty = s.tty
      /\ z.fep = [s.fep EXCEPT !.cursorText = text]
  BY SMT, <1>1
<1>3. /\ DOMAIN z.fep = FepFields
      /\ z.fep.wsRow = s.fep.wsRow /\ z.fep.cursor = s.fep.cursor
      /\ z.fep.cursorSave = s.fep.cursorSave /\ z.fep.sgrCodes = s.fep.sgrCodes
      /\ z.fep.attr = s.fep.attr /\ z.fep.attrPty = s.fep.attrPty
      /\ z.fep.statusText = s.fep.statusText /\ z.fep.statusAttr = s.fep.statusAttr
      /\ z.fep.cursorText = text /\ z.fep.cursorAttr = s.fep.cursorAttr
  BY SMT, <1>1, <1>2 DEF FepFields
<1>4. IsRecord(z.fep)
  BY Zenon, <1>2 DEF IsRecord
<1> QED BY Zenon, <1>2, <1>3, <1>4 DEF State, Shape, SameStatus, Remembers

LEMMA AttrState ==
  ASSUME NEW s, State(s), NEW a \in Attribute, NEW z, z = [s EXCEPT !.fep.cursorAttr = a]
  PROVE  Remembers(s, z, s.fep.cursorText, a)
<1>1. DOMAIN s = {"tty", "fep"} /\ DOMAIN s.fep = FepFields
  BY DEF State, Shape
<1>2. /\ DOMAIN z = {"tty", "fep"} /\ z.tty = s.tty
      /\ z.fep = [s.fep EXCEPT !.cursorAttr = a]
  BY SMT, <1>1
<1>3. /\ DOMAIN z.fep = FepFields
      /\ z.fep.wsRow = s.fep.wsRow /\ z.fep.cursor = s.fep.cursor
      /\ z.fep.cursorSave = s.fep.cursorSave /\ z.fep.sgrCodes = s.fep.sgrCodes
      /\ z.fep.attr = s.fep.attr /\ z.fep.attrPty = s.fep.attrPty
      /\ z.fep.statusText = s.fep.statusText /\ z.fep.statusAttr = s.fep.statusAttr
      /\ z.fep.cursorText = s.fep.cursorText /\ z.fep.cursorAttr = a
  BY SMT, <1>1, <1>2 DEF FepFields
<1>4. IsRecord(z.fep)
  BY Zenon, <1>2 DEF IsRecord
<1> QED BY Zenon, <1>2, <1>3, <1>4 DEF State, Shape, SameStatus, Remembers

(* _fep_output_cursor_text brings the cursor back, too.                    *)
SpacesOver(s, z) ==
  \E str : \E k \in Nat :
    /\ \A i \in 1 .. k : str[i] = " "
    /\ Len(s.fep.cursorText) <= k \/ Cols <= k
    /\ Overwrites(s.tty, z.tty, str, 0, k)

TextOver(s, z, text, a) ==
  \E n \in Nat :
    /\ n <= Len(text) /\ (Len(text) <= Cols => n = Len(text))
    /\ Overwrites(s.tty, z.tty, text, Skipped(a, n), n - Skipped(a, n))

LEMMA NothingOver ==
  ASSUME NEW s, State(s), NEW str, NEW skip
  PROVE  Overwrites(s.tty, s.tty, str, skip, 0)
<1>1. Tty(s.tty)
  BY DEF State, Shape
<1> QED BY Zenon, <1>1, ShowsNothing DEF Shows, Exactly, Overwrites

LEMMA EraseCursorTextBack ==
  ASSUME NEW s, State(s)
  PROVE  /\ Back(s, EraseCursorText(s)) /\ SameStatus(s, EraseCursorText(s))
         /\ s.tty.cur.row <= s.tty.bot => Below(s.tty, EraseCursorText(s).tty)
         /\ EraseCursorText(s).fep.cursorText = <<>>
         /\ SpacesOver(s, EraseCursorText(s))
<1>1. CASE s.fep.cursorText = <<>>
  <2>1. EraseCursorText(s) = s
    BY Zenon, <1>1 DEF EraseCursorText
  <2>2. Back(s, s) /\ SameStatus(s, s) /\ Below(s.tty, s.tty)
    BY Zenon DEF Back, Overlaid, SameStatus, Below
  <2>3. SpacesOver(s, s)
    <3>1. 0 \in Nat /\ Len(s.fep.cursorText) <= 0 /\ \A i \in 1 .. 0 : <<>>[i] = " "
      BY SMT, <1>1
    <3> QED BY Zenon, <3>1, NothingOver DEF SpacesOver
  <2> QED BY <1>1, <2>1, <2>2, <2>3
<1>2. CASE s.fep.cursorText # <<>>
  <2>1. PICK width : width = Lesser(Len(s.fep.cursorText), Cols - s.fep.cursor.col)
    OBVIOUS
  <2>2. PICK z0, str : z0 = Save(s) /\ str = [i \in 1 .. width |-> " "]
    OBVIOUS
  <2>3. PICK z1 : z1 = Write(z0, "cursor", str)
    OBVIOUS
  <2>4. PICK z2 : z2 = [z1 EXCEPT !.fep.cursorText = <<>>]
    OBVIOUS
  <2>5. EraseCursorText(s) = Restore(z2)
    BY Zenon, <1>2, <2>1, <2>2, <2>3, <2>4 DEF EraseCursorText
  <2>6. /\ State(z0) /\ z0.fep.wsRow = s.fep.wsRow
        /\ z0.tty = SaveCursor(s.tty, "fep") /\ SameStatus(s, z0)
    BY <2>2, SaveState
  <2>7. /\ width \in Nat /\ str \in [1 .. width -> Char]
        /\ Len(s.fep.cursorText) <= width \/ Cols <= width
    <3>1. Len(s.fep.cursorText) \in Nat /\ s.fep.cursor.col \in {-1, 0}
      BY DEF State, Where
    <3>2. width \in Nat /\ (Len(s.fep.cursorText) <= width \/ Cols <= width)
      BY SMT, <2>1, <3>1, SizeAssumption DEF Lesser
    <3> QED BY Zenon, <2>2, <3>2, CharAssumption
  <2>8. Wrote("cursor", z0, z1)
    <3>1. "cursor" \in Writer \ {"child"}
      BY DEF Writer
    <3> QED BY <2>3, <2>6, <2>7, <3>1, WriteDraws DEF State
  <2>9. State(z1) /\ z1.fep.wsRow = z0.fep.wsRow /\ SameStatus(z0, z1)
    BY <2>6, <2>8, WroteState
  <2>10. /\ State(z2) /\ z2.tty = z1.tty /\ z2.fep.wsRow = z1.fep.wsRow
         /\ SameStatus(z1, z2) /\ z2.fep.cursorText = <<>>
    <3>1. <<>> \in Seq(Char)
      OBVIOUS
    <3>2. Remembers(z1, z2, <<>>, z1.fep.cursorAttr)
      BY Zenon, <2>4, <2>9, <3>1, TextState
    <3> QED BY <3>2 DEF Remembers
  <2>11. Texted("cursor", SaveCursor(s.tty, "fep"), z2.tty)
    BY <2>6, <2>8, <2>10 DEF Wrote, Draws
  <2>12. z2.fep.wsRow = s.fep.wsRow
    BY <2>6, <2>9, <2>10
  <2>13. Shows("cursor", SaveCursor(s.tty, "fep"), z2.tty, str, 0, width)
    <3>1. Tty(z0.tty) /\ "cursor" \in Writer \ {"child"} /\ 0 \in Nat
      BY <2>6 DEF State, Shape, Writer
    <3>2. z1.tty = PutAll(z0.tty, "cursor", str)
      BY SMT, <2>3, <2>6 DEF Write, State, Shape
    <3>3. \A j \in 1 .. width : str[j] = str[0 + 0 + j]
      BY SMT, <2>7
    <3>4. Shows("cursor", z0.tty, z0.tty, str, 0, 0)
      BY <3>1, ShowsNothing
    <3>5. Shows("cursor", z0.tty, PutAll(z0.tty, "cursor", str), str, 0, 0 + width)
      BY Zenon, <2>7, <3>1, <3>3, <3>4, ShowsPiece
    <3>6. 0 + width = width
      BY SMT, <2>7
    <3> QED BY <2>6, <2>10, <3>2, <3>5, <3>6
  <2>14. PICK y : y = Restore(z2)
    OBVIOUS
  <2>15. /\ Back(s, y) /\ (s.tty.cur.row <= s.tty.bot => Below(s.tty, y.tty))
         /\ Overwrites(s.tty, y.tty, str, 0, width)
    BY Zenon, <2>10, <2>11, <2>12, <2>13, <2>14, DrawnBack
  <2>16. SameStatus(s, y) /\ y.fep.cursorText = <<>>
    <3>1. SameStatus(z2, y) /\ SameCursorText(z2, y)
      BY <2>10, <2>14, RestoreState
    <3> QED BY Zenon, <2>6, <2>9, <2>10, <3>1 DEF SameStatus, SameCursorText
  <2>17. SpacesOver(s, y)
    <3>1. \A i \in 1 .. width : str[i] = " "
      BY <2>2
    <3> QED BY Zenon, <2>7, <2>15, <3>1 DEF SpacesOver
  <2> QED BY <2>5, <2>14, <2>15, <2>16, <2>17
<1> QED BY <1>1, <1>2

LEMMA CursorTextBack ==
  ASSUME NEW s, NEW text \in Seq(Char), NEW a \in Attribute, State(s)
  PROVE  /\ Back(s, CursorText(s, text, a)) /\ SameStatus(s, CursorText(s, text, a))
         /\ s.tty.cur.row <= s.tty.bot => Below(s.tty, CursorText(s, text, a).tty)
         /\ CursorText(s, text, a).fep.cursorText = text
         /\ text # <<>> => CursorText(s, text, a).fep.cursorAttr = a
         /\ TextOver(EraseCursorText(s), CursorText(s, text, a), text, a)
<1>1. PICK z0 : z0 = EraseCursorText(s)
  OBVIOUS
<1>2. /\ Back(s, z0) /\ SameStatus(s, z0) /\ z0.fep.cursorText = <<>>
      /\ s.tty.cur.row <= s.tty.bot => Below(s.tty, z0.tty)
  BY <1>1, EraseCursorTextBack
<1>3. CASE text = <<>>
  <2>1. CursorText(s, text, a) = z0
    BY Zenon, <1>1, <1>3 DEF CursorText
  <2>2. TextOver(z0, z0, text, a)
    <3>1. /\ 0 \in Nat /\ Len(text) = 0 /\ 0 <= Len(text)
          /\ Skipped(a, 0) = 0 /\ 0 - Skipped(a, 0) = 0
      <4>1. Len(text) = 0 /\ a.start \in Nat /\ a.end \in Nat
        BY <1>3 DEF Attribute
      <4> QED BY SMT, <4>1 DEF Skipped, Lesser
    <3>2. Overwrites(z0.tty, z0.tty, text, Skipped(a, 0), 0 - Skipped(a, 0))
      BY <1>2, <3>1, NothingOver DEF Back
    <3> QED BY Zenon, <3>1, <3>2 DEF TextOver
  <2> QED BY <1>1, <1>2, <1>3, <2>1, <2>2
<1>4. CASE text # <<>>
  <2>1. PICK y0 : y0 = [z0 EXCEPT !.fep.cursorText = text]
    OBVIOUS
  <2>2. PICK z1 : z1 = Save(y0)
    OBVIOUS
  <2>3. PICK y1 : y1 = [z1 EXCEPT !.fep.cursorAttr = a]
    OBVIOUS
  <2>4. PICK width : width = Cols - z1.fep.cursor.col
    OBVIOUS
  <2>5. PICK z2 : z2 = StringWithAttribute(y1, "cursor", text, width, a)
    OBVIOUS
  <2>6. CursorText(s, text, a) = Restore(z2)
    BY Zenon, <1>1, <1>4, <2>1, <2>2, <2>3, <2>4, <2>5 DEF CursorText
  <2>7. State(z0)
    BY <1>2 DEF Back
  <2>8. /\ State(y0) /\ y0.tty = z0.tty /\ y0.fep.wsRow = z0.fep.wsRow
        /\ SameStatus(z0, y0) /\ y0.fep.cursorText = text
    <3>1. Remembers(z0, y0, text, z0.fep.cursorAttr)
      BY Zenon, <2>1, <2>7, TextState
    <3> QED BY <3>1 DEF Remembers
  <2>9. /\ State(z1) /\ z1.fep.wsRow = y0.fep.wsRow
        /\ z1.tty = SaveCursor(z0.tty, "fep")
        /\ SameStatus(y0, z1) /\ SameCursorText(y0, z1)
    BY <2>2, <2>8, SaveState
  <2>10. /\ State(y1) /\ y1.tty = z1.tty /\ y1.fep.wsRow = z1.fep.wsRow
         /\ SameStatus(z1, y1) /\ y1.fep.cursorAttr = a /\ y1.fep.cursorText = z1.fep.cursorText
    <3>1. Remembers(z1, y1, z1.fep.cursorText, a)
      BY Zenon, <2>3, <2>9, AttrState
    <3> QED BY <3>1 DEF Remembers
  <2>11. width \in Nat /\ Cols <= width
    <3>1. z1.fep.cursor.col \in {-1, 0}
      BY <2>9 DEF State, Where
    <3> QED BY SMT, <2>4, <3>1, SizeAssumption
  <2>12. Wrote("cursor", y1, z2)
    <3>1. "cursor" \in Writer \ {"child"}
      BY DEF Writer
    <3> QED BY <2>5, <2>10, <2>11, <3>1, StringDraws DEF State
  <2>13. /\ State(z2) /\ z2.fep.wsRow = y1.fep.wsRow
         /\ SameStatus(y1, z2) /\ SameCursorText(y1, z2)
    BY <2>10, <2>12, WroteState
  <2>14. Texted("cursor", SaveCursor(z0.tty, "fep"), z2.tty)
    BY <2>9, <2>10, <2>12 DEF Wrote, Draws
  <2>15. z2.fep.wsRow = z0.fep.wsRow
    BY <2>8, <2>9, <2>10, <2>13
  <2>16. PICK n, k : n = Lesser(Len(text), width) /\ k = n - Skipped(a, n)
    OBVIOUS
  <2>17. Shows("cursor", SaveCursor(z0.tty, "fep"), z2.tty, text, Skipped(a, n), k)
    <3>1. "cursor" \in Writer \ {"child"} /\ Shape(y1)
      BY <2>10 DEF Writer, State
    <3>2. Shows("cursor", y1.tty, z2.tty, text, Skipped(a, n), k)
      BY Zenon, <2>5, <2>11, <2>16, <3>1, StringShows
    <3> QED BY <2>9, <2>10, <3>2
  <2>18. PICK y : y = Restore(z2)
    OBVIOUS
  <2>19. /\ Back(z0, y) /\ (z0.tty.cur.row <= z0.tty.bot => Below(z0.tty, y.tty))
         /\ Overwrites(z0.tty, y.tty, text, Skipped(a, n), k)
    BY Zenon, <2>7, <2>13, <2>14, <2>15, <2>17, <2>18, DrawnBack
  <2>20. Back(s, y)
    BY <1>2, <2>19, BackOn
  <2>21. /\ SameStatus(s, y) /\ y.fep.cursorText = text /\ y.fep.cursorAttr = a
    <3>1. SameStatus(z2, y) /\ SameCursorText(z2, y)
      BY <2>13, <2>18, RestoreState
    <3> QED BY Zenon, <1>2, <2>8, <2>9, <2>10, <2>13, <3>1 DEF SameStatus, SameCursorText
  <2>22. s.tty.cur.row <= s.tty.bot => Below(s.tty, y.tty)
    <3>1. z0.tty.cur = s.tty.cur /\ z0.tty.bot = s.tty.bot
      BY <1>2 DEF Back
    <3> QED BY Zenon, <1>2, <2>19, <3>1 DEF Below
  <2>23. TextOver(z0, y, text, a)
    <3>1. n \in Nat /\ n <= Len(text) /\ (Len(text) <= Cols => n = Len(text))
      <4>1. Len(text) \in Nat
        OBVIOUS
      <4> QED BY SMT, <2>11, <2>16, <4>1, SizeAssumption DEF Lesser
    <3> QED BY Zenon, <2>16, <2>19, <3>1 DEF TextOver
  <2> QED BY <1>1, <2>6, <2>18, <2>20, <2>21, <2>22, <2>23
<1> QED BY <1>3, <1>4

(* Whatever the child writes, its lines stay the same.                     *)
SameLines(t, u) == Tty(u) /\ u.rows = t.rows /\ u.bot = t.bot

LEMMA PlayTty ==
  ASSUME NEW t, NEW token \in Token, Tty(t)
  PROVE  SameLines(t, Play(t, token))
<1>1. 0 \in 0 .. t.rows - 1 /\ 0 \in 0 .. Cols
  BY SMT, SizeAssumption DEF Tty
<1>2. /\ SameLines(t, Put(t, "child", token.ch)) /\ SameLines(t, NewLine(t))
      /\ SameLines(t, Goto(t, 0, 0)) /\ SameLines(t, Render(t, token.params))
  <2>1. SameLines(t, Put(t, "child", token.ch))
    <3>1. token.ch \in Char /\ "child" \in Writer
      BY DEF Token, Writer
    <3> QED BY <3>1, PutTty DEF SameLines, Still
  <2>2. SameLines(t, NewLine(t))
    BY NewLineTty DEF SameLines, Still
  <2>3. SameLines(t, Goto(t, 0, 0))
    BY <1>1, GotoTty DEF SameLines, Still
  <2>4. SameLines(t, Render(t, token.params))
    <3>1. token.params \in Seq(Nat)
      BY DEF Token
    <3>2. Len(token.params) \in Nat /\ DOMAIN token.params = 1 .. Len(token.params)
      BY <3>1
    <3> QED BY Zenon, <3>2, RenderTty DEF SameLines, Kept
  <2> QED BY <2>1, <2>2, <2>3, <2>4
<1>3. SameLines(t, EraseAll(t)) /\ SameLines(t, EraseBelow(t))
  BY EraseAllTty, EraseBelowTty DEF SameLines, Still
<1>4. SameLines(t, SaveCursor(t, "child")) /\ SameLines(t, RestoreCursor(t, "child"))
  BY SlotTty DEF SameLines
<1> QED BY Zenon, <1>2, <1>3, <1>4 DEF Play, Token

LEMMA PlayAllTty ==
  ASSUME NEW t, NEW out \in Seq(Token), Tty(t)
  PROVE  SameLines(t, PlayAll(t, out))
<1> DEFINE n == Len(out)
<1>1. n \in Nat /\ DOMAIN out = 1 .. n
  OBVIOUS
<1>2. PICK h : Played(h, t, out, n) /\ h[n] = PlayAll(t, out)
  BY Zenon, <1>1, PlayRuns
<1> DEFINE S == {k \in Nat : k <= n => SameLines(t, h[k])}
<1>3. 0 \in S
  BY <1>2 DEF Played, SameLines
<1>4. ASSUME NEW k \in S PROVE k + 1 \in S
  <2> SUFFICES ASSUME k + 1 <= n PROVE SameLines(t, h[k + 1])
    OBVIOUS
  <2>1. k \in Nat /\ k <= n /\ k + 1 \in 1 .. n /\ (k + 1) - 1 = k
    BY SMT, <1>1
  <2>2. SameLines(t, h[k]) /\ out[k + 1] \in Token
    BY <2>1
  <2>3. h[k + 1] = Play(h[k], out[k + 1])
    BY <1>2, <2>1 DEF Played
  <2>4. SameLines(h[k], h[k + 1])
    BY <2>2, <2>3, PlayTty DEF SameLines
  <2> QED BY Zenon, <2>2, <2>4 DEF SameLines
<1>5. S = Nat
  BY <1>3, <1>4, NumberInduction
<1>6. n <= n
  BY SMT, <1>1
<1>7. SameLines(t, h[n])
  BY Zenon, <1>1, <1>5, <1>6
<1> QED BY Zenon, <1>2, <1>7

(* The cursor and the saved position stay in the scroll region, and of the *)
(* child's output nothing but clear_screen and clr_eos gets below it.      *)
Low(t) == t.cur.row <= t.bot /\ t.slot.cur.row <= t.bot

Wipes(token) == token.op \in {"erase", "eos"}

LEMMA PlayLow ==
  ASSUME NEW t, NEW token \in Token, Tty(t), Low(t)
  PROVE  Low(Play(t, token)) /\ (~Wipes(token) => Below(t, Play(t, token)))
<1>1. 0 \in 0 .. t.rows - 1 /\ 0 \in 0 .. Cols /\ 0 <= t.bot
  BY SMT, SizeAssumption DEF Tty
<1>2. /\ Low(Put(t, "child", token.ch)) /\ Below(t, Put(t, "child", token.ch))
  <2>1. token.ch \in Char /\ "child" \in Writer
    BY DEF Token, Writer
  <2>2. Still(t, Put(t, "child", token.ch)) /\ InRegion(t, Put(t, "child", token.ch))
    BY <2>1, PutTty
  <2> QED BY Zenon, <2>2 DEF Still, InRegion, Low, Below
<1>3. Low(NewLine(t)) /\ Below(t, NewLine(t))
  <2>1. Still(t, NewLine(t)) /\ NewLine(t).cur.row = Down(t) /\ NewLine(t).cells = Scrolled(t)
    <3>1. /\ Still(t, NewLine(t)) /\ NewLine(t).cells = Scrolled(t)
          /\ NewLine(t).cur = [row |-> Down(t), col |-> 0]
      BY Zenon, NewLineTty
    <3> QED BY <3>1
  <2>2. Down(t) <= t.bot
    BY DownRow DEF Low
  <2>3. \A r \in t.bot + 1 .. MaxRows - 1 : Scrolled(t)[r] = t.cells[r]
    BY ScrolledCells
  <2> QED BY Zenon, <2>1, <2>2, <2>3 DEF Still, Low, Below
<1>4. Low(Goto(t, 0, 0)) /\ Below(t, Goto(t, 0, 0))
  <2>1. /\ Still(t, Goto(t, 0, 0)) /\ SameCells(t, Goto(t, 0, 0))
        /\ Goto(t, 0, 0).cur.row = 0
    <3>1. /\ Still(t, Goto(t, 0, 0)) /\ SameCells(t, Goto(t, 0, 0))
          /\ Goto(t, 0, 0).cur = [row |-> 0, col |-> 0]
      BY Zenon, <1>1, GotoTty
    <3> QED BY <3>1
  <2> QED BY Zenon, <1>1, <2>1 DEF Still, SameCells, Low, Below
<1>5. Low(EraseAll(t)) /\ Low(EraseBelow(t))
  <2>1. Still(t, EraseAll(t)) /\ EraseAll(t).cur = t.cur
    BY EraseAllTty
  <2>2. Still(t, EraseBelow(t)) /\ EraseBelow(t).cur = t.cur
    BY EraseBelowTty
  <2> QED BY Zenon, <2>1, <2>2 DEF Still, Low
<1>6. Low(Render(t, token.params)) /\ Below(t, Render(t, token.params))
  <2>1. token.params \in Seq(Nat)
    BY DEF Token
  <2>2. Len(token.params) \in Nat /\ DOMAIN token.params = 1 .. Len(token.params)
    BY <2>1
  <2>3. PICK u : u = Render(t, token.params)
    OBVIOUS
  <2>4. Kept(t, u) /\ SameCells(t, u) /\ u.cur = t.cur
    BY Zenon, <2>2, <2>3, RenderTty
  <2> QED BY Zenon, <2>3, <2>4 DEF Kept, SameCells, Low, Below
<1>7. Low(SaveCursor(t, "child")) /\ Below(t, SaveCursor(t, "child"))
  <2>1. PICK u : u = SaveCursor(t, "child")
    OBVIOUS
  <2>2. /\ SameCells(t, u) /\ u.bot = t.bot /\ u.cur = t.cur
        /\ u.slot = [cur |-> t.cur, sgr |-> t.sgr, who |-> "child"]
    BY <2>1, SlotTty
  <2>3. u.slot.cur = t.cur
    BY <2>2
  <2> QED BY Zenon, <2>1, <2>2, <2>3 DEF SameCells, Low, Below
<1>8. Low(RestoreCursor(t, "child")) /\ Below(t, RestoreCursor(t, "child"))
  <2>1. PICK u : u = RestoreCursor(t, "child")
    OBVIOUS
  <2>2. SameCells(t, u) /\ u.bot = t.bot /\ u.cur = t.slot.cur /\ u.slot = t.slot
    BY <2>1, SlotTty
  <2> QED BY Zenon, <2>1, <2>2 DEF SameCells, Low, Below
<1> QED BY Zenon, <1>2, <1>3, <1>4, <1>5, <1>6, <1>7, <1>8 DEF Play, Token, Wipes

(* No cursor text: what is left of one are spaces.                         *)
Clean(t) ==
  \A r \in 0 .. MaxRows - 1, c \in 0 .. Cols - 1 :
    t.cells[r][c].who = "cursor" => t.cells[r][c].ch = " "

Cleanly(t, u) == u.spilled = t.spilled /\ (Clean(t) => Clean(u))

LEMMA SameClean ==
  ASSUME NEW t, NEW u, SameCells(t, u)
  PROVE  Cleanly(t, u)
  BY Zenon DEF SameCells, Cleanly, Clean

LEMMA BlankClean ==
  ASSUME NEW c \in 0 .. Cols - 1
  PROVE  BlankRow[c].who # "cursor"
  BY DEF BlankRow, Blank

LEMMA ScrolledClean ==
  ASSUME NEW t, Tty(t), NEW u, u.spilled = t.spilled, u.cells = Scrolled(t)
  PROVE  Cleanly(t, u)
<1>1. DOMAIN t.cells = 0 .. MaxRows - 1
  BY DEF Tty, Screenful
<1>2. ASSUME Clean(t), NEW r \in 0 .. MaxRows - 1, NEW c \in 0 .. Cols - 1
      PROVE  Scrolled(t)[r][c].who = "cursor" => Scrolled(t)[r][c].ch = " "
  <2>1. t.cells[r][c].who = "cursor" => t.cells[r][c].ch = " "
    BY <1>2 DEF Clean
  <2>2. CASE t.cur.row = t.bot
    <3>1. Scrolled(t)[r] = IF r < t.bot THEN t.cells[r + 1]
                           ELSE IF r = t.bot THEN BlankRow ELSE t.cells[r]
      BY Zenon, <1>1, <2>2 DEF Scrolled
    <3>2. CASE r < t.bot
      <4>1. r + 1 \in 0 .. MaxRows - 1
        BY SMT, <3>2, SizeAssumption DEF Tty
      <4>2. t.cells[r + 1][c].who = "cursor" => t.cells[r + 1][c].ch = " "
        BY <1>2, <4>1 DEF Clean
      <4> QED BY <3>1, <3>2, <4>2
    <3>3. CASE r = t.bot /\ ~(r < t.bot)
      <4>1. Scrolled(t)[r] = BlankRow
        BY <3>1, <3>3
      <4> QED BY Zenon, <4>1, BlankClean
    <3>4. CASE r # t.bot /\ ~(r < t.bot)
      BY <2>1, <3>1, <3>4
    <3> QED BY <3>2, <3>3, <3>4
  <2>3. CASE t.cur.row # t.bot
    BY <2>1, <2>3 DEF Scrolled
  <2> QED BY <2>2, <2>3
<1> QED BY Zenon, <1>2 DEF Cleanly, Clean

LEMMA NewLineClean ==
  ASSUME NEW t, Tty(t)
  PROVE  Cleanly(t, NewLine(t))
  BY Zenon, NewLineTty, ScrolledClean

LEMMA PutClean ==
  ASSUME NEW t, NEW ch \in Char, Tty(t)
  PROVE  Cleanly(t, Put(t, "child", ch))
<1>1. PICK w, v : w = Wrapped(t) /\ v = Place(w, "child", ch, w.spilled)
  OBVIOUS
<1>2. Tty(w) /\ w.cur.col \in 0 .. Cols - 1 /\ w.spilled = t.spilled
  BY <1>1, WrappedTty
<1>3. Put(t, "child", ch) = v
  <2>1. (w.spilled \/ ("child" # "child" /\ t.cur.col = Cols)) = w.spilled
    BY <1>2 DEF Tty
  <2> QED BY Zenon, <1>1, <2>1, PutPlaces
<1>4. Placed(w, "child", ch, v) /\ v.spilled = w.spilled
  <2>1. "child" \in Writer /\ w.spilled \in BOOLEAN
    BY <1>2 DEF Writer, Tty
  <2> QED BY Zenon, <1>1, <1>2, <2>1, PlaceTty
<1>5. Clean(t) => Clean(w)
  <2>1. CASE t.cur.col = Cols
    BY Zenon, <1>1, <2>1, NewLineClean DEF Wrapped, Cleanly
  <2>2. CASE t.cur.col # Cols
    BY Zenon, <1>1, <2>2 DEF Wrapped
  <2> QED BY <2>1, <2>2
<1>6. ASSUME Clean(w), NEW r \in 0 .. MaxRows - 1, NEW c \in 0 .. Cols - 1
      PROVE  v.cells[r][c].who = "cursor" => v.cells[r][c].ch = " "
  <2>1. w.cells[r][c].who = "cursor" => w.cells[r][c].ch = " "
    BY <1>6 DEF Clean
  <2>2. CASE r # w.cur.row
    BY Zenon, <1>4, <2>1, <2>2 DEF Placed
  <2>3. CASE r = w.cur.row
    <3>1. v.cells[r][c] = IF c = w.cur.col THEN [who |-> "child", ch |-> ch, sgr |-> w.sgr]
                          ELSE w.cells[r][c]
      BY <1>4, <2>3 DEF Placed
    <3>2. CASE c = w.cur.col
      <4>1. v.cells[r][c].who = "child"
        BY <3>1, <3>2
      <4> QED BY <4>1
    <3>3. CASE c # w.cur.col
      BY <2>1, <3>1, <3>3
    <3> QED BY <3>2, <3>3
  <2> QED BY <2>2, <2>3
<1> QED BY Zenon, <1>2, <1>3, <1>4, <1>5, <1>6 DEF Cleanly, Clean

LEMMA PlayClean ==
  ASSUME NEW t, NEW token \in Token, Tty(t)
  PROVE  Cleanly(t, Play(t, token))
<1>1. Cleanly(t, Put(t, "child", token.ch))
  BY PutClean DEF Token
<1>2. Cleanly(t, Goto(t, 0, 0))
  <2>1. 0 \in 0 .. t.rows - 1 /\ 0 \in 0 .. Cols
    BY SMT, SizeAssumption DEF Tty
  <2> QED BY <2>1, GotoTty, SameClean
<1>3. Cleanly(t, EraseAll(t))
  <2>1. /\ EraseAll(t).spilled = t.spilled
        /\ EraseAll(t).cells = [r \in 0 .. MaxRows - 1 |-> BlankRow]
    BY EraseAllTty
  <2>2. \A r \in 0 .. MaxRows - 1 : EraseAll(t).cells[r] = BlankRow
    BY Zenon, <2>1
  <2> QED BY Zenon, <2>1, <2>2, BlankClean DEF Cleanly, Clean
<1>4. Cleanly(t, EraseBelow(t))
  <2>1. PICK u, v : u = EraseLine(t) /\ v = EraseBelow(t)
    OBVIOUS
  <2>2. /\ v.spilled = t.spilled
        /\ v.cells = [r \in 0 .. MaxRows - 1 |-> IF r <= t.cur.row THEN u.cells[r] ELSE BlankRow]
    BY Zenon, <2>1, EraseBelowTty
  <2>3. /\ \A r \in 0 .. MaxRows - 1 : r # t.cur.row => u.cells[r] = t.cells[r]
        /\ \A c \in 0 .. Cols - 1 :
             u.cells[t.cur.row][c]
               = IF c < Lesser(t.cur.col, Cols - 1) THEN t.cells[t.cur.row][c] ELSE Blank
    BY Zenon, <2>1, EraseLineTty
  <2>4. ASSUME Clean(t), NEW r \in 0 .. MaxRows - 1, NEW c \in 0 .. Cols - 1
        PROVE  v.cells[r][c].who = "cursor" => v.cells[r][c].ch = " "
    <3>1. t.cells[r][c].who = "cursor" => t.cells[r][c].ch = " "
      BY <2>4 DEF Clean
    <3>2. u.cells[r][c] \in {t.cells[r][c], Blank}
      BY <2>3
    <3>3. v.cells[r][c] \in {u.cells[r][c], Blank}
      <4>1. v.cells[r] = IF r <= t.cur.row THEN u.cells[r] ELSE BlankRow
        BY Zenon, <2>2
      <4> QED BY <4>1 DEF BlankRow
    <3>4. Blank.who # "cursor"
      BY DEF Blank
    <3> QED BY <3>1, <3>2, <3>3, <3>4
  <2> QED BY Zenon, <2>1, <2>2, <2>4 DEF Cleanly, Clean
<1>5. Cleanly(t, Render(t, token.params))
  <2>1. token.params \in Seq(Nat)
    BY DEF Token
  <2>2. Len(token.params) \in Nat /\ DOMAIN token.params = 1 .. Len(token.params)
    BY <2>1
  <2> QED BY Zenon, <2>2, RenderTty, SameClean
<1>6. Cleanly(t, SaveCursor(t, "child")) /\ Cleanly(t, RestoreCursor(t, "child"))
  BY SlotTty, SameClean
<1>7. Cleanly(t, NewLine(t))
  BY NewLineClean
<1> QED BY Zenon, <1>1, <1>2, <1>3, <1>4, <1>5, <1>6, <1>7 DEF Play, Token

(* All that the child writes at once. *)
LowAfter(t, u) == Low(t) => Low(u)

BelowAfter(t, u) == Low(t) => Below(t, u)

LEMMA PlayAllLow ==
  ASSUME NEW t, NEW out \in Seq(Token), Tty(t)
  PROVE  /\ LowAfter(t, PlayAll(t, out)) /\ Cleanly(t, PlayAll(t, out))
         /\ (\A i \in 1 .. Len(out) : ~Wipes(out[i])) => BelowAfter(t, PlayAll(t, out))
<1> DEFINE n == Len(out)
           Calm == \A i \in 1 .. Len(out) : ~Wipes(out[i])
           After(u) == /\ SameLines(t, u) /\ LowAfter(t, u) /\ Cleanly(t, u)
                       /\ Calm => BelowAfter(t, u)
<1>1. n \in Nat /\ DOMAIN out = 1 .. n
  OBVIOUS
<1>2. PICK h : Played(h, t, out, n) /\ h[n] = PlayAll(t, out)
  BY Zenon, <1>1, PlayRuns
<1>3. After(t)
  BY Zenon DEF SameLines, LowAfter, BelowAfter, Below, Cleanly
<1>4. ASSUME NEW u, NEW i \in 1 .. n, After(u) PROVE After(Play(u, out[i]))
  <2>1. out[i] \in Token /\ Tty(u) /\ u.bot = t.bot
    BY <1>1, <1>4 DEF SameLines
  <2>2. PICK v : v = Play(u, out[i])
    OBVIOUS
  <2>3. SameLines(u, v) /\ Cleanly(u, v)
    BY <2>1, <2>2, PlayTty, PlayClean
  <2>4. Low(u) => Low(v) /\ (~Wipes(out[i]) => Below(u, v))
    BY <2>1, <2>2, PlayLow
  <2>5. SameLines(t, v) /\ Cleanly(t, v)
    BY Zenon, <1>4, <2>3 DEF SameLines, Cleanly
  <2>6. LowAfter(t, v)
    BY Zenon, <1>4, <2>4 DEF LowAfter
  <2>7. Calm => BelowAfter(t, v)
    BY Zenon, <1>4, <2>1, <2>4 DEF LowAfter, BelowAfter, Below
  <2> QED BY Zenon, <2>2, <2>5, <2>6, <2>7
<1> HIDE DEF After, Calm
<1> DEFINE S == {k \in Nat : k <= n => After(h[k])}
<1>5. 0 \in S
  BY <1>2, <1>3 DEF Played
<1>6. ASSUME NEW k \in S PROVE k + 1 \in S
  <2> SUFFICES ASSUME k + 1 <= n PROVE After(h[k + 1])
    OBVIOUS
  <2>1. k \in Nat /\ k <= n /\ k + 1 \in 1 .. n /\ (k + 1) - 1 = k
    BY SMT, <1>1
  <2>2. After(h[k])
    BY <2>1
  <2>3. h[k + 1] = Play(h[k], out[k + 1])
    BY <1>2, <2>1 DEF Played
  <2> QED BY Zenon, <1>4, <2>1, <2>2, <2>3
<1>7. S = Nat
  BY <1>5, <1>6, NumberInduction
<1>8. n <= n
  BY SMT, <1>1
<1>9. After(h[n])
  BY Zenon, <1>1, <1>7, <1>8
<1> QED BY Zenon, <1>2, <1>9 DEF After, Calm

-----------------------------------------------------------------------------
(* The status text is in the last line; the cursor text is behind the      *)
(* cursor; of cursor texts before it nothing is left.                      *)
Status(s) ==
  Complete(s.fep.statusText, s.fep.statusAttr) =>
    \A c \in 0 .. Cols - 1 :
      s.tty.cells[s.fep.wsRow][c].ch =
        IF c < Len(s.fep.statusText) THEN s.fep.statusText[c + 1] ELSE " "

CursorThere(s) ==
  /\ Complete(s.fep.cursorText, s.fep.cursorAttr)
  /\ s.tty.cur.col + Len(s.fep.cursorText) <= Cols
  => \A i \in DOMAIN s.fep.cursorText :
       LET cell == s.tty.cells[s.tty.cur.row][s.tty.cur.col + i - 1]
       IN cell.who = "cursor" /\ cell.ch = s.fep.cursorText[i]

Traces(s) ==
  ~s.tty.spilled =>
    \A r \in 0 .. MaxRows - 1, c \in 0 .. Cols - 1 :
      s.tty.cells[r][c].who = "cursor" /\ s.tty.cells[r][c].ch # " " =>
        /\ r = s.tty.cur.row
        /\ c \in s.tty.cur.col .. s.tty.cur.col + Len(s.fep.cursorText) - 1

LEMMA StatusDrawn ==
  ASSUME NEW s, NEW z, NEW text \in Seq(Char), NEW a \in Attribute,
         StatusOver(s, z, text, a), z.fep.wsRow = s.fep.wsRow,
         z.fep.statusText = text, z.fep.statusAttr = a
  PROVE  Status(z)
<1>1. PICK n, skip : n = Lesser(Len(text), Cols) /\ skip = Skipped(a, n)
  OBVIOUS
<1>2. \A c \in 0 .. Cols - 1 :
        IF c \in 0 .. n - skip - 1
          THEN /\ z.tty.cells[s.fep.wsRow][c].who = "status"
               /\ z.tty.cells[s.fep.wsRow][c].ch = text[skip + 1 + c]
          ELSE z.tty.cells[s.fep.wsRow][c] = Blank
  BY Zenon, <1>1 DEF StatusOver
<1>3. Len(text) \in Nat /\ a.start \in Nat /\ a.end \in Nat
  BY DEF Attribute
<1>4. ASSUME Complete(text, a) PROVE skip = 0
  <2>1. CASE a.type # "none"
    BY <1>1, <2>1 DEF Skipped
  <2>2. CASE Lesser(a.start, a.end) = 0
    BY SMT, <1>1, <1>3, <2>2, SizeAssumption DEF Skipped, Lesser
  <2>3. CASE text = <<>>
    <3>1. Len(text) = 0
      BY <2>3
    <3> QED BY SMT, <1>1, <1>3, <3>1, SizeAssumption DEF Skipped, Lesser
  <2> QED BY <1>4, <2>1, <2>2, <2>3 DEF Complete
<1>5. ASSUME Complete(text, a), NEW c \in 0 .. Cols - 1
      PROVE  z.tty.cells[s.fep.wsRow][c].ch = IF c < Len(text) THEN text[c + 1] ELSE " "
  <2>1. /\ c < Len(text) <=> c \in 0 .. n - skip - 1
        /\ skip + 1 + c = c + 1
    BY SMT, <1>1, <1>3, <1>4, <1>5, SizeAssumption DEF Lesser
  <2>2. Blank.ch = " "
    BY DEF Blank
  <2> QED BY Zenon, <1>2, <1>5, <2>1, <2>2
<1>6. PICK row, x, b : row = z.fep.wsRow /\ x = z.fep.statusText /\ b = z.fep.statusAttr
  OBVIOUS
<1>7. row = s.fep.wsRow /\ x = text /\ b = a
  BY <1>6
<1>8. Complete(x, b) =>
        \A c \in 0 .. Cols - 1 :
          z.tty.cells[row][c].ch = IF c < Len(x) THEN x[c + 1] ELSE " "
  BY <1>5, <1>7
<1> QED BY Zenon, <1>6, <1>8 DEF Status

LEMMA StatusSame ==
  ASSUME NEW s, NEW z, Status(s), z.tty.cells[s.fep.wsRow] = s.tty.cells[s.fep.wsRow],
         z.fep.wsRow = s.fep.wsRow, SameStatus(s, z)
  PROVE  Status(z)
<1>1. PICK row, x, a : row = z.fep.wsRow /\ x = z.fep.statusText /\ a = z.fep.statusAttr
  OBVIOUS
<1>2. row = s.fep.wsRow /\ x = s.fep.statusText /\ a = s.fep.statusAttr
  BY Zenon, <1>1 DEF SameStatus
<1>3. Complete(x, a) =>
        \A c \in 0 .. Cols - 1 :
          s.tty.cells[row][c].ch = IF c < Len(x) THEN x[c + 1] ELSE " "
  BY Zenon, <1>2 DEF Status
<1>4. z.tty.cells[row] = s.tty.cells[row]
  BY Zenon, <1>2
<1> QED BY Zenon, <1>1, <1>3, <1>4 DEF Status

LEMMA StatusKept ==
  ASSUME NEW s, NEW z, State(s), Status(s), s.tty.bot < s.fep.wsRow, Below(s.tty, z.tty),
         z.fep.wsRow = s.fep.wsRow, SameStatus(s, z)
  PROVE  Status(z)
<1>1. s.fep.wsRow \in s.tty.bot + 1 .. MaxRows - 1
  BY SMT, SizeAssumption DEF State, Shape, Tty
<1>2. z.tty.cells[s.fep.wsRow] = s.tty.cells[s.fep.wsRow]
  BY <1>1 DEF Below
<1> QED BY Zenon, <1>2, StatusSame

LEMMA CursorDrawn ==
  ASSUME NEW s, NEW z, State(s), NEW text \in Seq(Char), NEW a \in Attribute,
         TextOver(s, z, text, a), z.tty.cur = s.tty.cur,
         z.fep.cursorText = text, text # <<>> => z.fep.cursorAttr = a
  PROVE  CursorThere(z)
<1>1. CASE text = <<>>
  <2>1. DOMAIN z.fep.cursorText = {}
    BY SMT, <1>1
  <2> QED BY Zenon, <2>1 DEF CursorThere
<1>2. CASE text # <<>>
  <2>1. PICK n \in Nat : /\ n <= Len(text) /\ (Len(text) <= Cols => n = Len(text))
                         /\ Overwrites(s.tty, z.tty, text, Skipped(a, n), n - Skipped(a, n))
    BY DEF TextOver
  <2>2. PICK row, col : row = s.tty.cur.row /\ col = s.tty.cur.col
    OBVIOUS
  <2>3. row \in 0 .. MaxRows - 1 /\ col \in 0 .. Cols
    BY SMT, <2>2, SizeAssumption DEF State, Shape, Tty, OnScreen
  <2>4. Len(text) \in Nat /\ a.start \in Nat /\ a.end \in Nat /\ DOMAIN text = 1 .. Len(text)
    BY DEF Attribute
  <2>5. ASSUME Complete(text, a), col + Len(text) <= Cols, NEW i \in DOMAIN text
        PROVE  /\ z.tty.cells[row][col + i - 1].who = "cursor"
               /\ z.tty.cells[row][col + i - 1].ch = text[i]
    <3>1. n = Len(text)
      <4>1. Len(text) <= Cols
        BY SMT, <2>3, <2>4, <2>5, SizeAssumption
      <4> QED BY Zenon, <2>1, <4>1
    <3>2. Skipped(a, n) = 0
      <4>1. CASE a.type # "none"
        BY <4>1 DEF Skipped
      <4>2. CASE Lesser(a.start, a.end) = 0
        BY SMT, <2>4, <4>2 DEF Skipped, Lesser
      <4> QED BY <1>2, <2>5, <4>1, <4>2 DEF Complete
    <3>3. n - 0 = n /\ col + n <= Cols
      BY <2>5, <3>1
    <3>4. Covers("cursor", s.tty, z.tty, text, 0, n)
      BY Zenon, <2>1, <2>2, <3>2, <3>3 DEF Overwrites
    <3>5. PICK c : c = col + i - 1
      OBVIOUS
    <3>6. /\ c \in 0 .. Cols - 1 /\ c \in col .. col + n - 1
          /\ 0 + 1 + (c - col) = i
      BY SMT, <2>3, <2>4, <2>5, <3>1, <3>5, SizeAssumption
    <3>7. /\ z.tty.cells[row][c].who = "cursor"
          /\ z.tty.cells[row][c].ch = text[0 + 1 + (c - col)]
      BY Zenon, <2>2, <3>4, <3>6 DEF Covers
    <3> QED BY <3>5, <3>6, <3>7
  <2> QED BY Zenon, <1>2, <2>2, <2>5 DEF CursorThere
<1> QED BY <1>1, <1>2

LEMMA SpacesClean ==
  ASSUME NEW s, NEW z, State(s), Traces(s), SpacesOver(s, z), ~z.tty.spilled
  PROVE  Clean(z.tty) /\ ~s.tty.spilled
<1>7. PICK str : \E k \in Nat : /\ \A i \in 1 .. k : str[i] = " "
                                /\ Len(s.fep.cursorText) <= k \/ Cols <= k
                                /\ Overwrites(s.tty, z.tty, str, 0, k)
  BY DEF SpacesOver
<1>1. PICK k \in Nat : /\ \A i \in 1 .. k : str[i] = " "
                       /\ Len(s.fep.cursorText) <= k \/ Cols <= k
                       /\ Overwrites(s.tty, z.tty, str, 0, k)
  BY <1>7
<1>2. Covers("cursor", s.tty, z.tty, str, 0, k)
  BY Zenon, <1>1 DEF Overwrites
<1>3. PICK row, col, len : row = s.tty.cur.row /\ col = s.tty.cur.col /\ len = Len(s.fep.cursorText)
  OBVIOUS
<1>4. row \in 0 .. MaxRows - 1 /\ col \in 0 .. Cols /\ len \in Nat
  <2>1. len \in Nat
    BY <1>3 DEF State
  <2> QED BY SMT, <1>3, <2>1, SizeAssumption DEF State, Shape, Tty, OnScreen
<1>5. ~s.tty.spilled
  BY <1>2 DEF Covers
<1>6. ASSUME NEW r \in 0 .. MaxRows - 1, NEW c \in 0 .. Cols - 1,
             z.tty.cells[r][c].who = "cursor", z.tty.cells[r][c].ch # " "
      PROVE  FALSE
  <2>1. ~(r = row /\ c \in col .. col + k - 1)
    <3> SUFFICES ASSUME r = row, c \in col .. col + k - 1 PROVE FALSE
      OBVIOUS
    <3>1. z.tty.cells[row][c].ch = str[0 + 1 + (c - col)]
      BY Zenon, <1>2, <1>3 DEF Covers
    <3>2. 0 + 1 + (c - col) \in 1 .. k
      BY SMT, <1>4
    <3> QED BY <1>1, <1>6, <3>1, <3>2
  <2>2. z.tty.cells[r][c] = s.tty.cells[r][c]
    BY Zenon, <1>2, <1>3, <2>1 DEF Covers
  <2>3. r = row /\ c \in col .. col + len - 1
    BY Zenon, <1>3, <1>5, <1>6, <2>2 DEF Traces
  <2>4. c \in col .. col + k - 1
    <3>1. len <= k \/ Cols <= k
      BY Zenon, <1>1, <1>3
    <3>2. c \in Int /\ c < Cols
      BY SMT, SizeAssumption
    <3> QED BY SMT, <1>4, <2>3, <3>1, <3>2, SizeAssumption
  <2> QED BY <2>1, <2>3, <2>4
<1> QED BY Zenon, <1>5, <1>6 DEF Clean

LEMMA TextTraces ==
  ASSUME NEW s, NEW z, State(s), ~z.tty.spilled => Clean(s.tty),
         NEW text \in Seq(Char), NEW a \in Attribute,
         TextOver(s, z, text, a), z.tty.cur = s.tty.cur, z.fep.cursorText = text
  PROVE  Traces(z)
<1>1. PICK n \in Nat : /\ n <= Len(text) /\ (Len(text) <= Cols => n = Len(text))
                       /\ Overwrites(s.tty, z.tty, text, Skipped(a, n), n - Skipped(a, n))
  BY DEF TextOver
<1>2. PICK row, col, skip : row = s.tty.cur.row /\ col = s.tty.cur.col /\ skip = Skipped(a, n)
  OBVIOUS
<1>3. row \in 0 .. MaxRows - 1 /\ col \in 0 .. Cols
  BY SMT, <1>2, SizeAssumption DEF State, Shape, Tty, OnScreen
<1>4. skip \in Nat /\ Len(text) \in Nat
  <2>1. Len(text) \in Nat /\ a.start \in Nat /\ a.end \in Nat
    BY DEF Attribute
  <2> QED BY SMT, <1>2, <2>1 DEF Skipped, Lesser
<1>5. ASSUME ~z.tty.spilled, NEW r \in 0 .. MaxRows - 1, NEW c \in 0 .. Cols - 1,
             z.tty.cells[r][c].who = "cursor", z.tty.cells[r][c].ch # " "
      PROVE  r = row /\ c \in col .. col + Len(text) - 1
  <2>1. Covers("cursor", s.tty, z.tty, text, skip, n - skip)
    BY Zenon, <1>1, <1>2, <1>5 DEF Overwrites
  <2>2. z.tty.cells[r][c] # s.tty.cells[r][c]
    BY Zenon, <1>5 DEF Clean
  <2>3. r = row /\ c \in col .. col + (n - skip) - 1
    BY Zenon, <1>2, <2>1, <2>2 DEF Covers
  <2>4. c \in col .. col + Len(text) - 1
    BY SMT, <1>1, <1>3, <1>4, <2>3
  <2> QED BY <2>3, <2>4
<1> QED BY Zenon, <1>2, <1>5 DEF Traces

(* _fep_output_cursor_text leaves no trace of the text before, ... *)
LEMMA CursorTextTraces ==
  ASSUME NEW s, NEW text \in Seq(Char), NEW a \in Attribute, State(s), Traces(s)
  PROVE  Traces(CursorText(s, text, a))
<1>1. PICK z0, z : z0 = EraseCursorText(s) /\ z = CursorText(s, text, a)
  OBVIOUS
<1>2. Back(s, z0) /\ SpacesOver(s, z0)
  BY <1>1, EraseCursorTextBack
<1>3. Back(s, z) /\ z.fep.cursorText = text /\ TextOver(z0, z, text, a)
  BY <1>1, CursorTextBack
<1>4. State(z0) /\ z.tty.cur = z0.tty.cur
  BY <1>2, <1>3 DEF Back
<1>5. ASSUME ~z.tty.spilled PROVE Clean(z0.tty)
  <2>1. ~z0.tty.spilled
    BY Zenon, <1>3, <1>5 DEF TextOver, Overwrites, Covers
  <2> QED BY <1>2, <2>1, SpacesClean
<1>6. Traces(z)
  BY <1>3, <1>4, <1>5, TextTraces
<1> QED BY <1>1, <1>6

(* ... and _fep_output_status_text none at all: what is of a cursor text   *)
(* in the screen u was there in t.                                         *)
NoneNew(t, u) ==
  /\ u.spilled = t.spilled
  /\ \A r \in 0 .. MaxRows - 1, c \in 0 .. Cols - 1 :
       u.cells[r][c].who = "cursor" => u.cells[r][c] = t.cells[r][c]

LEMMA NoneNewClean ==
  ASSUME NEW t, NEW u, NoneNew(t, u)
  PROVE  Cleanly(t, u)
  BY Zenon DEF NoneNew, Cleanly, Clean

LEMMA StatusOverClean ==
  ASSUME NEW s, NEW z, State(s), NEW text, NEW a, StatusOver(s, z, text, a)
  PROVE  NoneNew(s.tty, z.tty)
<1>1. \A c \in 0 .. Cols - 1 : z.tty.cells[s.fep.wsRow][c].who # "cursor"
  <2>1. \A c \in 0 .. Cols - 1 : \/ z.tty.cells[s.fep.wsRow][c].who = "status"
                                 \/ z.tty.cells[s.fep.wsRow][c] = Blank
    BY Zenon DEF StatusOver
  <2>2. Blank.who # "cursor"
    BY DEF Blank
  <2> QED BY <2>1, <2>2
<1>2. \A r \in 0 .. MaxRows - 1 : r # s.fep.wsRow => z.tty.cells[r] = s.tty.cells[r]
  BY Zenon DEF StatusOver
<1>3. z.tty.spilled = s.tty.spilled
  BY Zenon DEF StatusOver
<1> QED BY Zenon, <1>1, <1>2, <1>3 DEF NoneNew

-----------------------------------------------------------------------------
(* z is the screen after the child has written str on s: what it has for   *)
(* itself looks the same if it did before.                                 *)
Follows(s, z, str) ==
  /\ State(z) /\ z.fep.wsRow = s.fep.wsRow /\ z.tty.bot = s.tty.bot
  /\ s.tty.bot < s.fep.wsRow =>
       \A p : Together(s.tty, p) => Together(z.tty, PlayAll(p, str))

LEMMA BackTogether ==
  ASSUME NEW s, NEW z, NEW p, State(s), Back(s, z), Together(s.tty, p),
         s.tty.bot < s.fep.wsRow
  PROVE  Together(z.tty, p)
<1>1. Tty(z.tty) /\ z.tty.bot = s.tty.bot /\ z.tty.astray = s.tty.astray
      /\ z.tty.cur = s.tty.cur /\ z.tty.sgr = s.tty.sgr
  BY DEF Back, State, Shape
<1>2. z.tty.slot.who = "child" => z.tty.slot = s.tty.slot
  BY DEF Back
<1>3. Alike(s.tty, p) => Alike(z.tty, p)
  <2>1. Overlaid(s.tty, z.tty, s.fep.wsRow)
    BY DEF Back
  <2> QED BY Zenon, <1>1, <2>1 DEF Overlaid, Alike, CellAlike
<1> QED BY Zenon, <1>1, <1>2, <1>3 DEF Together

(* Nothing that the child has written changes nothing. *)
LEMMA PlayNothing ==
  ASSUME NEW p
  PROVE  PlayAll(p, <<>>) = p
<1>1. 0 \in Nat /\ DOMAIN <<>> = 1 .. 0
  BY SMT
<1>2. PICK h : Played(h, p, <<>>, 0) /\ h[0] = PlayAll(p, <<>>)
  BY Zenon, <1>1, PlayRuns
<1> QED BY Zenon, <1>2 DEF Played

Calm(str) == \A i \in 1 .. Len(str) : ~Wipes(str[i])

ChildWrote(s, z, str) ==
  /\ LowAfter(s.tty, z.tty) /\ Cleanly(s.tty, z.tty)
  /\ Calm(str) => BelowAfter(s.tty, z.tty)
  /\ SameStatus(s, z) /\ z.fep.cursorText = <<>>

LEMMA WritePtyFollows ==
  ASSUME NEW s, NEW str \in Seq(Token), NEW rest \in Seq(Token), State(s)
  PROVE  /\ Follows(s, WritePty(s, str, rest), str)
         /\ ChildWrote(s, WritePty(s, str, rest), str)
<1>1. PICK z0 : z0 = ApplyAttr(s, s.fep.attrPty)
  OBVIOUS
<1>2. Sets(s, z0) /\ z0.fep.attr = s.fep.attrPty
  BY <1>1, ApplyAttrSets DEF State
<1>3. State(z0) /\ z0.fep.wsRow = s.fep.wsRow
  <2>1. /\ z0.fep.wsRow = s.fep.wsRow /\ z0.fep.sgrCodes = s.fep.sgrCodes
        /\ z0.fep.attrPty = s.fep.attrPty
        /\ z0.fep.cursor = s.fep.cursor /\ z0.fep.cursorSave = s.fep.cursorSave
        /\ z0.fep.cursorText = s.fep.cursorText /\ z0.fep.cursorAttr = s.fep.cursorAttr
        /\ z0.fep.statusText = s.fep.statusText /\ z0.fep.statusAttr = s.fep.statusAttr
    BY <1>2 DEF Sets, FepFields
  <2>2. Shape(z0) /\ z0.tty.rows = s.tty.rows
    BY <1>2 DEF Sets, Kept
  <2> QED BY Zenon, <1>2, <2>1, <2>2 DEF State
<1>4. PICK u : u = PlayAll(z0.tty, str)
  OBVIOUS
<1>5. SameLines(z0.tty, u)
  BY <1>3, <1>4, PlayAllTty DEF State, Shape
<1>6. PICK z, attr :
        /\ z = [z0 EXCEPT !.tty = u, !.fep.attrPty = attr, !.fep.attr = attr,
                          !.fep.cursor = Unknown, !.fep.cursorText = <<>>]
        /\ z = WritePty(s, str, rest)
        /\ attr = LastSgr(s.fep.sgrCodes, s.fep.attrPty, str, rest)
  BY Zenon, <1>1, <1>4 DEF WritePty
<1>7. DOMAIN z0 = {"tty", "fep"} /\ DOMAIN z0.fep = FepFields
  BY <1>3 DEF State, Shape
<1>8. /\ DOMAIN z = {"tty", "fep"} /\ z.tty = u
      /\ z.fep = [z0.fep EXCEPT !.attrPty = attr, !.attr = attr,
                                !.cursor = Unknown, !.cursorText = <<>>]
  BY SMT, <1>6, <1>7
<1>9. /\ DOMAIN z.fep = FepFields
      /\ z.fep.wsRow = z0.fep.wsRow /\ z.fep.cursor = Unknown
      /\ z.fep.cursorSave = z0.fep.cursorSave /\ z.fep.sgrCodes = z0.fep.sgrCodes
      /\ z.fep.attrPty = attr /\ z.fep.attr = attr
      /\ z.fep.statusText = z0.fep.statusText /\ z.fep.statusAttr = z0.fep.statusAttr
      /\ z.fep.cursorText = <<>> /\ z.fep.cursorAttr = z0.fep.cursorAttr
  BY SMT, <1>7, <1>8 DEF FepFields
<1>10. State(z)
  <2>1. Unknown \in Where /\ <<>> \in Seq(Char)
    BY SMT, SizeAssumption DEF Unknown, Where
  <2>3. attr \in SgrAttr
    BY <1>6, LastSgrType DEF State
  <2>2. Tty(u) /\ u.rows = z0.tty.rows
    BY <1>5 DEF SameLines
  <2>4. IsRecord(z.fep)
    BY Zenon, <1>8 DEF IsRecord
  <2> QED BY Zenon, <1>3, <1>8, <1>9, <2>1, <2>2, <2>3, <2>4 DEF State, Shape
<1>11. z.fep.wsRow = s.fep.wsRow /\ z.tty.bot = s.tty.bot
  BY <1>2, <1>3, <1>5, <1>8, <1>9 DEF Sets, Kept, SameLines
<1>12. ASSUME NEW p, Together(s.tty, p) PROVE Together(z.tty, PlayAll(p, str))
  <2>1. Together(z0.tty, p)
    <3>1. /\ Tty(z0.tty) /\ Kept(s.tty, z0.tty) /\ SameCells(s.tty, z0.tty)
          /\ z0.tty.cur = s.tty.cur /\ z0.tty.bot = s.tty.bot
      BY <1>2 DEF Sets, Shape, Kept
    <3>2. Tty(p) /\ Kept(p, p) /\ SameCells(p, p)
      BY <1>12 DEF Together, Kept, SameCells
    <3>3. Alike(s.tty, p) => Alike(z0.tty, p)
      <4>1. More(z0.tty.sgr, s.tty.sgr)
        BY <1>1, ApplyAttrAdds DEF State
      <4>2. More(s.tty.sgr, p.sgr) => More(z0.tty.sgr, p.sgr)
        BY <4>1 DEF More
      <4> QED BY Zenon, <3>1, <3>2, <4>2, SameAlike DEF Alike
    <3> QED BY Zenon, <1>12, <3>1, <3>2, <3>3, StillTogether
  <2> QED BY <1>4, <1>8, <2>1, PlayAllTogether
<1>13. Follows(s, z, str)
  BY Zenon, <1>10, <1>11, <1>12 DEF Follows
<1>14. ChildWrote(s, z, str)
  <2>1. /\ LowAfter(z0.tty, u) /\ Cleanly(z0.tty, u)
        /\ (\A i \in 1 .. Len(str) : ~Wipes(str[i])) => BelowAfter(z0.tty, u)
    BY <1>3, <1>4, PlayAllLow DEF State, Shape
  <2>2. /\ z0.tty.bot = s.tty.bot /\ z0.tty.cur = s.tty.cur /\ z0.tty.slot = s.tty.slot
        /\ z0.tty.cells = s.tty.cells /\ z0.tty.spilled = s.tty.spilled
    BY <1>2 DEF Sets, Kept, SameCells
  <2>3. /\ LowAfter(s.tty, u) /\ Cleanly(s.tty, u)
        /\ Calm(str) => BelowAfter(s.tty, u)
    BY Zenon, <2>1, <2>2 DEF LowAfter, Low, Cleanly, Clean, Calm, BelowAfter, Below
  <2>4. SameStatus(s, z)
    <3>1. z0.fep.statusText = s.fep.statusText /\ z0.fep.statusAttr = s.fep.statusAttr
      BY <1>2 DEF Sets, FepFields
    <3> QED BY Zenon, <1>9, <3>1 DEF SameStatus
  <2> QED BY Zenon, <1>8, <1>9, <2>3, <2>4 DEF ChildWrote
<1> QED BY <1>6, <1>13, <1>14

LEMMA StringFromPtyFollows ==
  ASSUME NEW s, NEW str \in Seq(Token), NEW rest \in Seq(Token), State(s)
  PROVE  Follows(s, StringFromPty(s, str, rest), str)
<1>1. CASE str = <<>>
  BY Zenon, <1>1, PlayNothing DEF StringFromPty, Follows
<1>2. CASE str # <<>> /\ s.fep.cursorText = <<>>
  BY Zenon, <1>2, WritePtyFollows DEF StringFromPty
<1>3. CASE str # <<>> /\ s.fep.cursorText # <<>>
  <2>1. PICK z : z = WritePty(s, str, rest)
    OBVIOUS
  <2>2. Follows(s, z, str)
    BY <2>1, WritePtyFollows
  <2>3. PICK y : y = CursorText(z, s.fep.cursorText, s.fep.cursorAttr)
    OBVIOUS
  <2>4. Back(z, y)
    BY <2>2, <2>3, CursorTextBack DEF Follows, State
  <2>5. ASSUME NEW p, Together(s.tty, p), s.tty.bot < s.fep.wsRow
        PROVE  Together(y.tty, PlayAll(p, str))
    <3>1. Together(z.tty, PlayAll(p, str)) /\ z.tty.bot < z.fep.wsRow /\ State(z)
      BY Zenon, <2>2, <2>5 DEF Follows
    <3> QED BY <2>4, <3>1, BackTogether
  <2>6. State(y) /\ y.fep.wsRow = s.fep.wsRow /\ y.tty.bot = s.tty.bot
    BY <2>2, <2>4 DEF Follows, Back
  <2>7. StringFromPty(s, str, rest) = y
    BY Zenon, <1>3, <2>1, <2>3 DEF StringFromPty
  <2> QED BY Zenon, <2>5, <2>6, <2>7 DEF Follows
<1> QED BY <1>1, <1>2, <1>3

(* Behind the last clear that fep finds the child clears nothing with      *)
(* clr_eos.                                                                *)
LEMMA ClearEndOf ==
  ASSUME NEW out \in Seq(Token), NEW k, k = ClearEnd(out)
  PROVE  k \in 0 .. Len(out) /\ \A i \in k + 1 .. Len(out) : out[i].op # "eos"
<1>1. PICK ends : ends = {i \in DOMAIN out :
                            \/ out[i].op = "eos"
                            \/ i > 1 /\ out[i].op = "erase" /\ out[i - 1].op = "home"}
  OBVIOUS
<1>2. k = IF ends = {} THEN 0 ELSE CHOOSE i \in ends : \A j \in ends : j <= i
  BY <1>1 DEF ClearEnd
<1>3. /\ ends \in SUBSET (1 .. Len(out)) /\ Len(out) \in Nat
      /\ \A i \in 1 .. Len(out) : out[i].op = "eos" => i \in ends
  BY <1>1
<1>4. CASE ends = {}
  BY SMT, <1>2, <1>3, <1>4
<1>5. CASE ends # {}
  <2>1. Max(ends) \in ends /\ \A i \in ends : i <= Max(ends)
    BY <1>3, <1>5, MaxIn
  <2>2. \E i \in ends : \A j \in ends : j <= i
    BY Zenon, <2>1
  <2>3. k \in ends /\ \A j \in ends : j <= k
    BY Zenon, <1>2, <1>5, <2>2
  <2> QED BY SMT, <1>3, <2>3
<1> QED BY <1>4, <1>5

LEMMA SubSeqTokens ==
  ASSUME NEW out \in Seq(Token), NEW k \in 0 .. Len(out)
  PROVE  /\ SubSeq(out, 1, k) \in Seq(Token) /\ SubSeq(out, k + 1, Len(out)) \in Seq(Token)
         /\ k # 0 => SubSeq(out, 1, k) # <<>>
         /\ (\A i \in k + 1 .. Len(out) : ~Wipes(out[i])) => Calm(SubSeq(out, k + 1, Len(out)))
<1>1. /\ 1 \in Int /\ k \in Int /\ k + 1 \in Int /\ Len(out) \in Int
      /\ \A i \in 1 .. k : out[i] \in Token
      /\ \A i \in k + 1 .. Len(out) : out[i] \in Token
  BY SMT
<1>2. PICK str1, str2 : str1 = SubSeq(out, 1, k) /\ str2 = SubSeq(out, k + 1, Len(out))
  OBVIOUS
<1>3. str1 \in Seq(Token) /\ str2 \in Seq(Token)
  BY <1>1, <1>2, SubSeqProperties
<1>4. k # 0 => str1 # <<>>
  <2>1. Len(str1) = k
    BY <1>2
  <2> QED BY <2>1
<1>5. /\ Len(str2) = Len(out) - k
      /\ \A j \in 1 .. Len(str2) : str2[j] = out[k + j] /\ k + j \in k + 1 .. Len(out)
  BY <1>2
<1>6. (\A i \in k + 1 .. Len(out) : ~Wipes(out[i])) => Calm(str2)
  BY Zenon, <1>5 DEF Calm
<1> QED BY <1>2, <1>3, <1>4, <1>6

(* main_loop: all that the child has written at once. *)
LEMMA FromPtyFollows ==
  ASSUME NEW s, NEW out \in Seq(Token), State(s)
  PROVE  Follows(s, FromPty(s, out), out)
<1>1. PICK k : k = ClearEnd(out)
  OBVIOUS
<1>2. k \in 0 .. Len(out)
  BY <1>1, ClearEndOf
<1>3. CASE k = 0
  <2>1. FromPty(s, out) = StringFromPty(s, out, <<>>)
    BY Zenon, <1>1, <1>3 DEF FromPty
  <2>2. <<>> \in Seq(Token)
    OBVIOUS
  <2> QED BY Zenon, <2>1, <2>2, StringFromPtyFollows
<1>4. CASE k # 0
  <2>1. PICK str1, str2 : str1 = SubSeq(out, 1, k) /\ str2 = SubSeq(out, k + 1, Len(out))
    OBVIOUS
  <2>2. str1 \in Seq(Token) /\ str2 \in Seq(Token)
    BY <1>2, <2>1, SubSeqTokens
  <2>3. PICK z0 : z0 = StringFromPty(s, str1, str2)
    OBVIOUS
  <2>4. PICK z1 : z1 = StatusText(z0, z0.fep.statusText, z0.fep.statusAttr)
    OBVIOUS
  <2>5. PICK z2 : z2 = StringFromPty(z1, str2, <<>>)
    OBVIOUS
  <2>6. FromPty(s, out) = z2
    BY Zenon, <1>1, <1>4, <2>1, <2>3, <2>4, <2>5 DEF FromPty
  <2>7. Follows(s, z0, str1)
    BY <2>2, <2>3, StringFromPtyFollows
  <2>8. Back(z0, z1)
    BY <2>4, <2>7, StatusTextBack DEF Follows, State
  <2>9. Follows(z1, z2, str2)
    <3>1. <<>> \in Seq(Token)
      OBVIOUS
    <3> QED BY Zenon, <2>2, <2>5, <2>8, <3>1, StringFromPtyFollows DEF Back
  <2>10. ASSUME NEW p, Together(s.tty, p), s.tty.bot < s.fep.wsRow
         PROVE  Together(z2.tty, PlayAll(p, out))
    <3>1. Together(z0.tty, PlayAll(p, str1)) /\ z0.tty.bot < z0.fep.wsRow /\ State(z0)
      BY Zenon, <2>7, <2>10 DEF Follows
    <3>2. Together(z1.tty, PlayAll(p, str1)) /\ z1.tty.bot < z1.fep.wsRow
      <4>1. Together(z1.tty, PlayAll(p, str1))
        BY <2>8, <3>1, BackTogether
      <4> QED BY Zenon, <2>8, <3>1, <4>1 DEF Back
    <3>3. Together(z2.tty, PlayAll(PlayAll(p, str1), str2))
      BY Zenon, <2>9, <3>2 DEF Follows
    <3>4. PlayAll(p, out) = PlayAll(PlayAll(p, str1), str2)
      BY Zenon, <1>2, <2>1, PlayAllJoin
    <3> QED BY <3>3, <3>4
  <2>11. State(z2) /\ z2.fep.wsRow = s.fep.wsRow /\ z2.tty.bot = s.tty.bot
    BY <2>7, <2>8, <2>9 DEF Follows, Back
  <2> QED BY Zenon, <2>6, <2>10, <2>11 DEF Follows
<1> QED BY <1>3, <1>4

(* What the texts are like after it: the status text is not touched, if    *)
(* the child does not wipe it out, and the cursor text is drawn again.     *)
Passed(s, z, str) ==
  /\ LowAfter(s.tty, z.tty) /\ SameStatus(s, z)
  /\ Calm(str) => BelowAfter(s.tty, z.tty)
  /\ str # <<>> => CursorThere(z)
  /\ str = <<>> => z = s
  /\ s.fep.cursorText = <<>> => z.fep.cursorText = <<>> /\ Cleanly(s.tty, z.tty)

LEMMA BackLow ==
  ASSUME NEW s, NEW z, Back(s, z), Low(s.tty)
  PROVE  Low(z.tty)
  BY Zenon DEF Back, Low

LEMMA StringFromPtyPasses ==
  ASSUME NEW s, NEW str \in Seq(Token), NEW rest \in Seq(Token), State(s)
  PROVE  Passed(s, StringFromPty(s, str, rest), str)
<1>1. CASE str = <<>>
  <2>1. StringFromPty(s, str, rest) = s
    BY Zenon, <1>1 DEF StringFromPty
  <2>2. Passed(s, s, str)
    BY Zenon, <1>1 DEF Passed, LowAfter, SameStatus, BelowAfter, Below, Cleanly
  <2> QED BY <2>1, <2>2
<1>2. PICK z : z = WritePty(s, str, rest)
  OBVIOUS
<1>3. State(z) /\ z.tty.bot = s.tty.bot /\ ChildWrote(s, z, str)
  BY <1>2, WritePtyFollows DEF Follows
<1>4. CASE str # <<>> /\ s.fep.cursorText = <<>>
  <2>1. StringFromPty(s, str, rest) = z
    BY Zenon, <1>2, <1>4 DEF StringFromPty
  <2>2. CursorThere(z)
    <3>1. DOMAIN z.fep.cursorText = {}
      BY SMT, <1>3 DEF ChildWrote
    <3> QED BY Zenon, <3>1 DEF CursorThere
  <2> QED BY Zenon, <1>3, <1>4, <2>1, <2>2 DEF ChildWrote, Passed
<1>5. CASE str # <<>> /\ s.fep.cursorText # <<>>
  <2>1. PICK text \in Seq(Char), a \in Attribute :
          text = s.fep.cursorText /\ a = s.fep.cursorAttr
    BY DEF State
  <2>10. PICK y : y = CursorText(z, text, a)
    OBVIOUS
  <2>2. StringFromPty(s, str, rest) = y
    BY Zenon, <1>2, <1>5, <2>1, <2>10 DEF StringFromPty
  <2>3. PICK z0 : z0 = EraseCursorText(z)
    OBVIOUS
  <2>4. /\ Back(z, y) /\ SameStatus(z, y)
        /\ z.tty.cur.row <= z.tty.bot => Below(z.tty, y.tty)
        /\ y.fep.cursorText = text /\ (text # <<>> => y.fep.cursorAttr = a)
        /\ TextOver(z0, y, text, a)
    BY <1>3, <2>1, <2>3, <2>10, CursorTextBack
  <2>5. Back(z, z0)
    BY <1>3, <2>3, EraseCursorTextBack
  <2>6. CursorThere(y)
    <3>1. State(z0) /\ y.tty.cur = z0.tty.cur
      BY <2>4, <2>5 DEF Back
    <3> QED BY Zenon, <2>4, <3>1, CursorDrawn
  <2>7. LowAfter(s.tty, y.tty)
    BY Zenon, <1>3, <2>4, BackLow DEF ChildWrote, LowAfter
  <2>8. SameStatus(s, y)
    BY Zenon, <1>3, <2>4 DEF ChildWrote, SameStatus
  <2>9. Calm(str) => BelowAfter(s.tty, y.tty)
    <3>1. Low(s.tty) => Low(z.tty)
      BY <1>3 DEF ChildWrote, LowAfter
    <3>2. Low(s.tty) => Below(z.tty, y.tty)
      BY Zenon, <2>4, <3>1 DEF Low
    <3>3. Calm(str) => (Low(s.tty) => Below(s.tty, z.tty))
      BY <1>3 DEF ChildWrote, BelowAfter
    <3> QED BY Zenon, <1>3, <3>2, <3>3 DEF BelowAfter, Below
  <2> QED BY Zenon, <1>5, <2>2, <2>6, <2>7, <2>8, <2>9 DEF Passed
<1> QED BY <1>1, <1>4, <1>5

LEMMA FromPtyShows ==
  ASSUME NEW s, NEW out \in Seq(Token), State(s), out # <<>>,
         NEW k, k = ClearEnd(out), NEW z, z = FromPty(s, out)
  PROVE  /\ s.tty.bot < s.fep.wsRow /\ Low(s.tty) =>
              /\ Low(z.tty) /\ CursorThere(z)
              /\ /\ k # 0 \/ Status(s)
                 /\ \A i \in k + 1 .. Len(out) : out[i].op # "erase"
                 => Status(z)
         /\ s.fep.cursorText = <<>> => z.fep.cursorText = <<>> /\ Cleanly(s.tty, z.tty)
<1> DEFINE quiet == \A i \in k + 1 .. Len(out) : out[i].op # "erase"
<1>1. k \in 0 .. Len(out) /\ (quiet => \A i \in k + 1 .. Len(out) : ~Wipes(out[i]))
  BY ClearEndOf DEF Wipes
<1>2. State(z) /\ z.fep.wsRow = s.fep.wsRow
  BY FromPtyFollows DEF Follows
<1>3. CASE k = 0
  <2>1. z = StringFromPty(s, out, <<>>)
    BY Zenon, <1>3 DEF FromPty
  <2>2. Passed(s, z, out)
    <3>1. <<>> \in Seq(Token)
      OBVIOUS
    <3> QED BY Zenon, <2>1, <3>1, StringFromPtyPasses
  <2>3. quiet => Calm(out)
    <3>1. 0 + 1 = 1
      BY SMT
    <3> QED BY Zenon, <1>1, <1>3, <3>1 DEF Calm
  <2>4. ASSUME s.tty.bot < s.fep.wsRow, Low(s.tty), Status(s), quiet PROVE Status(z)
    <3>1. Below(s.tty, z.tty) /\ SameStatus(s, z)
      BY Zenon, <2>2, <2>3, <2>4 DEF Passed, BelowAfter
    <3> QED BY <1>2, <2>4, <3>1, StatusKept
  <2> QED BY Zenon, <1>3, <2>2, <2>4 DEF Passed, LowAfter
<1>4. CASE k # 0
  <2>1. PICK str1, str2 : str1 = SubSeq(out, 1, k) /\ str2 = SubSeq(out, k + 1, Len(out))
    OBVIOUS
  <2>2. /\ str1 \in Seq(Token) /\ str2 \in Seq(Token) /\ str1 # <<>>
        /\ quiet => Calm(str2)
    BY <1>1, <1>4, <2>1, SubSeqTokens
  <2>3. PICK z0 : z0 = StringFromPty(s, str1, str2)
    OBVIOUS
  <2>4. PICK text, a, z1 : /\ text = z0.fep.statusText /\ a = z0.fep.statusAttr
                           /\ z1 = StatusText(z0, text, a)
    OBVIOUS
  <2>5. z = StringFromPty(z1, str2, <<>>)
    BY Zenon, <1>4, <2>1, <2>3, <2>4 DEF FromPty
  <2>6. /\ State(z0) /\ z0.fep.wsRow = s.fep.wsRow /\ z0.tty.bot = s.tty.bot
        /\ Passed(s, z0, str1)
    BY <2>2, <2>3, StringFromPtyFollows, StringFromPtyPasses DEF Follows
  <2>7. text \in Seq(Char) /\ a \in Attribute
    BY <2>4, <2>6 DEF State
  <2>8. /\ Back(z0, z1) /\ z1.fep.statusText = text /\ z1.fep.statusAttr = a
        /\ SameCursorText(z0, z1) /\ StatusOver(z0, z1, text, a)
    BY Zenon, <2>4, <2>6, <2>7, StatusTextBack
  <2>9. State(z1) /\ z1.fep.wsRow = s.fep.wsRow /\ z1.tty.bot = s.tty.bot
        /\ z1.tty.cur = z0.tty.cur
    BY <2>6, <2>8 DEF Back
  <2>10. Passed(z1, z, str2)
    <3>1. <<>> \in Seq(Token)
      OBVIOUS
    <3> QED BY Zenon, <2>2, <2>5, <2>9, <3>1, StringFromPtyPasses
  <2>11. Status(z1)
    BY Zenon, <2>6, <2>7, <2>8, <2>9, StatusDrawn
  <2>12. ASSUME Low(s.tty) PROVE Low(z1.tty) /\ Low(z.tty)
    <3>1. Low(z1.tty)
      BY Zenon, <2>6, <2>8, <2>12, BackLow DEF Passed, LowAfter
    <3> QED BY Zenon, <2>10, <3>1 DEF Passed, LowAfter
  <2>13. ASSUME s.tty.bot < s.fep.wsRow, Low(s.tty) PROVE CursorThere(z)
    <3>1. CASE str2 # <<>>
      BY <2>10, <3>1 DEF Passed
    <3>2. CASE str2 = <<>>
      <4>1. z = z1 /\ CursorThere(z0)
        BY Zenon, <2>2, <2>6, <2>10, <3>2 DEF Passed
      <4>2. /\ z0.tty.cur.row \in 0 .. MaxRows - 1 /\ z0.tty.cur.row # z0.fep.wsRow
        <5>1. z0.tty.cur.row <= z0.tty.bot
          BY Zenon, <2>6, <2>13 DEF Passed, LowAfter, Low
        <5>2. PICK row, bot, wsRow : /\ row = z0.tty.cur.row /\ bot = z0.tty.bot
                                     /\ wsRow = z0.fep.wsRow
          OBVIOUS
        <5>3. row \in 0 .. MaxRows - 1 /\ bot \in Nat /\ wsRow \in Nat
          BY SMT, <2>6, <5>2, SizeAssumption DEF State, Shape, Tty, OnScreen
        <5>4. row <= bot /\ bot < wsRow
          BY <2>6, <2>13, <5>1, <5>2
        <5>5. row # wsRow
          BY SMT, <5>3, <5>4
        <5> QED BY <5>2, <5>3, <5>5
      <4>3. z1.tty.cells[z0.tty.cur.row] = z0.tty.cells[z0.tty.cur.row]
        BY Zenon, <2>8, <4>2 DEF StatusOver
      <4>4. CursorThere(z1)
        BY Zenon, <2>8, <2>9, <4>1, <4>3 DEF CursorThere, SameCursorText
      <4> QED BY <4>1, <4>4
    <3> QED BY <3>1, <3>2
  <2>14. ASSUME s.tty.bot < s.fep.wsRow, Low(s.tty), quiet PROVE Status(z)
    <3>1. Below(z1.tty, z.tty) /\ SameStatus(z1, z)
      BY Zenon, <2>2, <2>10, <2>12, <2>14 DEF Passed, BelowAfter
    <3>2. z1.tty.bot < z1.fep.wsRow /\ z.fep.wsRow = z1.fep.wsRow
      BY <1>2, <2>9, <2>14
    <3> QED BY <2>9, <2>11, <3>1, <3>2, StatusKept
  <2>15. ASSUME s.fep.cursorText = <<>>
         PROVE  z.fep.cursorText = <<>> /\ Cleanly(s.tty, z.tty)
    <3>1. z0.fep.cursorText = <<>> /\ Cleanly(s.tty, z0.tty)
      BY <2>6, <2>15 DEF Passed
    <3>2. z1.fep.cursorText = <<>>
      BY <2>8, <3>1 DEF SameCursorText
    <3>3. Cleanly(z0.tty, z1.tty)
      <4>1. NoneNew(z0.tty, z1.tty)
        BY <2>6, <2>8, StatusOverClean
      <4> QED BY <4>1, NoneNewClean
    <3>4. z.fep.cursorText = <<>> /\ Cleanly(z1.tty, z.tty)
      BY <2>10, <3>2 DEF Passed
    <3> QED BY Zenon, <3>1, <3>3, <3>4 DEF Cleanly
  <2> QED BY Zenon, <2>12, <2>13, <2>14, <2>15
<1> QED BY <1>3, <1>4

-----------------------------------------------------------------------------
(* change_scroll_region, and what sets the screen up, resizes it and       *)
(* leaves it.                                                              *)
HasRegion(t, u, end) ==
  /\ Tty(u) /\ u.rows = t.rows /\ u.bot = Lesser(end, t.rows - 1) /\ u.cur = Home0
  /\ u.slot = t.slot /\ u.astray = t.astray /\ u.sgr = t.sgr
  /\ SameCells(t, u)

LEMMA ScrollRegionTty ==
  ASSUME NEW t, Tty(t), NEW end \in Nat
  PROVE  HasRegion(t, ScrollRegion(t, end), end)
<1>1. 0 \in 0 .. t.rows - 1 /\ 0 \in 0 .. Cols
  BY SMT, SizeAssumption DEF Tty
<1>2. PICK u : u = Goto(t, 0, 0)
  OBVIOUS
<1>3. Tty(u) /\ Still(t, u) /\ SameCells(t, u) /\ u.cur = Home0
  BY <1>1, <1>2, GotoTty DEF Home0
<1>4. PICK bot : bot = Lesser(end, t.rows - 1)
  OBVIOUS
<1>5. bot \in 0 .. t.rows - 1
  BY SMT, <1>4 DEF Lesser, Tty
<1>6. PICK v : v = [u EXCEPT !.bot = bot] /\ v = ScrollRegion(t, end)
  BY Zenon, <1>2, <1>4 DEF ScrollRegion
<1>7. /\ Tty(v) /\ v.rows = u.rows /\ v.bot = bot /\ v.cur = u.cur
      /\ v.slot = u.slot /\ v.astray = u.astray /\ v.sgr = u.sgr
      /\ v.cells = u.cells /\ v.spilled = u.spilled
  BY SMT, <1>3, <1>5, <1>6 DEF Tty, OnScreen, Still, IsRecord
<1> QED BY Zenon, <1>3, <1>4, <1>6, <1>7 DEF Still, SameCells, HasRegion

LEMMA HomeWhere ==
  Home0 \in Where /\ Unknown \in Where
  BY SMT, SizeAssumption DEF Home0, Unknown, Where

LEMMA RegionState ==
  ASSUME NEW s, State(s), NEW end \in Nat
  PROVE  /\ State(ChangeScrollRegion(s, end))
         /\ ChangeScrollRegion(s, end).fep.wsRow = s.fep.wsRow
         /\ SameCursorText(s, ChangeScrollRegion(s, end))
         /\ ChangeScrollRegion(s, end).tty = ScrollRegion(s.tty, end)
<1>1. PICK u : u = ScrollRegion(s.tty, end)
  OBVIOUS
<1>2. Tty(u) /\ u.rows = s.tty.rows
  BY <1>1, ScrollRegionTty DEF State, Shape, HasRegion
<1>3. PICK z : z = [s EXCEPT !.tty = u, !.fep.cursor = Home0]
               /\ z = ChangeScrollRegion(s, end)
  BY Zenon, <1>1 DEF ChangeScrollRegion
<1>4. DOMAIN s = {"tty", "fep"} /\ DOMAIN s.fep = FepFields
  BY DEF State, Shape
<1>5. /\ DOMAIN z = {"tty", "fep"} /\ z.tty = u
      /\ z.fep = [s.fep EXCEPT !.cursor = Home0]
  BY SMT, <1>3, <1>4
<1>6. /\ DOMAIN z.fep = FepFields /\ z.fep.cursor = Home0
      /\ z.fep.wsRow = s.fep.wsRow /\ z.fep.cursorSave = s.fep.cursorSave
      /\ z.fep.statusText = s.fep.statusText /\ z.fep.statusAttr = s.fep.statusAttr
      /\ z.fep.cursorText = s.fep.cursorText /\ z.fep.cursorAttr = s.fep.cursorAttr
      /\ z.fep.sgrCodes = s.fep.sgrCodes
      /\ z.fep.attr = s.fep.attr /\ z.fep.attrPty = s.fep.attrPty
  BY SMT, <1>4, <1>5 DEF FepFields
<1>7. Home0 \in Where
  BY HomeWhere
<1>8. State(z) /\ SameCursorText(s, z)
  <2>1. IsRecord(z.fep)
    BY Zenon, <1>5 DEF IsRecord
  <2> QED BY Zenon, <1>2, <1>5, <1>6, <1>7, <2>1 DEF State, Shape, SameCursorText
<1> QED BY Zenon, <1>1, <1>3, <1>5, <1>6, <1>8

LEMMA NewTtyTogether ==
  ASSUME NEW rows \in 1 .. MaxRows
  PROVE  /\ Tty(NewTty(rows)) /\ NewTty(rows).rows = rows /\ NewTty(rows).bot = rows - 1
         /\ NewTty(rows).cur = Home0 /\ NewTty(rows).astray = FALSE
         /\ NewTty(rows).slot.cur = Home0 /\ NewTty(rows).slot.sgr = EmptyAttr
         /\ NewTty(rows).sgr = EmptyAttr
         /\ NewTty(rows).cells = [r \in 0 .. MaxRows - 1 |-> BlankRow]
<1>1. PICK cells, t :
        /\ t = NewTty(rows)
        /\ t = [rows |-> rows, bot |-> rows - 1, cells |-> cells, cur |-> Home0,
                sgr |-> EmptyAttr,
                slot |-> [cur |-> Home0, sgr |-> EmptyAttr, who |-> "child"],
                spilled |-> FALSE, astray |-> FALSE]
        /\ cells = [r \in 0 .. MaxRows - 1 |-> BlankRow]
  BY Zenon DEF NewTty
<1>2. Home0 \in [row : 0 .. rows - 1, col : 0 .. Cols] /\ rows - 1 \in 0 .. rows - 1
  BY SMT, SizeAssumption DEF Home0
<1>3. Screenful(cells)
  BY <1>1, BlankCells DEF Screenful
<1>4. /\ Tty(t) /\ t.rows = rows /\ t.bot = rows - 1
      /\ t.cur = Home0 /\ t.astray = FALSE /\ t.slot.cur = Home0 /\ t.cells = cells
      /\ t.slot.sgr = EmptyAttr /\ t.sgr = EmptyAttr
  <2>1. IsRecord(t)
    BY Zenon, <1>1 DEF IsRecord
  <2>2. t.slot = [cur |-> Home0, sgr |-> EmptyAttr, who |-> "child"]
    BY SMT, <1>1
  <2>3. IsRecord(t.slot)
    BY Zenon, <2>2 DEF IsRecord
  <2> QED BY SMT, <1>1, <1>2, <1>3, <2>1, <2>3, EmptyAttrType DEF Tty, OnScreen
<1> QED BY Zenon, <1>1, <1>4

(* _fep_output_init_screen *)
LEMMA InitScreenTogether ==
  ASSUME NEW rows \in 2 .. MaxRows
  PROVE  /\ State(InitScreen(rows))
         /\ InitScreen(rows).fep.wsRow = rows - 1
         /\ Together(InitScreen(rows).tty, NewTty(rows - 1))
         /\ Low(InitScreen(rows).tty) /\ Clean(InitScreen(rows).tty)
         /\ Status(InitScreen(rows)) /\ InitScreen(rows).fep.cursorText = <<>>
<1>1. PICK zero : zero = [type |-> "underline", value |-> 0, start |-> 0, end |-> 0]
  OBVIOUS
<1>2. zero \in Attribute
  BY <1>1 DEF Attribute, TypeNumber
<1>3. PICK s : s = [tty |-> NewTty(rows),
                    fep |-> [wsRow |-> rows - 1, sgrCodes |-> GetSgrCodes,
                             attr |-> EmptyAttr, attrPty |-> EmptyAttr,
                             cursor |-> Home0, cursorSave |-> Home0,
                             cursorText |-> <<>>, cursorAttr |-> zero,
                             statusText |-> <<>>, statusAttr |-> zero]]
  OBVIOUS
<1>4. PICK z : z = ChangeScrollRegion(s, rows - 2)
  OBVIOUS
<1>5. PICK y : y = [z EXCEPT !.tty = EraseAll(Goto(@, 0, 0)), !.fep.cursor = Unknown]
  OBVIOUS
<1>6. InitScreen(rows) = StatusText(y, <<>>, zero)
  BY Zenon, <1>1, <1>3, <1>4, <1>5 DEF InitScreen
<1>7. /\ Tty(NewTty(rows)) /\ NewTty(rows).rows = rows /\ NewTty(rows).bot = rows - 1
      /\ NewTty(rows).cur = Home0 /\ NewTty(rows).astray = FALSE
      /\ NewTty(rows).slot.cur = Home0 /\ NewTty(rows).slot.sgr = EmptyAttr
      /\ NewTty(rows).sgr = EmptyAttr
  <2>1. rows \in 1 .. MaxRows
    BY SMT, SizeAssumption
  <2> QED BY <2>1, NewTtyTogether
<1>8. State(s) /\ s.tty = NewTty(rows) /\ s.fep.wsRow = rows - 1 /\ s.fep.cursorText = <<>>
  <2>1. /\ DOMAIN s = {"tty", "fep"} /\ s.tty = NewTty(rows)
        /\ DOMAIN s.fep = FepFields /\ s.fep.wsRow = rows - 1
        /\ s.fep.cursor = Home0 /\ s.fep.cursorSave = Home0
        /\ s.fep.cursorText = <<>> /\ s.fep.cursorAttr = zero
        /\ s.fep.statusText = <<>> /\ s.fep.statusAttr = zero
        /\ s.fep.sgrCodes = GetSgrCodes
        /\ s.fep.attr = EmptyAttr /\ s.fep.attrPty = EmptyAttr
    BY SMT, <1>3 DEF FepFields
  <2>2. Home0 \in Where /\ <<>> \in Seq(Char) /\ EmptyAttr \in SgrAttr
    BY HomeWhere, EmptyAttrType
  <2>3. rows - 1 \in Nat \ {0} /\ rows = (rows - 1) + 1
    BY SMT
  <2>4. IsRecord(s.fep)
    <3>1. s.fep = [wsRow |-> rows - 1, sgrCodes |-> GetSgrCodes,
                   attr |-> EmptyAttr, attrPty |-> EmptyAttr,
                   cursor |-> Home0, cursorSave |-> Home0,
                   cursorText |-> <<>>, cursorAttr |-> zero,
                   statusText |-> <<>>, statusAttr |-> zero]
      BY SMT, <1>3
    <3> QED BY Zenon, <3>1 DEF IsRecord
  <2> QED BY Zenon, <1>2, <1>7, <2>1, <2>2, <2>3, <2>4 DEF State, Shape
<1>9. rows - 2 \in Nat /\ Lesser(rows - 2, rows - 1) = rows - 2
  BY SMT DEF Lesser
<1>10. /\ State(z) /\ z.fep.wsRow = rows - 1 /\ z.tty = ScrollRegion(NewTty(rows), rows - 2)
       /\ z.fep.cursorText = <<>>
  BY <1>4, <1>8, <1>9, RegionState DEF SameCursorText
<1>11. /\ Tty(z.tty) /\ z.tty.rows = rows /\ z.tty.bot = rows - 2
       /\ z.tty.astray = FALSE /\ z.tty.slot.cur = Home0
       /\ z.tty.slot.sgr = EmptyAttr /\ z.tty.sgr = EmptyAttr
  <2>1. PICK t : t = NewTty(rows)
    OBVIOUS
  <2>2. /\ Tty(z.tty) /\ z.tty.rows = t.rows
        /\ z.tty.bot = Lesser(rows - 2, t.rows - 1) /\ z.tty.astray = t.astray
        /\ z.tty.slot = t.slot /\ z.tty.sgr = t.sgr
    <3>1. HasRegion(t, ScrollRegion(t, rows - 2), rows - 2)
      BY <1>7, <1>9, <2>1, ScrollRegionTty
    <3> QED BY Zenon, <1>10, <2>1, <3>1 DEF HasRegion
  <2> QED BY Zenon, <1>7, <1>9, <2>1, <2>2
<1>12. PICK u, v : u = Goto(z.tty, 0, 0) /\ v = EraseAll(u)
  OBVIOUS
<1>13. 0 \in 0 .. z.tty.rows - 1 /\ 0 \in 0 .. Cols
  BY SMT, <1>11, SizeAssumption
<1>14. Tty(u) /\ Still(z.tty, u) /\ u.cur = Home0
  BY <1>11, <1>12, <1>13, GotoTty DEF Home0
<1>15. /\ Tty(v) /\ Still(u, v) /\ v.cur = Home0
       /\ \A r \in 0 .. MaxRows - 1 : v.cells[r] = BlankRow
  <2>1. /\ Tty(v) /\ Still(u, v) /\ v.cur = u.cur
        /\ v.cells = [r \in 0 .. MaxRows - 1 |-> BlankRow]
    BY Zenon, <1>12, <1>14, EraseAllTty
  <2> QED BY Zenon, <1>14, <2>1
<1>16. State(y) /\ y.tty = v /\ y.fep.wsRow = rows - 1 /\ y.fep.cursorText = <<>>
  <2>1. y = [z EXCEPT !.tty = v, !.fep.cursor = Unknown]
    BY Zenon, <1>5, <1>12
  <2>2. DOMAIN z = {"tty", "fep"} /\ DOMAIN z.fep = FepFields
    BY <1>10 DEF State, Shape
  <2>3. /\ DOMAIN y = {"tty", "fep"} /\ y.tty = v
        /\ y.fep = [z.fep EXCEPT !.cursor = Unknown]
    BY SMT, <2>1, <2>2
  <2>4. /\ DOMAIN y.fep = FepFields /\ y.fep.cursor = Unknown
        /\ y.fep.wsRow = z.fep.wsRow /\ y.fep.cursorSave = z.fep.cursorSave
        /\ y.fep.statusText = z.fep.statusText /\ y.fep.statusAttr = z.fep.statusAttr
        /\ y.fep.cursorText = z.fep.cursorText /\ y.fep.cursorAttr = z.fep.cursorAttr
        /\ y.fep.sgrCodes = z.fep.sgrCodes
        /\ y.fep.attr = z.fep.attr /\ y.fep.attrPty = z.fep.attrPty
    BY SMT, <2>2, <2>3 DEF FepFields
  <2>5. Unknown \in Where /\ v.rows = z.tty.rows
    BY <1>14, <1>15, HomeWhere DEF Still
  <2>6. IsRecord(y.fep)
    BY Zenon, <2>3 DEF IsRecord
  <2> QED BY Zenon, <1>10, <1>15, <2>3, <2>4, <2>5, <2>6 DEF State, Shape
<1>17. PICK x : x = StatusText(y, <<>>, zero)
  OBVIOUS
<1>18. /\ Back(y, x) /\ SameCursorText(y, x)
       /\ StatusOver(y, x, <<>>, zero) /\ x.fep.statusText = <<>> /\ x.fep.statusAttr = zero
  <2>1. <<>> \in Seq(Char)
    OBVIOUS
  <2>2. PICK text \in Seq(Char) : text = <<>> /\ x = StatusText(y, text, zero)
    BY <1>17, <2>1
  <2>3. /\ Back(y, x) /\ SameCursorText(y, x)
        /\ StatusOver(y, x, text, zero) /\ x.fep.statusText = text /\ x.fep.statusAttr = zero
    <3>1. State(y) /\ x = StatusText(y, text, zero)
      BY <1>16, <2>2
    <3> QED BY <1>2, <3>1, StatusTextBack
  <2> QED BY Zenon, <2>2, <2>3
<1>19. State(x) /\ x.fep.wsRow = rows - 1
  BY <1>16, <1>18 DEF Back
<1>20. Together(v, NewTty(rows - 1))
  <2>1. PICK p : p = NewTty(rows - 1)
    OBVIOUS
  <2>2. /\ rows - 1 \in 1 .. MaxRows /\ (rows - 1) - 1 = rows - 2
        /\ rows - 1 = (rows - 2) + 1
    BY SMT, SizeAssumption
  <2>3. /\ Tty(p) /\ p.rows = rows - 1 /\ p.bot = rows - 2 /\ p.cur = Home0
        /\ p.slot.cur = Home0 /\ p.cells = [r \in 0 .. MaxRows - 1 |-> BlankRow]
        /\ p.slot.sgr = EmptyAttr /\ p.sgr = EmptyAttr
    BY <2>1, <2>2, NewTtyTogether
  <2>4. /\ v.bot = rows - 2 /\ v.slot.cur = Home0
        /\ v.slot.sgr = EmptyAttr /\ v.sgr = EmptyAttr
    BY <1>11, <1>14, <1>15 DEF Still
  <2>5. Alike(v, p)
    <3>1. \A r \in 0 .. v.bot : r \in 0 .. MaxRows - 1
      BY SMT, <1>15, SizeAssumption DEF Tty
    <3>2. \A r \in 0 .. MaxRows - 1 : p.cells[r] = BlankRow
      BY Zenon, <2>3
    <3>3. \A r \in 0 .. v.bot, c \in 0 .. Cols - 1 :
            CellAlike(v.cells[r][c], p.cells[r][c])
      BY Zenon, <1>15, <3>1, <3>2, SelfAlike
    <3> QED BY Zenon, <2>3, <2>4, <3>3, SelfAlike DEF Alike
  <2> QED BY Zenon, <1>15, <2>1, <2>2, <2>3, <2>4, <2>5, SelfAlike DEF Together
<1>21. Together(x.tty, NewTty(rows - 1))
  <2>1. y.tty.bot < y.fep.wsRow
    <3>1. y.tty.bot = rows - 2
      BY <1>11, <1>14, <1>15, <1>16 DEF Still
    <3> QED BY SMT, <1>16, <3>1
  <2> QED BY <1>16, <1>18, <1>20, <2>1, BackTogether
<1>22. Low(x.tty)
  <2>1. /\ y.tty.cur.row = 0 /\ y.tty.slot.cur.row = 0 /\ 0 <= y.tty.bot
    <3>1. y.tty.cur = Home0 /\ y.tty.slot.cur = Home0 /\ y.tty.bot = rows - 2
      BY <1>11, <1>14, <1>15, <1>16 DEF Still
    <3> QED BY SMT, <3>1 DEF Home0
  <2> QED BY Zenon, <1>18, <2>1, BackLow DEF Low
<1>23. Clean(x.tty)
  <2>1. Clean(y.tty)
    BY Zenon, <1>15, <1>16, BlankClean DEF Clean
  <2>2. NoneNew(y.tty, x.tty)
    BY <1>16, <1>18, StatusOverClean
  <2> QED BY <2>1, <2>2, NoneNewClean DEF Cleanly
<1>24. Status(x)
  <2>1. <<>> \in Seq(Char)
    OBVIOUS
  <2> QED BY Zenon, <1>2, <1>16, <1>18, <1>19, <2>1, StatusDrawn
<1>25. x.fep.cursorText = <<>>
  BY <1>16, <1>18 DEF SameCursorText
<1> QED BY <1>6, <1>17, <1>19, <1>21, <1>22, <1>23, <1>24, <1>25

(* _fep_output_set_screen_size leaves the cursor in the corner: the second *)
(* of the positions that it saves is the one that it restores.             *)
LEMMA SetScreenSizeHome ==
  ASSUME NEW s, State(s), NEW row \in Nat \ {0}
  PROVE  /\ State(SetScreenSize(s, row))
         /\ SetScreenSize(s, row).fep.wsRow = s.fep.wsRow
         /\ SetScreenSize(s, row).tty.cur = Home0
         /\ SetScreenSize(s, row).tty.slot.cur = Home0
         /\ Status(SetScreenSize(s, row)) /\ Cleanly(s.tty, SetScreenSize(s, row).tty)
<1>1. PICK z0 : z0 = Save(s)
  OBVIOUS
<1>2. PICK z : z = ChangeScrollRegion(z0, row - 1)
  OBVIOUS
<1>3. PICK y : y = StatusText(z, z.fep.statusText, z.fep.statusAttr)
  OBVIOUS
<1>4. SetScreenSize(s, row) = Restore(y)
  BY Zenon, <1>1, <1>2, <1>3 DEF SetScreenSize
<1>5. State(z0) /\ z0.fep.wsRow = s.fep.wsRow
  BY <1>1, SaveState
<1>6. row - 1 \in Nat
  BY SMT
<1>7. State(z) /\ z.fep.wsRow = s.fep.wsRow /\ z.tty = ScrollRegion(z0.tty, row - 1)
  BY <1>2, <1>5, <1>6, RegionState
<1>8. z.tty.cur = Home0 /\ SameCells(z0.tty, z.tty)
  <2>1. Tty(z0.tty)
    BY <1>5 DEF State, Shape
  <2>2. HasRegion(z0.tty, ScrollRegion(z0.tty, row - 1), row - 1)
    BY <1>6, <2>1, ScrollRegionTty
  <2> QED BY Zenon, <1>7, <2>2 DEF HasRegion
<1>9. /\ Back(z, y) /\ y.tty.slot.cur = Home0 /\ Status(y) /\ NoneNew(z.tty, y.tty)
  <2>1. PICK text \in Seq(Char), a \in Attribute :
          text = z.fep.statusText /\ a = z.fep.statusAttr /\ y = StatusText(z, text, a)
    BY <1>3, <1>7 DEF State
  <2>2. /\ Back(z, y) /\ y.tty.slot.cur = z.tty.cur
        /\ y.fep.statusText = text /\ y.fep.statusAttr = a /\ StatusOver(z, y, text, a)
    BY <1>7, <2>1, StatusTextBack
  <2>3. Status(y)
    BY Zenon, <2>2, StatusDrawn DEF Back
  <2>4. NoneNew(z.tty, y.tty)
    BY <1>7, <2>2, StatusOverClean
  <2> QED BY <1>8, <2>2, <2>3, <2>4
<1>10. State(y) /\ y.fep.wsRow = s.fep.wsRow
  BY <1>7, <1>9 DEF Back
<1>11. /\ State(Restore(y)) /\ Restore(y).fep.wsRow = y.fep.wsRow
       /\ Restore(y).tty = RestoreCursor(y.tty, "fep")
  BY <1>10, RestoreState
<1>12. /\ RestoreCursor(y.tty, "fep").cur = y.tty.slot.cur
       /\ RestoreCursor(y.tty, "fep").slot = y.tty.slot
  BY <1>10, SlotTty DEF State, Shape
<1>13. PICK x : x = Restore(y)
  OBVIOUS
<1>14. SameCells(s.tty, z0.tty) /\ SameCells(y.tty, x.tty)
  <2>1. Tty(s.tty) /\ z0.tty = SaveCursor(s.tty, "fep") /\ Tty(y.tty)
    BY <1>1, <1>10, SaveState DEF State, Shape
  <2>2. x.tty = RestoreCursor(y.tty, "fep")
    BY <1>11, <1>13
  <2> QED BY Zenon, <2>1, <2>2, SlotTty
<1>15. Status(x)
  <2>1. x.tty.cells[y.fep.wsRow] = y.tty.cells[y.fep.wsRow]
    BY <1>14 DEF SameCells
  <2>2. x.fep.wsRow = y.fep.wsRow /\ SameStatus(y, x)
    BY <1>10, <1>13, RestoreState
  <2> QED BY Zenon, <1>9, <2>1, <2>2, StatusSame
<1>16. Cleanly(s.tty, x.tty)
  <2>1. Cleanly(s.tty, z0.tty) /\ Cleanly(z0.tty, z.tty) /\ Cleanly(y.tty, x.tty)
    BY <1>8, <1>14, SameClean
  <2>2. Cleanly(z.tty, y.tty)
    BY <1>9, NoneNewClean
  <2> QED BY Zenon, <2>1, <2>2 DEF Cleanly
<1> QED BY Zenon, <1>4, <1>9, <1>10, <1>11, <1>12, <1>13, <1>15, <1>16

LEMMA ResizeState ==
  ASSUME NEW s, State(s), NEW rows \in 2 .. MaxRows,
         NEW z, z = [tty |-> ResizeTty(s.tty, rows), fep |-> [s.fep EXCEPT !.wsRow = rows - 1]]
  PROVE  State(z) /\ z.fep.wsRow = rows - 1 /\ Cleanly(s.tty, z.tty)
<1>1. Tty(s.tty) /\ DOMAIN s.fep = FepFields
  BY DEF State, Shape
<1>2. PICK cells, u :
        /\ u = [s.tty EXCEPT !.rows = rows, !.bot = rows - 1,
                             !.cur.row = Lesser(@, rows - 1),
                             !.slot.cur.row = Lesser(@, rows - 1),
                             !.cells = cells]
        /\ u = ResizeTty(s.tty, rows)
        /\ cells = [r \in DOMAIN s.tty.cells |->
                      IF r < rows THEN s.tty.cells[r] ELSE BlankRow]
  BY Zenon DEF ResizeTty
<1>3. PICK r1, r2 : r1 = Lesser(s.tty.cur.row, rows - 1) /\ r2 = Lesser(s.tty.slot.cur.row, rows - 1)
  OBVIOUS
<1>4. r1 \in 0 .. rows - 1 /\ r2 \in 0 .. rows - 1 /\ rows - 1 \in 0 .. rows - 1
  BY SMT, <1>1, <1>3 DEF Lesser, Tty, OnScreen
<1>5. u = [s.tty EXCEPT !.rows = rows, !.bot = rows - 1, !.cur.row = r1,
                        !.slot.cur.row = r2, !.cells = cells]
  BY Zenon, <1>2, <1>3
<1>6. Tty(u) /\ u.rows = rows
  <2>1. /\ DOMAIN s.tty.cells = 0 .. MaxRows - 1
        /\ \A r \in 0 .. MaxRows - 1 : s.tty.cells[r] \in Row
    BY <1>1 DEF Tty, Screenful
  <2>2. Screenful(cells)
    BY <1>2, <2>1, BlankCells DEF Screenful
  <2>3. rows \in 1 .. MaxRows
    BY SMT, SizeAssumption
  <2>4. IsRecord(u)
    BY Zenon, <1>5 DEF IsRecord
  <2>5. u.slot = [s.tty.slot EXCEPT !.cur.row = r2]
    BY SMT, <1>1, <1>5 DEF Tty
  <2>6. IsRecord(u.slot)
    BY Zenon, <2>5 DEF IsRecord
  <2> QED BY SMT, <1>1, <1>4, <1>5, <2>2, <2>3, <2>4, <2>6 DEF Tty, OnScreen
<1>7. DOMAIN z = {"tty", "fep"} /\ z.tty = u /\ z.fep = [s.fep EXCEPT !.wsRow = rows - 1]
  BY SMT, <1>2
<1>8. /\ DOMAIN z.fep = FepFields /\ z.fep.wsRow = rows - 1
      /\ z.fep.cursor = s.fep.cursor /\ z.fep.cursorSave = s.fep.cursorSave
      /\ z.fep.statusText = s.fep.statusText /\ z.fep.statusAttr = s.fep.statusAttr
      /\ z.fep.cursorText = s.fep.cursorText /\ z.fep.cursorAttr = s.fep.cursorAttr
      /\ z.fep.sgrCodes = s.fep.sgrCodes
      /\ z.fep.attr = s.fep.attr /\ z.fep.attrPty = s.fep.attrPty
  BY SMT, <1>1, <1>7 DEF FepFields
<1>9. rows - 1 \in Nat \ {0} /\ rows = (rows - 1) + 1
  BY SMT
<1>10. Cleanly(s.tty, u)
  <2>1. u.spilled = s.tty.spilled /\ u.cells = cells
    BY SMT, <1>1, <1>5 DEF Tty
  <2>2. DOMAIN s.tty.cells = 0 .. MaxRows - 1
    BY <1>1 DEF Tty, Screenful
  <2>3. \A r \in 0 .. MaxRows - 1 : cells[r] \in {s.tty.cells[r], BlankRow}
    BY <1>2, <2>2
  <2> QED BY Zenon, <2>1, <2>3, BlankClean DEF Cleanly, Clean
<1>11. IsRecord(z.fep)
  BY Zenon, <1>7 DEF IsRecord
<1> QED BY Zenon, <1>6, <1>7, <1>8, <1>9, <1>10, <1>11 DEF State, Shape

(* done *)
LEMMA LeaveScreenState ==
  ASSUME NEW s, State(s)
  PROVE  /\ State(LeaveScreen(s)) /\ Cleanly(s.tty, LeaveScreen(s).tty)
         /\ LeaveScreen(s).fep.cursorText = s.fep.cursorText
<1>1. PICK w, z : w = ChangeScrollRegion(s, s.fep.wsRow) /\ z = Restore(w)
  OBVIOUS
<1>2. s.fep.wsRow \in Nat /\ Tty(s.tty)
  BY DEF State, Shape
<1>3. /\ State(w) /\ w.fep.cursorText = s.fep.cursorText /\ SameCells(s.tty, w.tty)
  <2>1. /\ State(w) /\ SameCursorText(s, w) /\ w.tty = ScrollRegion(s.tty, s.fep.wsRow)
    BY <1>1, <1>2, RegionState
  <2>2. HasRegion(s.tty, ScrollRegion(s.tty, s.fep.wsRow), s.fep.wsRow)
    BY <1>2, ScrollRegionTty
  <2> QED BY Zenon, <2>1, <2>2 DEF HasRegion, SameCursorText
<1>4. /\ State(z) /\ z.fep.cursorText = s.fep.cursorText /\ SameCells(w.tty, z.tty)
  <2>1. State(z) /\ SameCursorText(w, z) /\ z.tty = RestoreCursor(w.tty, "fep")
    BY <1>1, <1>3, RestoreState
  <2>2. Tty(w.tty)
    BY <1>3 DEF State, Shape
  <2>3. SameCells(w.tty, z.tty)
    BY Zenon, <2>1, <2>2, SlotTty
  <2> QED BY <1>3, <2>1, <2>3 DEF SameCursorText
<1>5. Cleanly(s.tty, z.tty)
  BY Zenon, <1>3, <1>4 DEF SameCells, Cleanly, Clean
<1>6. PICK y : y = [z EXCEPT !.tty = LineFeed(@)]
  OBVIOUS
<1>7. Tty(z.tty) /\ DOMAIN z = {"tty", "fep"}
  BY <1>4 DEF State, Shape
<1>8. y.tty = LineFeed(z.tty) /\ y.fep = z.fep /\ DOMAIN y = {"tty", "fep"}
  BY SMT, <1>6, <1>7
<1>9. State(y) /\ y.fep.cursorText = s.fep.cursorText
  <2>1. Tty(LineFeed(z.tty)) /\ LineFeed(z.tty).rows = z.tty.rows
    BY <1>7, LineFeedTty DEF Still
  <2> QED BY <1>4, <1>8, <2>1 DEF State, Shape
<1>10. Cleanly(s.tty, y.tty)
  <2>1. Cleanly(z.tty, LineFeed(z.tty))
    BY Zenon, <1>7, LineFeedTty, ScrolledClean
  <2> QED BY Zenon, <1>5, <1>8, <2>1 DEF Cleanly
<1>11. LeaveScreen(s) \in {y, z}
  BY Zenon, <1>1, <1>6 DEF LeaveScreen
<1> QED BY <1>4, <1>5, <1>9, <1>10, <1>11

-----------------------------------------------------------------------------
(* The inductive invariant: both terminals have their cursors on their     *)
(* screens, and while the scroll region is right they are together.  That  *)
(* the cursor is in the same place is not enough: the child may restore    *)
(* what it has saved, and it is the scroll region that decides where a     *)
(* line feed goes.                                                         *)
ScreenInv ==
  /\ State(Now)
  /\ Tty(plain)
  /\ RegionRight => Together(tty, plain)

LEMMA SizesRows ==
  ASSUME NEW rows \in Sizes
  PROVE  rows \in 2 .. MaxRows
  BY InputsAssumption

LEMMA ReadAttributeType ==
  ASSUME NEW a \in Attributes
  PROVE  ReadAttributeArg(a) \in Attribute
<1>1. a \in Attribute
  BY InputsAssumption
<1>2. a.value \in Nat /\ a.start \in Nat /\ a.end \in Nat
  BY <1>1 DEF Attribute
<1>3. a.value % 256 \in Nat /\ a.start % 256 \in Nat /\ a.end % 256 \in Nat
  BY SMT, <1>2
<1>4. PICK v \in Nat, i \in Nat, j \in Nat :
        v = a.value % 256 /\ i = a.start % 256 /\ j = a.end % 256
  BY Zenon, <1>3
<1>5. ReadAttributeArg(a) = [a EXCEPT !.value = v, !.start = i, !.end = j]
  BY Zenon, <1>4 DEF ReadAttributeArg
<1>6. [a EXCEPT !.value = v, !.start = i, !.end = j] \in Attribute
  BY Zenon, <1>1 DEF Attribute
<1> QED BY <1>5, <1>6

LEMMA ScreenInit ==
  ASSUME Init
  PROVE  ScreenInv
<1>1. PICK rows \in Sizes : /\ tty = InitScreen(rows).tty /\ fep = InitScreen(rows).fep
                            /\ plain = NewTty(rows - 1)
  BY DEF Init
<1>2. rows \in 2 .. MaxRows
  BY SizesRows
<1>3. State(InitScreen(rows)) /\ Together(InitScreen(rows).tty, NewTty(rows - 1))
  BY <1>2, InitScreenTogether
<1>4. State(Now)
  <2>1. Now.tty = tty /\ Now.fep = fep /\ DOMAIN Now = {"tty", "fep"}
    BY DEF Now
  <2> QED BY Zenon, <1>1, <1>3, <2>1 DEF State, Shape
<1>5. Together(tty, plain)
  BY <1>1, <1>3
<1>6. Tty(plain)
  BY <1>5 DEF Together
<1> QED BY <1>4, <1>5, <1>6 DEF ScreenInv

(* A step that has the screen s at its end.                                *)
LEMMA StepNow ==
  ASSUME NEW kind, NEW s, Step(kind, s), State(s)
  PROVE  State(Now)' /\ tty' = s.tty /\ fep' = s.fep /\ last' = kind /\ last # "done"
<1>1. tty' = s.tty /\ fep' = s.fep /\ last' = kind /\ last # "done"
  BY DEF Step
<1>2. Now'.tty = s.tty /\ Now'.fep = s.fep /\ DOMAIN Now' = {"tty", "fep"}
  BY <1>1 DEF Now
<1>3. State(Now')
  BY Zenon, <1>2 DEF State, Shape
<1> QED BY <1>1, <1>3 DEF State, Shape, Tty, OnScreen, Screenful

(* Two terminals that are together at its end.                             *)
LEMMA TogetherNow ==
  ASSUME NEW t, NEW p, tty' = t, plain' = p, Together(t, p)
  PROVE  Together(tty, plain)'
<1>1. Tty(tty)' /\ Tty(plain)'
  <2>1. Tty(tty')
    BY DEF Together
  <2>2. Tty(plain')
    BY DEF Together
  <2> QED BY Zenon, <2>1, <2>2 DEF Tty, OnScreen, Screenful, Row, Cell
<1>2. Alike(t, p) => Alike(tty, plain)'
  BY Zenon DEF Alike, CellAlike, More
<1> QED BY Zenon, <1>1, <1>2 DEF Together, More

LEMMA ScreenNext ==
  ASSUME ScreenInv, [Next]_screenVars
  PROVE  ScreenInv'
<1>0. /\ State(Now) /\ Tty(plain) /\ (RegionRight => Together(tty, plain))
      /\ Now.tty = tty /\ Now.fep = fep
  BY DEF ScreenInv, Now
<1>00. RegionRight => Now.tty.bot < Now.fep.wsRow
  BY SMT, <1>0 DEF RegionRight, State
<1>1. ASSUME NEW out \in Outputs, ChildWrites(out) PROVE ScreenInv'
  <2>1. PICK s : s = FromPty(Now, out)
    OBVIOUS
  <2>2. Step("child", s) /\ plain' = PlayAll(plain, out)
    BY <1>1, <2>1 DEF ChildWrites
  <2>3. out \in Seq(Token)
    BY InputsAssumption
  <2>4. Follows(Now, s, out)
    BY <1>0, <2>1, <2>3, FromPtyFollows
  <2>5. State(Now)' /\ tty' = s.tty /\ fep' = s.fep /\ last # "done"
    BY <2>2, <2>4, StepNow DEF Follows
  <2>6. RegionRight' => RegionRight
    BY <1>0, <2>4, <2>5 DEF RegionRight, Follows
  <2>7. RegionRight' => Together(s.tty, PlayAll(plain, out))
    BY Zenon, <1>0, <1>00, <2>4, <2>6 DEF Follows
  <2>8. RegionRight' => Together(tty, plain)'
    BY Zenon, <2>2, <2>5, <2>7, TogetherNow
  <2>9. Tty(plain)'
    <3>1. Tty(PlayAll(plain, out))
      BY <1>0, <2>3, PlayAllTty DEF SameLines
    <3> QED BY Zenon, <2>2, <3>1 DEF Tty, OnScreen, Screenful, Row, Cell
  <2> QED BY <2>5, <2>8, <2>9 DEF ScreenInv
<1>2. ASSUME NEW kind, NEW s, Step(kind, s), Back(Now, s), UNCHANGED plain
      PROVE  ScreenInv'
  <2>1. State(Now)' /\ tty' = s.tty /\ fep' = s.fep /\ last # "done"
    BY <1>2, StepNow DEF Back
  <2>2. RegionRight' => RegionRight
    BY <1>0, <1>2, <2>1 DEF RegionRight, Back
  <2>3. RegionRight' => Together(s.tty, plain)
    BY <1>0, <1>00, <1>2, <2>2, BackTogether
  <2>4. RegionRight' => Together(tty, plain)'
    <3>1. PICK p : p = plain /\ plain' = p
      BY <1>2
    <3> QED BY Zenon, <2>1, <2>3, <3>1, TogetherNow
  <2>5. Tty(plain)'
    BY Zenon, <1>0, <1>2 DEF Tty, OnScreen, Screenful, Row, Cell
  <2> QED BY <2>1, <2>4, <2>5 DEF ScreenInv
<1>3. ASSUME NEW text \in Texts, NEW a \in Attributes, SetCursorText(text, a)
      PROVE  ScreenInv'
  <2>1. text \in Seq(Char) /\ ReadAttributeArg(a) \in Attribute
    BY InputsAssumption, ReadAttributeType
  <2>2. Back(Now, CursorText(Now, text, ReadAttributeArg(a)))
    BY <1>0, <2>1, CursorTextBack
  <2> QED BY <1>2, <1>3, <2>2 DEF SetCursorText
<1>4. ASSUME NEW text \in Texts, NEW a \in Attributes, SetStatusText(text, a)
      PROVE  ScreenInv'
  <2>1. text \in Seq(Char) /\ ReadAttributeArg(a) \in Attribute
    BY InputsAssumption, ReadAttributeType
  <2>2. Back(Now, StatusText(Now, text, ReadAttributeArg(a)))
    BY <1>0, <2>1, StatusTextBack
  <2> QED BY <1>2, <1>4, <2>2 DEF SetStatusText
<1>5. ASSUME NEW rows \in Sizes, Winch(rows) PROVE ScreenInv'
  <2>1. rows \in 2 .. MaxRows
    BY SizesRows
  <2>2. PICK z : z = [tty |-> ResizeTty(tty, rows), fep |-> [fep EXCEPT !.wsRow = rows - 1]]
    OBVIOUS
  <2>3. State(z) /\ z.fep.wsRow = rows - 1
    BY <1>0, <2>1, <2>2, ResizeState
  <2>4. PICK s : s = SetScreenSize(z, fep.wsRow)
    OBVIOUS
  <2>5. /\ State(s) /\ s.fep.wsRow = rows - 1
        /\ s.tty.cur = Home0 /\ s.tty.slot.cur = Home0
    <3>1. fep.wsRow \in Nat \ {0}
      BY <1>0 DEF State
    <3> QED BY <2>3, <2>4, <3>1, SetScreenSizeHome
  <2>6. PICK fresh : fresh = [s EXCEPT !.tty.spilled = FALSE, !.tty.astray = FALSE]
    OBVIOUS
  <2>7. /\ Step("winch", fresh)
        /\ plain' = [fresh.tty EXCEPT !.rows = rows - 1, !.bot = rows - 2]
    BY Zenon, <1>5, <2>2, <2>4, <2>6 DEF Winch
  <2>8. DOMAIN s = {"tty", "fep"} /\ Tty(s.tty) /\ s.tty.rows = rows
    BY <2>1, <2>5 DEF State, Shape
  <2>9. /\ DOMAIN fresh = {"tty", "fep"} /\ fresh.fep = s.fep
        /\ fresh.tty = [s.tty EXCEPT !.spilled = FALSE, !.astray = FALSE]
    BY SMT, <2>6, <2>8
  <2>10. /\ Tty(fresh.tty) /\ fresh.tty.rows = rows /\ fresh.tty.bot = s.tty.bot
         /\ fresh.tty.cur = Home0 /\ fresh.tty.slot.cur = Home0
    <3>1. IsRecord(fresh.tty)
      BY Zenon, <2>9 DEF IsRecord
    <3> QED BY SMT, <2>5, <2>8, <2>9, <3>1 DEF Tty, OnScreen
  <2>11. State(fresh)
    BY <2>5, <2>8, <2>9, <2>10 DEF State, Shape
  <2>12. State(Now)' /\ tty' = fresh.tty /\ fep' = fresh.fep
    BY <2>7, <2>11, StepNow
  <2>13. PICK p : p = [fresh.tty EXCEPT !.rows = rows - 1, !.bot = rows - 2]
    OBVIOUS
  <2>14. Home0 \in [row : 0 .. (rows - 1) - 1, col : 0 .. Cols]
    BY SMT, <2>1, SizeAssumption DEF Home0
  <2>15. /\ Tty(p) /\ p.rows = rows - 1 /\ p.bot = rows - 2
         /\ p.cur = fresh.tty.cur /\ p.slot = fresh.tty.slot
         /\ p.cells = fresh.tty.cells /\ p.sgr = fresh.tty.sgr
    <3>1. IsRecord(p)
      BY Zenon, <2>13 DEF IsRecord
    <3> QED BY SMT, <2>1, <2>10, <2>13, <2>14, <3>1, SizeAssumption DEF Tty, OnScreen
  <2>16. RegionRight' => Together(fresh.tty, p)
    <3>1. RegionRight' => fresh.tty.bot = fresh.fep.wsRow - 1
      BY <2>12 DEF RegionRight
    <3>2. RegionRight' => fresh.tty.bot = p.bot /\ p.rows = p.bot + 1
      BY SMT, <2>1, <2>5, <2>9, <2>15, <3>1
    <3>3. Alike(fresh.tty, p)
      BY Zenon, <2>15, SelfAlike DEF Alike
    <3>4. More(fresh.tty.slot.sgr, p.slot.sgr)
      BY Zenon, <2>15, SelfAlike
    <3> QED BY Zenon, <2>10, <2>15, <3>2, <3>3, <3>4 DEF Together
  <2>17. RegionRight' => Together(tty, plain)'
    BY Zenon, <2>7, <2>12, <2>13, <2>16, TogetherNow
  <2>18. Tty(plain)'
    BY Zenon, <2>7, <2>13, <2>15 DEF Tty, OnScreen, Screenful, Row, Cell
  <2> QED BY <2>12, <2>17, <2>18 DEF ScreenInv
<1>6. ASSUME Done PROVE ScreenInv'
  <2>1. State(LeaveScreen(Now))
    BY <1>0, LeaveScreenState
  <2>2. State(Now)' /\ last' = "done"
    BY <1>6, <2>1, StepNow DEF Done
  <2>3. ~RegionRight'
    BY <2>2 DEF RegionRight
  <2>4. Tty(plain)'
    BY Zenon, <1>0, <1>6 DEF Done, Tty, OnScreen, Screenful
  <2> QED BY <2>2, <2>3, <2>4 DEF ScreenInv
<1>7. CASE UNCHANGED screenVars
  <2>1. tty' = tty /\ fep' = fep /\ plain' = plain /\ last' = last
    BY <1>7 DEF screenVars
  <2>2. Now' = Now
    BY <2>1 DEF Now
  <2>3. State(Now)' /\ Tty(plain)'
    BY Zenon, <1>0, <2>1, <2>2 DEF State, Shape, Tty, OnScreen, Screenful
  <2>4. RegionRight' => RegionRight
    BY Zenon, <2>1 DEF RegionRight
  <2>5. RegionRight' => Together(tty, plain)'
    <3>1. RegionRight' => Together(tty, plain)
      BY Zenon, <1>0, <2>4
    <3>2. tty' = tty /\ plain' = plain
      BY <2>1
    <3>3. Alike(tty, plain)' = Alike(tty, plain)
      BY Zenon, <3>2 DEF Alike, CellAlike, More
    <3>4. Tty(tty)' = Tty(tty) /\ Tty(plain)' = Tty(plain)
      BY Zenon, <3>2 DEF Tty, OnScreen, Screenful, Row, Cell
    <3> QED BY Zenon, <3>1, <3>2, <3>3, <3>4 DEF Together
  <2> QED BY Zenon, <2>3, <2>5 DEF ScreenInv
<1> QED BY <1>1, <1>3, <1>4, <1>5, <1>6, <1>7 DEF Next

(* Wherever the child's next character would go if it had the terminal for *)
(* itself, it goes there, for every output of the child, all texts and     *)
(* attributes, every width of the terminal and all sizes of the window.    *)
THEOREM CursorKeptHolds == Spec => []CursorKept
<1>1. ScreenInv => CursorKept
  BY DEF ScreenInv, CursorKept, Undisturbed, Together
<1> QED BY <1>1, ScreenInit, ScreenNext, PTL DEF Spec

(* What the child has written is in its place or under a cursor text: the  *)
(* status text, which is drawn in between, and the cursor texts touch none *)
(* of the child's other cells, and every scrolling and erasing of the      *)
(* child's has taken the same cells on both terminals.                     *)
THEOREM ChildTextKeptHolds == Spec => []ChildTextKept
<1>1. ASSUME ScreenInv, Undisturbed, ~tty.spilled, NEW rc \in ChildCells
      PROVE  tty.cells[rc[1]][rc[2]].ch = plain.cells[rc[1]][rc[2]].ch
  <2>1. Together(tty, plain) /\ tty.bot = fep.wsRow - 1 /\ ~tty.astray
    BY <1>1 DEF ScreenInv, Undisturbed, RegionRight
  <2>2. /\ rc[1] \in 0 .. fep.wsRow - 1 /\ rc[2] \in 0 .. Cols - 1
        /\ tty.cells[rc[1]][rc[2]].who # "cursor"
    BY <1>1 DEF ChildCells
  <2>3. Alike(tty, plain) /\ rc[1] \in 0 .. tty.bot
    BY <2>1, <2>2 DEF Together
  <2> QED BY Zenon, <1>1, <2>2, <2>3 DEF Alike, CellAlike
<1>2. ScreenInv => ChildTextKept
  BY Zenon, <1>1 DEF ChildTextKept
<1> QED BY <1>2, ScreenInit, ScreenNext, PTL DEF Spec

(* A character of the child keeps every attribute that the child has set   *)
(* for it, if the terminal can enter each of the four: what fep has set    *)
(* between two outputs of the child is nothing or what the child has set,  *)
(* so that apply_attr never has a reason to reset before the child's next  *)
(* output, and sets what is missing.                                       *)
THEOREM NothingLostHolds ==
  ASSUME EnteringAdds
  PROVE  Spec => []NothingLost
<1>1. ASSUME ScreenInv, Undisturbed, ~tty.spilled, NEW rc \in ChildCells
      PROVE  plain.cells[rc[1]][rc[2]].sgr.attr \subseteq tty.cells[rc[1]][rc[2]].sgr.attr
  <2>1. Together(tty, plain) /\ tty.bot = fep.wsRow - 1 /\ ~tty.astray
    BY <1>1 DEF ScreenInv, Undisturbed, RegionRight
  <2>2. /\ rc[1] \in 0 .. fep.wsRow - 1 /\ rc[2] \in 0 .. Cols - 1
        /\ tty.cells[rc[1]][rc[2]].who # "cursor"
    BY <1>1 DEF ChildCells
  <2>3. Alike(tty, plain) /\ rc[1] \in 0 .. tty.bot
    BY <2>1, <2>2 DEF Together
  <2>4. CellAlike(tty.cells[rc[1]][rc[2]], plain.cells[rc[1]][rc[2]])
    BY Zenon, <1>1, <2>2, <2>3 DEF Alike
  <2> QED BY Zenon, <2>2, <2>4 DEF CellAlike, More
<1>2. ScreenInv => NothingLost
  BY Zenon, <1>1 DEF NothingLost
<1> QED BY <1>2, ScreenInit, ScreenNext, PTL DEF Spec

-----------------------------------------------------------------------------
(* The texts of fep's: while the scroll region is right the cursor and the *)
(* position that is saved are in it, so that neither the child's output    *)
(* nor a cursor text reaches the last line, and what is there is the       *)
(* status text; and a cursor text is nowhere but where the last one was    *)
(* drawn, which is where spaces go over it.                                *)
TextsInv ==
  /\ ScreenInv
  /\ RegionRight => Low(tty)
  /\ RegionRight /\ ~erased => Status(Now)
  /\ RegionRight /\ last \in {"child", "cursor"} => CursorThere(Now)
  /\ ~stray /\ (last # "done" \/ fep.cursorText = <<>>) => Traces(Now)

LEMMA TracesClean ==
  ASSUME NEW s, State(s), Traces(s), s.fep.cursorText = <<>>, ~s.tty.spilled
  PROVE  Clean(s.tty)
<1>1. PICK col, len : col = s.tty.cur.col /\ len = Len(s.fep.cursorText)
  OBVIOUS
<1>2. len = 0 /\ col \in 0 .. Cols
  <2>1. Len(s.fep.cursorText) = 0
    OBVIOUS
  <2> QED BY SMT, <1>1, <2>1, SizeAssumption DEF State, Shape, Tty, OnScreen
<1>3. col .. col + len - 1 = {}
  BY SMT, <1>2, SizeAssumption
<1> QED BY Zenon, <1>1, <1>3 DEF Traces, Clean

LEMMA NoneNewTraces ==
  ASSUME NEW s, NEW z, Traces(s), NoneNew(s.tty, z.tty),
         z.tty.cur = s.tty.cur, z.fep.cursorText = s.fep.cursorText
  PROVE  Traces(z)
<1>1. PICK row, col, len : row = s.tty.cur.row /\ col = s.tty.cur.col /\ len = Len(s.fep.cursorText)
  OBVIOUS
<1>2. row = z.tty.cur.row /\ col = z.tty.cur.col /\ len = Len(z.fep.cursorText)
  BY <1>1
<1>3. ASSUME ~z.tty.spilled, NEW r \in 0 .. MaxRows - 1, NEW c \in 0 .. Cols - 1,
             z.tty.cells[r][c].who = "cursor", z.tty.cells[r][c].ch # " "
      PROVE  r = row /\ c \in col .. col + len - 1
  <2>1. ~s.tty.spilled /\ z.tty.cells[r][c] = s.tty.cells[r][c]
    BY Zenon, <1>3 DEF NoneNew
  <2>2. s.tty.cells[r][c].who = "cursor" /\ s.tty.cells[r][c].ch # " "
    BY <1>3, <2>1
  <2> QED BY Zenon, <1>1, <2>1, <2>2 DEF Traces
<1> QED BY Zenon, <1>2, <1>3 DEF Traces

LEMMA CleanTraces ==
  ASSUME NEW s, ~s.tty.spilled => Clean(s.tty)
  PROVE  Traces(s)
  BY Zenon DEF Traces, Clean

LEMMA TextsNow ==
  ASSUME NEW s, tty' = s.tty, fep' = s.fep
  PROVE  /\ Low(s.tty) => Low(tty)'
         /\ Status(s) => Status(Now)'
         /\ CursorThere(s) => CursorThere(Now)'
         /\ Traces(s) => Traces(Now)'
<1>1. Now'.tty = s.tty /\ Now'.fep = s.fep
  BY DEF Now
<1>2. Low(s.tty) => Low(tty)'
  BY Zenon DEF Low
<1>3. Status(s) => Status(Now)'
  BY Zenon, <1>1 DEF Status, Complete, Lesser
<1>4. CursorThere(s) => CursorThere(Now)'
  BY Zenon, <1>1 DEF CursorThere, Complete, Lesser
<1>5. Traces(s) => Traces(Now)'
  BY Zenon, <1>1 DEF Traces
<1> QED BY <1>2, <1>3, <1>4, <1>5

LEMMA TextsInit ==
  ASSUME Init
  PROVE  TextsInv
<1>7. PICK rows \in Sizes : /\ tty = InitScreen(rows).tty /\ fep = InitScreen(rows).fep
                            /\ last = "init"
  BY DEF Init
<1>1. PICK s : /\ s = InitScreen(rows)
               /\ tty = s.tty /\ fep = s.fep
               /\ last = "init"
  BY <1>7
<1>2. rows \in 2 .. MaxRows
  BY SizesRows
<1>3. State(s) /\ Low(s.tty) /\ Clean(s.tty) /\ Status(s)
  BY <1>1, <1>2, InitScreenTogether
<1>4. Now.tty = s.tty /\ Now.fep = s.fep
  BY <1>1 DEF Now
<1>5. Status(Now)
  BY Zenon, <1>3, <1>4 DEF Status
<1>6. Traces(Now)
  BY Zenon, <1>3, <1>4, CleanTraces
<1> QED BY <1>1, <1>3, <1>5, <1>6, ScreenInit DEF TextsInv

(* The window's new size: the screen is set up with what is there.         *)
LEMMA WinchTexts ==
  ASSUME State(Now), NEW rows \in Sizes, Winch(rows)
  PROVE  \E s : /\ tty' = s.tty /\ fep' = s.fep /\ last' = "winch" /\ last # "done"
                /\ Low(s.tty) /\ Status(s)
                /\ ~tty.spilled /\ Clean(tty) => Clean(s.tty)
                /\ stray' = (stray \/ fep.cursorText # <<>> \/ tty.spilled)
<1>1. rows \in 2 .. MaxRows
  BY SizesRows
<1>2. PICK z : z = [tty |-> ResizeTty(tty, rows), fep |-> [fep EXCEPT !.wsRow = rows - 1]]
  OBVIOUS
<1>3. Now.tty = tty /\ Now.fep = fep
  BY DEF Now
<1>4. State(z) /\ Cleanly(tty, z.tty)
  BY <1>1, <1>2, <1>3, ResizeState
<1>5. PICK s : s = SetScreenSize(z, fep.wsRow)
  OBVIOUS
<1>6. /\ State(s) /\ s.tty.cur = Home0 /\ s.tty.slot.cur = Home0
      /\ Status(s) /\ Cleanly(z.tty, s.tty)
  <2>1. fep.wsRow \in Nat \ {0}
    BY <1>3 DEF State
  <2> QED BY <1>4, <1>5, <2>1, SetScreenSizeHome
<1>7. PICK fresh : fresh = [s EXCEPT !.tty.spilled = FALSE, !.tty.astray = FALSE]
  OBVIOUS
<1>8. /\ Step("winch", fresh)
      /\ stray' = (stray \/ fep.cursorText # <<>> \/ tty.spilled)
  BY Zenon, <1>2, <1>5, <1>7 DEF Winch
<1>9. DOMAIN s = {"tty", "fep"} /\ Tty(s.tty)
  BY <1>6 DEF State, Shape
<1>10. /\ fresh.fep = s.fep
       /\ fresh.tty = [s.tty EXCEPT !.spilled = FALSE, !.astray = FALSE]
  BY SMT, <1>7, <1>9
<1>11. /\ fresh.tty.bot = s.tty.bot /\ fresh.tty.cells = s.tty.cells
       /\ fresh.tty.cur = s.tty.cur /\ fresh.tty.slot = s.tty.slot
  BY SMT, <1>9, <1>10 DEF Tty
<1>12. Low(fresh.tty)
  <2>1. /\ fresh.tty.cur.row = 0 /\ fresh.tty.slot.cur.row = 0 /\ 0 <= fresh.tty.bot
    BY SMT, <1>6, <1>9, <1>11, SizeAssumption DEF Tty, Home0
  <2> QED BY Zenon, <2>1 DEF Low
<1>13. Status(fresh)
  <2>1. fresh.tty.cells[s.fep.wsRow] = s.tty.cells[s.fep.wsRow]
    BY <1>11
  <2>2. fresh.fep.wsRow = s.fep.wsRow /\ SameStatus(s, fresh)
    BY <1>10 DEF SameStatus
  <2> QED BY Zenon, <1>6, <2>1, <2>2, StatusSame
<1>14. Clean(tty) => Clean(fresh.tty)
  <2>1. Clean(tty) => Clean(s.tty)
    BY Zenon, <1>4, <1>6 DEF Cleanly
  <2>2. Clean(s.tty) => Clean(fresh.tty)
    BY Zenon, <1>11 DEF Clean
  <2> QED BY <2>1, <2>2
<1>15. tty' = fresh.tty /\ fep' = fresh.fep /\ last' = "winch" /\ last # "done"
  BY <1>8 DEF Step
<1> QED BY Zenon, <1>8, <1>12, <1>13, <1>14, <1>15

LEMMA TextsNext ==
  ASSUME TextsInv, [Next]_screenVars
  PROVE  TextsInv'
<1>0. ScreenInv' /\ State(Now) /\ Now.tty = tty /\ Now.fep = fep
  <2>1. ScreenInv'
    BY ScreenNext DEF TextsInv
  <2> QED BY <2>1 DEF TextsInv, ScreenInv, Now
<1>00. RegionRight => tty.bot < fep.wsRow
  BY SMT, <1>0 DEF RegionRight, State
<1>000. /\ RegionRight => Low(tty)
        /\ RegionRight /\ ~erased => Status(Now)
        /\ ~stray /\ (last # "done" \/ fep.cursorText = <<>>) => Traces(Now)
  BY Zenon DEF TextsInv
<1>1. ASSUME NEW out \in Outputs, ChildWrites(out) PROVE TextsInv'
  <2>1. PICK s, k : s = FromPty(Now, out) /\ k = ClearEnd(out)
    OBVIOUS
  <2>2. /\ Step("child", s) /\ stray' = (stray \/ fep.cursorText # <<>>)
        /\ erased' = \/ k = 0 /\ erased
                     \/ \E i \in k + 1 .. Len(out) : out[i].op = "erase"
    BY Zenon, <1>1, <2>1 DEF ChildWrites
  <2>3. out \in Seq(Token) /\ out # <<>>
    BY InputsAssumption
  <2>4. /\ State(s) /\ s.fep.wsRow = fep.wsRow /\ s.tty.bot = tty.bot
    BY <1>0, <2>1, <2>3, FromPtyFollows DEF Follows
  <2>5. /\ tty.bot < fep.wsRow /\ Low(tty) =>
             /\ Low(s.tty) /\ CursorThere(s)
             /\ /\ k # 0 \/ Status(Now)
                /\ \A i \in k + 1 .. Len(out) : out[i].op # "erase"
                => Status(s)
        /\ fep.cursorText = <<>> => s.fep.cursorText = <<>> /\ Cleanly(tty, s.tty)
    BY <1>0, <2>1, <2>3, FromPtyShows
  <2>6. tty' = s.tty /\ fep' = s.fep /\ last # "done"
    BY <2>2 DEF Step
  <2>7. RegionRight' => RegionRight
    BY <2>4, <2>6 DEF RegionRight
  <2>8. RegionRight' => Low(s.tty) /\ CursorThere(s)
    BY Zenon, <1>00, <1>000, <2>5, <2>7
  <2>9. RegionRight' /\ ~erased' => Status(s)
    BY Zenon, <1>00, <1>000, <2>2, <2>5, <2>7
  <2>10. ASSUME ~stray' PROVE Traces(s)
    <3>1. fep.cursorText = <<>> /\ Traces(Now)
      BY Zenon, <1>000, <2>2, <2>6, <2>10
    <3>2. ASSUME ~s.tty.spilled PROVE Clean(s.tty)
      <4>1. ~tty.spilled /\ (Clean(tty) => Clean(s.tty))
        BY <2>5, <3>1, <3>2 DEF Cleanly
      <4> QED BY <1>0, <3>1, <4>1, TracesClean
    <3> QED BY <3>2, CleanTraces
  <2> QED BY Zenon, <1>0, <2>6, <2>8, <2>9, <2>10, TextsNow DEF TextsInv
<1>2. ASSUME NEW kind, NEW s, Step(kind, s), Back(Now, s)
      PROVE  /\ tty' = s.tty /\ fep' = s.fep /\ last' = kind /\ last # "done"
             /\ RegionRight' => RegionRight /\ Low(s.tty)
  <2>1. tty' = s.tty /\ fep' = s.fep /\ last' = kind /\ last # "done"
    BY <1>2 DEF Step
  <2>2. RegionRight' => RegionRight
    BY <1>0, <1>2, <2>1 DEF RegionRight, Back
  <2>3. Low(tty) => Low(s.tty)
    BY <1>0, <1>2, BackLow
  <2> QED BY <1>000, <2>1, <2>2, <2>3
<1>3. ASSUME NEW text \in Texts, NEW a \in Attributes, SetCursorText(text, a)
      PROVE  TextsInv'
  <2>1. PICK b, s : b = ReadAttributeArg(a) /\ s = CursorText(Now, text, b)
    OBVIOUS
  <2>2. text \in Seq(Char) /\ b \in Attribute
    BY <2>1, InputsAssumption, ReadAttributeType
  <2>3. Step("cursor", s) /\ stray' = stray /\ erased' = erased
    BY Zenon, <1>3, <2>1 DEF SetCursorText
  <2>4. PICK z0 : z0 = EraseCursorText(Now)
    OBVIOUS
  <2>5. /\ Back(Now, s) /\ SameStatus(Now, s)
        /\ tty.cur.row <= tty.bot => Below(tty, s.tty)
        /\ s.fep.cursorText = text /\ (text # <<>> => s.fep.cursorAttr = b)
        /\ TextOver(z0, s, text, b)
    BY <1>0, <2>1, <2>2, <2>4, CursorTextBack
  <2>6. /\ tty' = s.tty /\ fep' = s.fep /\ last # "done"
        /\ RegionRight' => RegionRight /\ Low(s.tty)
    BY <1>2, <2>3, <2>5
  <2>7. RegionRight' /\ ~erased' => Status(s)
    <3>1. RegionRight' /\ ~erased' =>
            Status(Now) /\ Below(tty, s.tty) /\ tty.bot < fep.wsRow
      BY Zenon, <1>00, <1>000, <2>3, <2>5, <2>6 DEF Low
    <3>2. s.fep.wsRow = fep.wsRow
      BY <1>0, <2>5 DEF Back
    <3> QED BY <1>0, <2>5, <3>1, <3>2, StatusKept
  <2>8. CursorThere(s)
    <3>1. State(z0) /\ z0.tty.cur = tty.cur
      BY <1>0, <2>4, EraseCursorTextBack DEF Back
    <3>2. s.tty.cur = z0.tty.cur
      BY <1>0, <2>5, <3>1 DEF Back
    <3> QED BY Zenon, <2>2, <2>5, <3>1, <3>2, CursorDrawn
  <2>9. ~stray' => Traces(s)
    BY <1>0, <1>000, <2>1, <2>2, <2>3, <2>6, CursorTextTraces
  <2> QED BY Zenon, <1>0, <2>6, <2>7, <2>8, <2>9, TextsNow DEF TextsInv
<1>4. ASSUME NEW text \in Texts, NEW a \in Attributes, SetStatusText(text, a)
      PROVE  TextsInv'
  <2>1. PICK b, s : b = ReadAttributeArg(a) /\ s = StatusText(Now, text, b)
    OBVIOUS
  <2>2. text \in Seq(Char) /\ b \in Attribute
    BY <2>1, InputsAssumption, ReadAttributeType
  <2>3. Step("status", s) /\ stray' = stray
    BY Zenon, <1>4, <2>1 DEF SetStatusText
  <2>4. /\ Back(Now, s) /\ s.fep.statusText = text /\ s.fep.statusAttr = b
        /\ SameCursorText(Now, s) /\ StatusOver(Now, s, text, b)
    BY <1>0, <2>1, <2>2, StatusTextBack
  <2>5. /\ tty' = s.tty /\ fep' = s.fep /\ last' = "status" /\ last # "done"
        /\ RegionRight' => RegionRight /\ Low(s.tty)
    BY <1>2, <2>3, <2>4
  <2>6. Status(s)
    BY Zenon, <2>2, <2>4, StatusDrawn DEF Back
  <2>7. ASSUME ~stray' PROVE Traces(s)
    <3>1. Traces(Now)
      BY <1>000, <2>3, <2>5, <2>7
    <3>2. NoneNew(Now.tty, s.tty)
      BY <1>0, <2>4, StatusOverClean
    <3>3. s.tty.cur = Now.tty.cur /\ s.fep.cursorText = Now.fep.cursorText
      BY <2>4 DEF Back, SameCursorText
    <3> QED BY Zenon, <3>1, <3>2, <3>3, NoneNewTraces
  <2>8. last' \notin {"child", "cursor"}
    BY <2>5
  <2> QED BY Zenon, <1>0, <2>5, <2>6, <2>7, <2>8, TextsNow DEF TextsInv
<1>5. ASSUME NEW rows \in Sizes, Winch(rows) PROVE TextsInv'
  <2>1. PICK s : /\ tty' = s.tty /\ fep' = s.fep /\ last' = "winch" /\ last # "done"
                 /\ Low(s.tty) /\ Status(s)
                 /\ ~tty.spilled /\ Clean(tty) => Clean(s.tty)
                 /\ stray' = (stray \/ fep.cursorText # <<>> \/ tty.spilled)
    BY <1>0, <1>5, WinchTexts
  <2>2. ASSUME ~stray' PROVE Traces(s)
    <3>1. ~tty.spilled /\ fep.cursorText = <<>> /\ Traces(Now)
      BY Zenon, <1>000, <2>1, <2>2
    <3>2. Clean(tty)
      BY <1>0, <3>1, TracesClean
    <3> QED BY <2>1, <3>1, <3>2, CleanTraces
  <2>3. last' \notin {"child", "cursor"}
    BY <2>1
  <2> QED BY Zenon, <1>0, <2>1, <2>2, <2>3, TextsNow DEF TextsInv
<1>6. ASSUME Done PROVE TextsInv'
  <2>1. PICK s : s = LeaveScreen(Now)
    OBVIOUS
  <2>2. Step("done", s) /\ stray' = stray
    BY Zenon, <1>6, <2>1 DEF Done
  <2>3. Cleanly(tty, s.tty) /\ s.fep.cursorText = fep.cursorText
    BY <1>0, <2>1, LeaveScreenState
  <2>4. tty' = s.tty /\ fep' = s.fep /\ last' = "done" /\ last # "done"
    BY <2>2 DEF Step
  <2>5. ~RegionRight'
    BY <2>4 DEF RegionRight
  <2>6. ASSUME ~stray', fep'.cursorText = <<>> PROVE Traces(s)
    <3>1. fep.cursorText = <<>> /\ Traces(Now)
      BY <1>000, <2>2, <2>3, <2>4, <2>6
    <3>2. ASSUME ~s.tty.spilled PROVE Clean(s.tty)
      <4>1. ~tty.spilled /\ (Clean(tty) => Clean(s.tty))
        BY <2>3, <3>2 DEF Cleanly
      <4> QED BY <1>0, <3>1, <4>1, TracesClean
    <3> QED BY <3>2, CleanTraces
  <2> QED BY Zenon, <1>0, <2>4, <2>5, <2>6, TextsNow DEF TextsInv
<1>7. CASE UNCHANGED screenVars
  <2>1. /\ tty' = tty /\ fep' = fep /\ last' = last
        /\ stray' = stray /\ erased' = erased
    BY <1>7 DEF screenVars
  <2>2. RegionRight' => RegionRight
    BY Zenon, <2>1 DEF RegionRight
  <2>3. /\ RegionRight /\ last \in {"child", "cursor"} => CursorThere(Now)
    BY Zenon DEF TextsInv
  <2>4. /\ (Low(tty) => Low(tty)') /\ (Status(Now) => Status(Now)')
        /\ (CursorThere(Now) => CursorThere(Now)') /\ (Traces(Now) => Traces(Now)')
    BY Zenon, <1>0, <2>1, TextsNow
  <2> QED BY Zenon, <1>0, <1>000, <2>1, <2>2, <2>3, <2>4 DEF TextsInv
<1> QED BY <1>1, <1>3, <1>4, <1>5, <1>6, <1>7 DEF Next

(* The last line shows the status text from its first column and nothing   *)
(* else, cut at the last column, as long as the scroll region is right:    *)
(* whatever the child has written, and main_loop has drawn it again behind *)
(* a clear_screen or a clr_eos of the child's; whatever cursor texts have  *)
(* been drawn, whatever their length; and for every width of the terminal. *)
THEOREM StatusShownHolds == Spec => []StatusShown
<1>1. ASSUME TextsInv, RegionRight, ~erased, Complete(fep.statusText, fep.statusAttr),
             NEW c \in 0 .. Cols - 1
      PROVE  tty.cells[fep.wsRow][c].ch =
               IF c < Len(fep.statusText) THEN fep.statusText[c + 1] ELSE " "
  <2>1. Status(Now) /\ Now.tty = tty /\ Now.fep = fep
    BY <1>1 DEF TextsInv, Now
  <2> QED BY Zenon, <1>1, <2>1 DEF Status
<1>2. TextsInv => StatusShown
  BY Zenon, <1>1 DEF StatusShown
<1> QED BY <1>2, TextsInit, TextsNext, PTL DEF Spec

(* Behind the cursor is the cursor text, after every output of the child   *)
(* that was not empty and after every command that sets the text, if there *)
(* is room for it.                                                         *)
THEOREM CursorTextShownHolds == Spec => []CursorTextShown
<1>1. ASSUME TextsInv, RegionRight, last \in {"child", "cursor"},
             Complete(fep.cursorText, fep.cursorAttr),
             tty.cur.col + Len(fep.cursorText) <= Cols, NEW i \in DOMAIN fep.cursorText
      PROVE  /\ tty.cells[tty.cur.row][tty.cur.col + i - 1].who = "cursor"
             /\ tty.cells[tty.cur.row][tty.cur.col + i - 1].ch = fep.cursorText[i]
  <2>1. CursorThere(Now) /\ Now.tty = tty /\ Now.fep = fep
    BY <1>1 DEF TextsInv, Now
  <2> QED BY Zenon, <1>1, <2>1 DEF CursorThere
<1>2. TextsInv => CursorTextShown
  BY Zenon, <1>1 DEF CursorTextShown
<1> QED BY <1>2, TextsInit, TextsNext, PTL DEF Spec

(* A cursor text that has been taken back has left nothing but spaces: the *)
(* spaces that _fep_output_cursor_text writes go over all of it, though    *)
(* their number is computed from a column that is not the cursor's.        *)
THEOREM CursorTextGoneHolds == Spec => []CursorTextGone
<1>1. ASSUME TextsInv, fep.cursorText = <<>>, ~stray, ~tty.spilled,
             NEW r \in 0 .. fep.wsRow - 1, NEW c \in 0 .. Cols - 1,
             tty.cells[r][c].who = "cursor"
      PROVE  tty.cells[r][c].ch = " "
  <2>1. /\ State(Now) /\ Traces(Now) /\ Now.tty = tty /\ Now.fep = fep
    BY <1>1 DEF TextsInv, ScreenInv, Now
  <2>2. Clean(tty)
    BY <1>1, <2>1, TracesClean
  <2>3. r \in 0 .. MaxRows - 1
    BY SMT, <2>1, SizeAssumption DEF State, Shape, Tty
  <2> QED BY Zenon, <1>1, <2>2, <2>3 DEF Clean
<1>2. TextsInv => CursorTextGone
  BY Zenon, <1>1 DEF CursorTextGone
<1> QED BY <1>2, TextsInit, TextsNext, PTL DEF Spec

-----------------------------------------------------------------------------
(* The codes that _fep_get_sgr_codes finds are numbers, whatever bytes     *)
(* terminfo has for the capabilities: where it takes a parameter there is  *)
(* one.                                                                    *)
LEMMA SgrCodesType == GetSgrCodes \in [DOMAIN NameCode -> Int]
<1>1. ASSUME NEW code \in DOMAIN NameCode
      PROVE  NameCode[code].n \in Nat /\ NameCode[code].index \in 1 .. NameCode[code].n
  BY DEF NameCode
<1>2. ASSUME NEW entry, entry.n \in Nat, entry.index \in 1 .. entry.n
      PROVE  SgrCode(entry) \in Int
  <2>1. CASE entry.name \notin SgrCaps
    BY <2>1 DEF SgrCode
  <2>2. CASE entry.name \in SgrCaps
    <3>1. PICK csi : csi = CSIParse(SgrCap[entry.name], 91)
      OBVIOUS
    <3>2. csi.params \in Seq(Byte)
      BY <2>2, <3>1, CSIParams, SgrCapAssumption
    <3>3. PICK params : params = StrSplit(csi.params, SEMI)
      OBVIOUS
    <3>4. params \in Seq(Seq(Byte))
      BY <3>2, <3>3, StrSplitType
    <3>5. SgrCode(entry) = CASE csi.final # 109 -> 0
                             [] csi.final = 109 /\ Len(params) # entry.n -> -1
                             [] OTHER -> Number(params[entry.index])
      BY Zenon, <2>2, <3>1, <3>3 DEF SgrCode
    <3>6. Len(params) = entry.n => Number(params[entry.index]) \in Int
      <4> SUFFICES ASSUME Len(params) = entry.n PROVE Number(params[entry.index]) \in Int
        OBVIOUS
      <4>1. params[entry.index] \in Seq(Byte)
        BY <1>2, <3>4, ElementOfSeq
      <4>2. PICK n \in Nat : params[entry.index] \in [1 .. n -> Byte]
        BY <4>1, SeqDef
      <4>3. \A b \in Byte : b \in Int
        BY SMT DEF Byte
      <4>4. params[entry.index] \in [1 .. n -> Int]
        BY Zenon, <4>2, <4>3
      <4> QED BY <4>4, NumberType
    <3>7. CASE csi.final # 109
      BY <3>5, <3>7
    <3>8. CASE csi.final = 109 /\ Len(params) # entry.n
      BY <3>5, <3>8
    <3>9. CASE csi.final = 109 /\ Len(params) = entry.n
      BY Zenon, <3>5, <3>6, <3>9
    <3> QED BY <3>7, <3>8, <3>9
  <2> QED BY <2>1, <2>2
<1>3. \A code \in DOMAIN NameCode : SgrCode(NameCode[code]) \in Int
  BY Zenon, <1>1, <1>2
<1> QED BY Zenon, <1>3 DEF GetSgrCodes

LEMMA TtyTerminal ==
  ASSUME NEW t, Tty(t)
  PROVE  t \in Terminal /\ t.cur.row < t.rows
<1>1. /\ t.rows \in 1 .. MaxRows /\ t.bot \in 0 .. t.rows - 1
      /\ t.cur \in OnScreen(t) /\ t.slot.cur \in OnScreen(t)
  BY DEF Tty
<1>2. t.rows \in Nat /\ MaxRows \in Nat
  BY <1>1, SizeAssumption
<1>3. t.bot \in 0 .. MaxRows - 1
  BY SMT, <1>1, <1>2
<1>4. \A r \in 0 .. t.rows - 1 : r \in 0 .. MaxRows - 1 /\ r < t.rows
  BY SMT, <1>1, <1>2
<1>5. ASSUME NEW p \in OnScreen(t)
      PROVE  p \in [row : 0 .. MaxRows - 1, col : 0 .. Cols] /\ p.row < t.rows
  BY <1>4 DEF OnScreen
<1>6. t.cells \in [0 .. MaxRows - 1 -> [0 .. Cols - 1 -> Cell]]
  BY Zenon DEF Tty, Screenful, Row
<1>7. PICK place : place = [row : 0 .. MaxRows - 1, col : 0 .. Cols]
  OBVIOUS
<1>8. t.cur \in place /\ t.slot.cur \in place /\ t.cur.row < t.rows
  BY Zenon, <1>1, <1>5, <1>7
<1>9. t.slot \in [cur : place, sgr : SgrAttr, who : {"child", "fep"}]
  <2>1. t.slot = [f \in {"cur", "sgr", "who"} |-> t.slot[f]]
    BY Zenon DEF Tty, IsRecord
  <2>2. t.slot.cur \in place /\ t.slot.sgr \in SgrAttr /\ t.slot.who \in {"child", "fep"}
    BY <1>8 DEF Tty
  <2> QED BY <2>1, <2>2
<1>10. PICK slots : slots = [cur : place, sgr : SgrAttr, who : {"child", "fep"}]
  OBVIOUS
<1>11. t = [f \in {"rows", "bot", "cells", "cur", "sgr", "slot", "spilled", "astray"} |-> t[f]]
  BY Zenon DEF Tty, IsRecord
<1>12. PICK cells : cells = [0 .. MaxRows - 1 -> [0 .. Cols - 1 -> Cell]]
  OBVIOUS
<1>13. /\ t.rows \in 1 .. MaxRows /\ t.bot \in 0 .. MaxRows - 1 /\ t.cells \in cells
       /\ t.cur \in place /\ t.sgr \in SgrAttr /\ t.slot \in slots
       /\ t.spilled \in BOOLEAN /\ t.astray \in BOOLEAN
  BY Zenon, <1>1, <1>3, <1>6, <1>8, <1>9, <1>10, <1>12 DEF Tty
<1>14. t \in [rows : 1 .. MaxRows, bot : 0 .. MaxRows - 1, cells : cells, cur : place,
              sgr : SgrAttr, slot : slots, spilled : BOOLEAN, astray : BOOLEAN]
  BY Zenon, <1>11, <1>13
<1> QED BY Zenon, <1>7, <1>8, <1>10, <1>12, <1>14 DEF Terminal

LEMMA StateFep ==
  ASSUME NEW s, State(s)
  PROVE  s.fep \in FepState
<1>1. /\ s.fep.wsRow \in Nat \ {0} /\ s.tty.rows = s.fep.wsRow + 1 /\ Tty(s.tty)
      /\ s.fep.cursor \in Where /\ s.fep.cursorSave \in Where
  BY DEF State, Shape
<1>2. s.fep.wsRow \in 1 .. MaxRows - 1
  BY SMT, <1>1, SizeAssumption DEF Tty
<1>3. \A p \in Where : p \in Position
  BY SMT, SizeAssumption DEF Where, Position
<1>4. s.fep.attr \in SgrAttr /\ s.fep.attrPty \in SgrAttr
  BY EmptyAttrType DEF State
<1>5. s.fep = [f \in FepFields |-> s.fep[f]]
  BY Zenon DEF State, Shape, IsRecord
<1>6. s.fep.sgrCodes \in [DOMAIN NameCode -> Int]
  BY Zenon, SgrCodesType DEF State
<1>7. PICK codes : codes = [DOMAIN NameCode -> Int]
  OBVIOUS
<1>8. /\ s.fep.cursor \in Position /\ s.fep.cursorSave \in Position
      /\ s.fep.sgrCodes \in codes
      /\ s.fep.cursorText \in Seq(Char) /\ s.fep.statusText \in Seq(Char)
      /\ s.fep.cursorAttr \in Attribute /\ s.fep.statusAttr \in Attribute
  BY Zenon, <1>1, <1>3, <1>6, <1>7 DEF State
<1>9. s.fep \in [wsRow : 1 .. MaxRows - 1, sgrCodes : codes,
                 attr : SgrAttr, attrPty : SgrAttr,
                 cursor : Position, cursorSave : Position,
                 cursorText : Seq(Char), cursorAttr : Attribute,
                 statusText : Seq(Char), statusAttr : Attribute]
  BY Zenon, <1>2, <1>4, <1>5, <1>8 DEF FepFields
<1> QED BY Zenon, <1>7, <1>9 DEF FepState

(* What the history variables are. *)
History ==
  /\ last \in {"init", "child", "cursor", "status", "winch", "done"}
  /\ stray \in BOOLEAN /\ erased \in BOOLEAN
  /\ steps \in 0 .. MaxSteps

LEMMA HistoryNext ==
  ASSUME History, [Next]_screenVars
  PROVE  History'
<1>1. ASSUME NEW kind \in {"child", "cursor", "status", "winch", "done"}, NEW s, Step(kind, s)
      PROVE  last' \in {"init", "child", "cursor", "status", "winch", "done"}
             /\ steps' \in 0 .. MaxSteps
  <2>1. last' = kind
    BY <1>1 DEF Step
  <2>2. steps' \in 0 .. MaxSteps
    BY SMT, <1>1, InputsAssumption DEF Step, History
  <2> QED BY <2>1, <2>2
<1>2. ASSUME NEW out \in Outputs, ChildWrites(out) PROVE History'
  <2>1. Step("child", FromPty(Now, out))
    BY <1>2 DEF ChildWrites
  <2>2. stray' \in BOOLEAN /\ erased' \in BOOLEAN
    BY Zenon, <1>2 DEF ChildWrites, History
  <2> QED BY <1>1, <2>1, <2>2 DEF History
<1>3. ASSUME NEW text \in Texts, NEW a \in Attributes, SetCursorText(text, a)
      PROVE  History'
  BY Zenon, <1>1, <1>3 DEF SetCursorText, History
<1>4. ASSUME NEW text \in Texts, NEW a \in Attributes, SetStatusText(text, a)
      PROVE  History'
  BY Zenon, <1>1, <1>4 DEF SetStatusText, History
<1>5. ASSUME NEW rows \in Sizes, Winch(rows) PROVE History'
  <2>1. \E s : Step("winch", s)
    BY Zenon, <1>5 DEF Winch
  <2>2. stray' \in BOOLEAN /\ erased' \in BOOLEAN
    BY Zenon, <1>5 DEF Winch, History
  <2> QED BY <1>1, <2>1, <2>2 DEF History
<1>6. CASE Done
  BY Zenon, <1>1, <1>6 DEF Done, History
<1>7. CASE UNCHANGED screenVars
  BY Zenon, <1>7 DEF screenVars, History
<1> QED BY <1>2, <1>3, <1>4, <1>5, <1>6, <1>7 DEF Next

(* No sequence of outputs, texts and sizes takes a cursor or a saved       *)
(* position off its screen, a character out of its cells, or a field of    *)
(* struct Fep out of its range, for every size of the terminal, every      *)
(* terminfo and all texts.                                                 *)
THEOREM ScreenTypes == Spec => []TypeOK
<1>1. ScreenInv /\ History => TypeOK
  <2> SUFFICES ASSUME ScreenInv, History PROVE TypeOK
    OBVIOUS
  <2>1. State(Now) /\ Tty(plain) /\ Now.tty = tty /\ Now.fep = fep
    BY DEF ScreenInv, Now
  <2>2. Tty(tty) /\ fep \in FepState
    BY <2>1, StateFep DEF State, Shape
  <2> QED BY Zenon, <2>1, <2>2, TtyTerminal DEF TypeOK, History
<1>2. Init => History
  <2>1. 0 \in 0 .. MaxSteps
    BY SMT, InputsAssumption
  <2> QED BY Zenon, <2>1 DEF Init, History
<1> QED BY <1>1, <1>2, HistoryNext, ScreenInit, ScreenNext, PTL DEF Spec
=============================================================================
