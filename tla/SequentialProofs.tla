--------------------------- MODULE SequentialProofs --------------------------
(***************************************************************************)
(* The parts nothing interrupts: system calls reach their handlers for any *)
(* numbers that other code may pass, lp_Print accounts for every character *)
(* of every format, shows every number whole, and boot leaves each frame  *)
(* with one owner and the page tables and the free list that PMap starts   *)
(* from, for any sizes.                                                    *)
(***************************************************************************)
EXTENDS Boot, LpPrint, Dispatch, ListFacts, FiniteSetTheorems, TLAPS

-----------------------------------------------------------------------------
(* Dispatch. *)

\* The table holds, at the number of each wrapper, the handler of its name and parameters.
LEMMA NumberFindsHandler ==
    ASSUME NEW w \in Wrappers, w.name /= "cgetc"
    PROVE  /\ w.number \in 0..(Bound - 1) /\ w.number + 1 \in DOMAIN SysCallTable
           /\ SysCallTable[w.number + 1] = Handler(w.name, w.args)
<1>1. w.number \in 0..13
  BY DEF Wrappers, Wrapper
<1>2. DOMAIN SysCallTable = 1..14
  BY DEF SysCallTable
<1>3. SysCallTable[w.number + 1] = Handler(w.name, w.args)
  <2>1. /\ SysCallTable[1] = Handler("putchar", <<"ch">>)
        /\ SysCallTable[2] = Handler("getenvid", <<>>)
        /\ SysCallTable[3] = Handler("yield", <<>>)
        /\ SysCallTable[4] = Handler("env_destroy", <<"envid">>)
        /\ SysCallTable[5] = Handler("set_pgfault_handler", <<"envid", "func", "xstacktop">>)
        /\ SysCallTable[6] = Handler("mem_alloc", <<"envid", "va", "perm">>)
        /\ SysCallTable[7] = Handler("mem_map", <<"srcid", "srcva", "dstid", "dstva", "perm">>)
        /\ SysCallTable[8] = Handler("mem_unmap", <<"envid", "va">>)
        /\ SysCallTable[9] = Handler("env_alloc", <<>>)
        /\ SysCallTable[10] = Handler("set_env_status", <<"envid", "status">>)
        /\ SysCallTable[13] = Handler("ipc_can_send", <<"envid", "value", "srcva", "perm">>)
        /\ SysCallTable[14] = Handler("ipc_recv", <<"dstva">>)
    BY DEF SysCallTable
  <2>2. \A n, k, a : w = Wrapper(n, k, a) => w.name = n /\ w.number = k /\ w.args = a
    BY DEF Wrapper
  <2> QED BY ONLY <2>1, <2>2, w \in Wrappers, w.name /= "cgetc" DEF Wrappers
<1> QED BY <1>1, <1>2, <1>3 DEF Bound

\* While a call is on its way the registers hold what its wrapper loaded.
DispatchInv ==
    /\ landed = "svc" /\ caller /= "raw" =>
        \E w \in Wrappers : caller = w.name /\ regs = [x0 |-> w.number, args |-> w.args]
    /\ CallsReachHandlers

\* A call through a wrapper.
LEMMA WrapperLoads ==
    ASSUME NEW w \in Wrappers, CallWrapper(w)
    PROVE  DispatchInv'
BY DEF CallWrapper, DispatchInv, CallsReachHandlers

\* The jump through the table: the number leads to the handler of the wrapper's name.
LEMMA El0SyncJumps ==
    ASSUME DispatchInv, El0Sync
    PROVE  DispatchInv'
<1>1. landed = "svc" /\ caller' = caller /\ regs' = regs
  BY DEF El0Sync
<1>2. CASE caller \in {"raw", "cgetc"}
  <2>1. landed' /= "svc" \/ caller = "raw" \/ caller = "cgetc"
    BY <1>2
  <2> QED BY <1>1, <1>2, <2>1 DEF DispatchInv, CallsReachHandlers
<1>3. CASE caller \notin {"raw", "cgetc"}
  <2>1. PICK w \in Wrappers : caller = w.name /\ regs = [x0 |-> w.number, args |-> w.args]
    BY <1>1, <1>3 DEF DispatchInv
  <2>2. /\ w.number \in 0..(Bound - 1) /\ w.number + 1 \in DOMAIN SysCallTable
        /\ SysCallTable[w.number + 1] = Handler(w.name, w.args)
    BY <1>3, <2>1, NumberFindsHandler
  <2>3. landed' = SysCallTable[w.number + 1].name
    BY <2>1, <2>2 DEF El0Sync, EntryBase, Bound
  <2>4. landed' = caller' /\ SysCallTable[w.number + 1].params = regs'.args
    BY <1>1, <2>1, <2>2, <2>3 DEF Handler
  <2>5. w.name /= "svc"
    BY DEF Wrappers, Wrapper
  <2> QED BY <1>1, <2>1, <2>2, <2>3, <2>4, <2>5 DEF DispatchInv, CallsReachHandlers
<1> QED BY <1>2, <1>3

\* A system call made through its wrapper arrives at its own handler with its arguments in
\* their places, whatever other code leaves in x0: the table, the numbers of the wrappers
\* and the order of the parameters fit.
THEOREM CallsArrive == DispatchSpec => []CallsReachHandlers
<1>1. DispatchInit => DispatchInv
  BY DEF DispatchInit, DispatchInv, CallsReachHandlers
<1>2. DispatchInv /\ [DispatchNext]_dispatchVars => DispatchInv'
  <2> SUFFICES ASSUME DispatchInv, [DispatchNext]_dispatchVars PROVE DispatchInv'
    OBVIOUS
  <2>1. CASE \E w \in Wrappers : CallWrapper(w)
    BY <2>1, WrapperLoads
  <2>2. CASE \E n \in RawNumber : RawCall(n)
    BY <2>2 DEF RawCall, DispatchInv, CallsReachHandlers
  <2>3. CASE El0Sync
    BY <2>3, El0SyncJumps
  <2>4. CASE UNCHANGED dispatchVars
    BY <2>4 DEF dispatchVars, DispatchInv, CallsReachHandlers
  <2> QED BY <2>1, <2>2, <2>3, <2>4 DEF DispatchNext
<1>3. DispatchInv => CallsReachHandlers
  BY DEF DispatchInv
<1> QED BY <1>1, <1>2, <1>3, PTL DEF DispatchSpec

-----------------------------------------------------------------------------
(* LpPrint: the loops that skip characters. *)

\* A format seen as a string of C.
IsFormat == fmt \in Seq(STRING \ {"\\0"})

\* The terminator is the first character behind the format, and the only one of its kind.
LEMMA EndIsTerminator ==
    ASSUME IsFormat
    PROVE  /\ End \in Nat /\ End >= 1
           /\ \A k \in 1..End : Char(k) = "\\0" <=> k = End
           /\ \A k \in 1..End : k /= End => k \in DOMAIN fmt /\ Char(k) = fmt[k]
<1>1. Len(fmt) \in Nat /\ DOMAIN fmt = 1..Len(fmt)
  BY DEF IsFormat
<1>2. \A k \in 1..End : k /= End => k \in 1..Len(fmt)
  BY <1>1 DEF End
<1>3. \A k \in 1..Len(fmt) : fmt[k] /= "\\0"
  BY DEF IsFormat
<1> QED BY <1>1, <1>2, <1>3 DEF End, Char

\* The skipping loops stop at the terminator at the latest.
LEMMA SkipStops ==
    ASSUME IsFormat, NEW k \in 1..End, NEW S, "\\0" \notin S, NEW j, j = Skip(k, S)
    PROVE  /\ j \in k..End /\ Char(j) \notin S
           /\ \A m \in k..(j - 1) : Char(m) \in S
<1> DEFINE T == {h \in k..End : Char(h) \notin S}
<1>1. End \in Nat /\ End \in k..End /\ Char(End) = "\\0"
  BY EndIsTerminator
<1>2. T \subseteq Nat /\ T /= {}
  BY <1>1
<1>3. PICK x \in T : \A y \in T : x <= y
  BY ONLY <1>2, LeastElement
<1>4. x \in k..End /\ Char(x) \notin S
  BY <1>3
<1>5. ASSUME NEW m \in k..(x - 1) PROVE Char(m) \in S
  <2>1. m \in k..End /\ ~(x <= m)
    BY <1>1, <1>4
  <2> QED BY <1>3, <2>1
<1>6. \E h \in k..End : Char(h) \notin S /\ \A m \in k..(h - 1) : Char(m) \in S
  BY <1>4, <1>5
<1> QED BY <1>6 DEF Skip

\* The prefixes of a directive end before or at the terminator.
LEMMA PrefixesEnd ==
    ASSUME IsFormat, NEW k \in 1..End, NEW c, c = PrefixEnd(k)
    PROVE  c \in k..End /\ \A m \in k..(c - 1) : fmt[m] \in Prefix
<1>1. ASSUME NEW a \in 1..End, NEW p \in Prefix, NEW b, b = SkipOne(a, p)
      PROVE  b \in a..End /\ \A m \in a..(b - 1) : fmt[m] \in Prefix
  <2>1. CASE Char(a) = p
    <3>1. a /= End /\ fmt[a] = p /\ End \in Nat
      BY <2>1, EndIsTerminator DEF Prefix, Digit
    <3> QED BY <1>1, <2>1, <3>1 DEF SkipOne
  <2>2. CASE Char(a) /= p
    BY <1>1, <2>2, EndIsTerminator DEF SkipOne
  <2> QED BY <2>1, <2>2
<1>2. ASSUME NEW a \in 1..End, NEW b, b = Skip(a, Digit)
      PROVE  b \in a..End /\ \A m \in a..(b - 1) : fmt[m] \in Prefix
  <2>1. b \in a..End /\ \A m \in a..(b - 1) : Char(m) \in Digit
    BY <1>2, SkipStops DEF Digit
  <2>2. \A m \in a..(b - 1) : m \in 1..End /\ m /= End
    BY <2>1, EndIsTerminator
  <2> QED BY <2>1, <2>2, EndIsTerminator DEF Prefix
<1> DEFINE l == SkipOne(k, "l")  m1 == SkipOne(l, "-")  z == SkipOne(m1, "0")  w == Skip(z, Digit)
<1>3. End \in Nat
  BY EndIsTerminator
<1>4. l \in k..End /\ \A m \in k..(l - 1) : fmt[m] \in Prefix
  BY <1>1 DEF Prefix
<1>5. l \in 1..End
  BY <1>3, <1>4
<1> HIDE DEF l
<1>6. m1 \in l..End /\ \A m \in l..(m1 - 1) : fmt[m] \in Prefix
  BY <1>1, <1>5 DEF Prefix
<1>7. m1 \in 1..End
  BY <1>3, <1>5, <1>6
<1> HIDE DEF m1
<1>8. z \in m1..End /\ \A m \in m1..(z - 1) : fmt[m] \in Prefix
  BY <1>1, <1>7 DEF Prefix, Digit
<1>9. z \in 1..End
  BY <1>3, <1>7, <1>8
<1> HIDE DEF z
<1>10. w \in z..End /\ \A m \in z..(w - 1) : fmt[m] \in Prefix
  BY <1>2, <1>9
<1>11. w \in 1..End
  BY <1>3, <1>9, <1>10
<1> HIDE DEF w
<1>12. c = IF Char(w) = "." THEN Skip(w + 1, Digit) ELSE w
  BY DEF PrefixEnd, w, z, m1, l
<1>13. c \in w..End /\ \A m \in w..(c - 1) : fmt[m] \in Prefix
  <2>1. CASE Char(w) = "."
    <3>1. w /= End /\ fmt[w] = "."
      BY <1>11, <2>1, EndIsTerminator
    <3>2. w + 1 \in 1..End
      BY <1>3, <1>11, <3>1
    <3>3. c \in (w + 1)..End /\ \A m \in (w + 1)..(c - 1) : fmt[m] \in Prefix
      BY <1>2, <1>12, <2>1, <3>2
    <3>4. \A m \in w..(c - 1) : m = w \/ m \in (w + 1)..(c - 1)
      BY <1>3, <1>11, <3>3
    <3> QED BY <1>3, <1>11, <3>1, <3>3, <3>4 DEF Prefix
  <2>2. CASE Char(w) /= "."
    BY <1>3, <1>11, <1>12, <2>2
  <2> QED BY <2>1, <2>2
<1>14. ASSUME NEW m \in k..(c - 1)
       PROVE  m \in k..(l - 1) \/ m \in l..(m1 - 1) \/ m \in m1..(z - 1)
              \/ m \in z..(w - 1) \/ m \in w..(c - 1)
  BY <1>3, <1>4, <1>6, <1>8, <1>10, <1>13
<1> QED BY <1>3, <1>4, <1>6, <1>8, <1>10, <1>13, <1>14

-----------------------------------------------------------------------------
(* LpPrint: what has been output. *)

PartType == [kind : {"text", "char", "field"}, from : Nat, to : Nat]

\* The parts follow each other.
AllContinue == \A n \in DOMAIN shown : Continues(shown[n], Behind(n - 1))

\* Behind the parts comes the "%" of the directive that is read, or the position itself,
\* unless the format has ended within a directive.
PrintInv ==
    /\ IsFormat /\ at \in 1..End /\ printPc \in {"text", "directive", "end"}
    /\ shown \in Seq(PartType) /\ AllContinue
    /\ LET k == Behind(Len(shown))
       IN  /\ printPc = "text" => at = k \/ (at = End /\ Opens(k, End - 1))
           /\ printPc = "directive" => at = k + 1 /\ fmt[k] = "%"
           /\ printPc = "end" => at = k /\ at = End

\* Parts end at positions.
LEMMA BehindIsNumber == PrintInv => Behind(Len(shown)) \in Nat /\ Len(shown) \in Nat
<1> SUFFICES ASSUME PrintInv PROVE Behind(Len(shown)) \in Nat /\ Len(shown) \in Nat
  OBVIOUS
<1>1. Len(shown) \in Nat /\ (Len(shown) /= 0 => shown[Len(shown)] \in PartType)
  BY DEF PrintInv
<1> QED BY <1>1 DEF Behind, PartType

\* One part more, that fits where the others end.
LEMMA PartAdded ==
    ASSUME PrintInv, fmt' = fmt, NEW p \in PartType, Continues(p, Behind(Len(shown))),
           shown' = Append(shown, p)
    PROVE  /\ shown' \in Seq(PartType) /\ AllContinue'
           /\ Behind(Len(shown))' = p.to + 1
<1>1. /\ shown \in Seq(PartType) /\ Len(shown) \in Nat /\ DOMAIN shown = 1..Len(shown)
      /\ \A n \in DOMAIN shown : Continues(shown[n], Behind(n - 1))
  BY DEF PrintInv, AllContinue
<1>2. /\ shown' \in Seq(PartType) /\ DOMAIN shown' = 1..(Len(shown) + 1)
      /\ Len(shown)' = Len(shown) + 1 /\ shown'[Len(shown) + 1] = p
      /\ \A n \in DOMAIN shown : shown'[n] = shown[n]
  BY <1>1
<1>3. \A n \in 0..Len(shown) : Behind(n)' = Behind(n)
  BY <1>1, <1>2 DEF Behind
<1>4. ASSUME NEW n \in DOMAIN shown' PROVE Continues(shown'[n], Behind(n - 1)')
  <2>1. n - 1 \in 0..Len(shown)
    BY <1>1, <1>2
  <2>2. Behind(n - 1)' = Behind(n - 1)
    BY <1>3, <2>1
  <2>3. CASE n = Len(shown) + 1
    <3>1. n - 1 = Len(shown) /\ shown'[n] = p
      BY <1>1, <1>2, <2>3
    <3> QED BY <2>2, <3>1
  <2>4. CASE n /= Len(shown) + 1
    <3>1. n \in DOMAIN shown
      BY <1>1, <1>2, <2>4
    <3> QED BY <1>1, <1>2, <2>2, <3>1
  <2> QED BY <2>3, <2>4
<1>5. AllContinue'
  BY <1>4 DEF AllContinue, Continues, Opens, End
<1>6. Behind(Len(shown))' = p.to + 1
  BY <1>1, <1>2 DEF Behind
<1> QED BY <1>2, <1>5, <1>6

\* The scan for the next "%".
LEMMA TextShown ==
    ASSUME PrintInv, Text
    PROVE  PrintInv'
<1> DEFINE S == {fmt[k] : k \in DOMAIN fmt} \ {"%"}
<1>1. PICK j : j = Skip(at, S)
  OBVIOUS
<1>2. /\ printPc = "text" /\ shown' = Append(shown, Part("text", at, j - 1)) /\ fmt' = fmt
      /\ IF j = End THEN printPc' = "end" /\ at' = End ELSE printPc' = "directive" /\ at' = j + 1
  BY <1>1 DEF Text
<1>3. "\\0" \notin S
  BY DEF PrintInv, IsFormat
<1> HIDE DEF S
<1>4. j \in at..End /\ Char(j) \notin S /\ \A m \in at..(j - 1) : Char(m) \in S
  BY <1>1, <1>3, SkipStops DEF PrintInv
<1>5. End \in Nat /\ at \in Nat /\ at >= 1 /\ j \in 1..End /\ j \in Nat
  BY <1>4, EndIsTerminator DEF PrintInv
<1>6. \A m \in at..(j - 1) : m \in 1..End /\ m /= End /\ m \in DOMAIN fmt
  BY <1>4, <1>5, EndIsTerminator DEF PrintInv
<1>7. \A m \in at..(j - 1) : fmt[m] /= "%"
  BY <1>4, <1>6, EndIsTerminator DEF S, PrintInv
<1>8. j /= End => Char(j) = fmt[j] /\ fmt[j] = "%"
  BY <1>4, <1>5, EndIsTerminator DEF S, PrintInv
<1>9. PICK p : p = Part("text", at, j - 1)
  OBVIOUS
<1>10. p.kind = "text" /\ p.from = at /\ p.to = j - 1 /\ p \in PartType
  BY <1>4, <1>5, <1>9 DEF Part, PartType
<1>11. Continues(p, Behind(Len(shown)))
  <2>1. at = Behind(Len(shown)) \/ (at = End /\ Opens(Behind(Len(shown)), End - 1))
    BY <1>2 DEF PrintInv
  <2>2. at <= (j - 1) + 1
    BY <1>4, <1>5
  <2> QED BY <1>7, <1>10, <2>1, <2>2 DEF Continues
<1>12. shown' \in Seq(PartType) /\ AllContinue' /\ Behind(Len(shown))' = j
  BY <1>2, <1>5, <1>9, <1>10, <1>11, PartAdded
<1>13. IsFormat' /\ End' = End /\ at' \in 1..End /\ printPc' \in {"text", "directive", "end"}
  BY <1>2, <1>4, <1>5 DEF PrintInv, IsFormat, End
<1>14. CASE j = End
  BY <1>2, <1>12, <1>13, <1>14 DEF PrintInv
<1>15. CASE j /= End
  BY <1>2, <1>8, <1>12, <1>13, <1>15 DEF PrintInv
<1> QED BY <1>14, <1>15

\* One directive: between its "%" and its last character there are prefixes.
LEMMA DirectiveShown ==
    ASSUME PrintInv, Directive
    PROVE  PrintInv'
<1>1. PICK c : c = PrefixEnd(at)
  OBVIOUS
<1>2. PICK k : k = Behind(Len(shown))
  OBVIOUS
<1>3. /\ printPc = "directive" /\ printPc' = "text" /\ fmt' = fmt
      /\ \/ Char(c) = "\\0" /\ at' = c /\ shown' = shown
         \/ /\ Char(c) \in Conversion
            /\ at' = c + 1 /\ shown' = Append(shown, Part("field", at - 1, c))
         \/ /\ Char(c) \notin Conversion \union {"\\0"}
            /\ at' = c + 1 /\ shown' = Append(shown, Part("char", c, c))
  BY <1>1 DEF Directive
<1>4. c \in at..End /\ \A m \in at..(c - 1) : fmt[m] \in Prefix
  BY <1>1, PrefixesEnd DEF PrintInv
<1>5. /\ End \in Nat /\ k \in Nat /\ at = k + 1 /\ fmt[k] = "%"
      /\ c \in 1..End /\ c \in Nat
  BY <1>2, <1>3, <1>4, EndIsTerminator, BehindIsNumber DEF PrintInv
<1>6. Opens(k, c - 1)
  <2>1. k <= c - 1 /\ \A m \in (k + 1)..(c - 1) : m \in at..(c - 1)
    BY <1>4, <1>5
  <2> QED BY <1>4, <1>5, <2>1 DEF Opens
<1>7. IsFormat' /\ End' = End
  BY <1>3 DEF PrintInv, IsFormat, End
<1>8. CASE Char(c) = "\\0" /\ at' = c /\ shown' = shown
  <2>1. c = End
    BY <1>5, <1>8, EndIsTerminator DEF PrintInv
  <2>2. AllContinue'
    BY <1>3, <1>8 DEF PrintInv, AllContinue, Continues, Opens, End, Behind
  <2>3. Behind(Len(shown))' = k
    BY <1>2, <1>8 DEF Behind
  <2>4. at' = End' /\ Opens(k, End - 1)'
    BY <1>3, <1>6, <1>7, <1>8, <2>1 DEF Opens, End
  <2> QED BY <1>3, <1>5, <1>7, <1>8, <2>1, <2>2, <2>3, <2>4 DEF PrintInv
<1>9. ASSUME NEW p \in PartType, p.to = c, Continues(p, k), at' = c + 1, shown' = Append(shown, p),
             c /= End
      PROVE  PrintInv'
  <2>1. shown' \in Seq(PartType) /\ AllContinue' /\ Behind(Len(shown))' = c + 1
    BY <1>2, <1>3, <1>9, PartAdded
  <2>2. c + 1 \in 1..End
    BY <1>5, <1>9
  <2> QED BY <1>3, <1>7, <1>9, <2>1, <2>2 DEF PrintInv
<1>10. c /= End => Char(c) = fmt[c]
  BY <1>5, EndIsTerminator DEF PrintInv
<1>11. CASE /\ Char(c) \in Conversion
            /\ at' = c + 1 /\ shown' = Append(shown, Part("field", at - 1, c))
  <2>1. PICK p : p = Part("field", at - 1, c)
    OBVIOUS
  <2>2. p.kind = "field" /\ p.from = k /\ p.to = c /\ p \in PartType
    BY <1>5, <2>1 DEF Part, PartType
  <2>3. Char(c) /= "\\0"
    BY <1>11 DEF Conversion
  <2>4. c /= End
    BY <1>5, <2>3, EndIsTerminator DEF PrintInv
  <2>5. Continues(p, k)
    BY <1>6, <1>10, <1>11, <2>2, <2>4 DEF Continues
  <2> QED BY <1>9, <1>11, <2>1, <2>2, <2>4, <2>5
<1>12. CASE /\ Char(c) \notin Conversion \union {"\\0"}
            /\ at' = c + 1 /\ shown' = Append(shown, Part("char", c, c))
  <2>1. PICK p : p = Part("char", c, c)
    OBVIOUS
  <2>2. p.kind = "char" /\ p.from = c /\ p.to = c /\ p \in PartType
    BY <1>5, <2>1 DEF Part, PartType
  <2>3. c /= End
    BY <1>5, <1>12, EndIsTerminator DEF PrintInv
  <2>4. Continues(p, k)
    BY <1>6, <1>10, <1>12, <2>2, <2>3 DEF Continues
  <2> QED BY <1>9, <1>12, <2>1, <2>2, <2>3, <2>4
<1> QED BY <1>3, <1>8, <1>11, <1>12

\* A field laid out apart, and a stuttering step, leave the format alone.
LEMMA FormatKept ==
    ASSUME PrintInv, UNCHANGED <<fmt, at, printPc, shown>>
    PROVE  PrintInv'
BY DEF PrintInv, IsFormat, AllContinue, End, Continues, Opens, Behind

\* lp_Print stays inside every format and goes through it in order, for formats of any
\* length, also one that ends within a directive: it outputs each character once, or lays
\* out a field for it, or drops it with the opening of a directive that shows no field.
THEOREM FormatIsAccounted == PrintSpec => []FormatAccounted
<1>1. PrintInit => PrintInv
  <2> SUFFICES ASSUME PrintInit PROVE PrintInv
    OBVIOUS
  <2>1. IsFormat
    BY FormatAssumption DEF PrintInit, IsFormat
  <2>2. at \in 1..End /\ DOMAIN shown = {} /\ shown \in Seq(PartType)
    BY <2>1, EndIsTerminator DEF PrintInit
  <2>3. Len(shown) = 0
    BY DEF PrintInit
  <2> QED BY <2>1, <2>2, <2>3 DEF PrintInit, PrintInv, AllContinue, Behind
<1>2. PrintInv /\ [PrintNext]_printVars => PrintInv'
  <2> SUFFICES ASSUME PrintInv, [PrintNext]_printVars PROVE PrintInv'
    OBVIOUS
  <2>1. CASE Text
    BY <2>1, TextShown
  <2>2. CASE Directive
    BY <2>2, DirectiveShown
  <2>3. CASE PrintField
    BY <2>3, FormatKept DEF PrintField
  <2>4. CASE UNCHANGED printVars
    BY <2>4, FormatKept DEF printVars
  <2> QED BY <2>1, <2>2, <2>3, <2>4 DEF PrintNext
<1>3. PrintInv => FormatAccounted
  <2> SUFFICES ASSUME PrintInv PROVE FormatAccounted
    OBVIOUS
  <2>1. PICK k : k = Behind(Len(shown)) /\ k \in Nat
    BY BehindIsNumber
  <2>2. /\ End \in Nat /\ at \in 1..End /\ at <= End
        /\ \A n \in DOMAIN shown : Continues(shown[n], Behind(n - 1))
    BY EndIsTerminator DEF PrintInv, AllContinue
  <2>3. at = k \/ (Opens(k, at - 1) /\ (printPc = "directive" \/ at = End))
    <3>1. CASE printPc = "text"
      BY <2>1, <3>1 DEF PrintInv
    <3>2. CASE printPc = "directive"
      <4>1. at - 1 = k /\ fmt[k] = "%"
        BY <2>1, <3>2 DEF PrintInv
      <4> QED BY <2>1, <3>2, <4>1 DEF Opens
    <3>3. CASE printPc = "end"
      BY <2>1, <3>3 DEF PrintInv
    <3> QED BY <3>1, <3>2, <3>3 DEF PrintInv
  <2>4. printPc = "end" => at = End
    BY DEF PrintInv
  <2> QED BY <2>1, <2>2, <2>3, <2>4 DEF FormatAccounted
<1> QED BY <1>1, <1>2, <1>3, PTL DEF PrintSpec

-----------------------------------------------------------------------------
(* LpPrint: functions defined by recursion over the natural numbers. *)

\* f is the n-fold iteration of g from x, with the values on the way.
Iteration(f, x, g, n) ==
    f \in [0..n -> Nat] /\ f[0] = x /\ \A k \in 0..(n - 1) : f[k + 1] = g[f[k]]

LEMMA IterationGrows ==
    ASSUME NEW x \in Nat, NEW g \in [Nat -> Nat], NEW n \in Nat, NEW f, Iteration(f, x, g, n)
    PROVE  \E h : Iteration(h, x, g, n + 1)
<1> DEFINE h == [k \in 0..(n + 1) |-> IF k <= n THEN f[k] ELSE g[f[n]]]
<1>1. f \in [0..n -> Nat] /\ f[0] = x /\ \A k \in 0..(n - 1) : f[k + 1] = g[f[k]]
  BY DEF Iteration
<1>2. h \in [0..(n + 1) -> Nat]
  <2>1. f[n] \in Nat
    BY ONLY <1>1, n \in Nat
  <2>2. g[f[n]] \in Nat
    BY ONLY <2>1, g \in [Nat -> Nat]
  <2>3. \A k \in 0..(n + 1) : k <= n => f[k] \in Nat
    <3>1. \A k \in 0..(n + 1) : k <= n => k \in 0..n
      BY ONLY n \in Nat
    <3>2. \A k \in 0..n : f[k] \in Nat
      BY ONLY <1>1
    <3> QED BY ONLY <3>1, <3>2
  <2> QED BY ONLY <2>2, <2>3
<1>3. h[0] = x
  BY <1>1
<1>4. ASSUME NEW k \in 0..((n + 1) - 1) PROVE h[k + 1] = g[h[k]]
  <2>1. k \in 0..n /\ k + 1 \in 0..(n + 1) /\ h[k] = f[k]
    OBVIOUS
  <2>2. CASE k = n
    BY <2>1, <2>2
  <2>3. CASE k /= n
    <3>1. k \in 0..(n - 1) /\ k + 1 <= n
      BY <2>1, <2>3
    <3>2. h[k + 1] = f[k + 1]
      BY <2>1, <3>1
    <3> QED BY <1>1, <2>1, <3>1, <3>2
  <2> QED BY <2>2, <2>3
<1> QED BY <1>2, <1>3, <1>4 DEF Iteration

LEMMA IterationsAgree ==
    ASSUME NEW x, NEW g, NEW m \in Nat, NEW n \in Nat, NEW f, NEW h,
           Iteration(f, x, g, m), Iteration(h, x, g, n)
    PROVE  \A k \in Nat : k <= m /\ k <= n => f[k] = h[k]
<1> DEFINE U == {k \in Nat : k <= m /\ k <= n => f[k] = h[k]}
<1>1. 0 \in U
  BY DEF Iteration
<1>2. ASSUME NEW k \in Nat, k \in U PROVE k + 1 \in U
  <2> SUFFICES ASSUME k + 1 <= m, k + 1 <= n PROVE f[k + 1] = h[k + 1]
    OBVIOUS
  <2>1. f[k] = h[k] /\ k \in 0..(m - 1) /\ k \in 0..(n - 1)
    BY <1>2
  <2> QED BY <2>1 DEF Iteration
<1>3. Nat \subseteq U
  <2> HIDE DEF U
  <2> QED BY <1>1, <1>2, Induct
<1> QED BY <1>3

\* A function can be iterated.
LEMMA Iterate ==
    ASSUME NEW x \in Nat, NEW g \in [Nat -> Nat]
    PROVE  \E f \in [Nat -> Nat] : f[0] = x /\ \A n \in Nat : f[n + 1] = g[f[n]]
<1> DEFINE S == {n \in Nat : \E f : Iteration(f, x, g, n)}
<1>1. 0 \in S
  <2>1. Iteration([k \in 0..0 |-> x], x, g, 0)
    BY DEF Iteration
  <2> QED BY <2>1
<1>2. ASSUME NEW n \in Nat, n \in S PROVE n + 1 \in S
  BY <1>2, IterationGrows
<1>3. Nat \subseteq S
  <2> HIDE DEF S
  <2> QED BY <1>1, <1>2, Induct
<1> DEFINE a(n) == CHOOSE f : Iteration(f, x, g, n)
           F == [n \in Nat |-> a(n)[n]]
<1>4. \A n \in Nat : Iteration(a(n), x, g, n)
  BY <1>3
<1> HIDE DEF a
<1>5. ASSUME NEW n \in Nat PROVE F[n] \in Nat /\ F[n] = a(n)[n]
  <2>1. a(n) \in [0..n -> Nat] /\ n \in 0..n
    BY <1>4 DEF Iteration
  <2> QED BY <2>1
<1>6. F[0] = x
  BY <1>4, <1>5 DEF Iteration
<1>7. ASSUME NEW n \in Nat PROVE F[n + 1] = g[F[n]]
  <2>1. n \in 0..((n + 1) - 1) /\ n + 1 \in Nat
    OBVIOUS
  <2>2. a(n + 1)[n + 1] = g[a(n + 1)[n]]
    BY <1>4, <2>1 DEF Iteration
  <2>3. a(n + 1)[n] = a(n)[n]
    BY <1>4, <2>1, IterationsAgree
  <2> QED BY <1>5, <2>1, <2>2, <2>3
<1>8. F \in [Nat -> Nat]
  BY <1>5
<1> HIDE DEF F
<1> QED BY <1>6, <1>7, <1>8

\* The iteration as a function that is equal to its recursive definition.
LEMMA Recursive ==
    ASSUME NEW x \in Nat, NEW g \in [Nat -> Nat]
    PROVE  \E h \in [Nat -> Nat] : h = [n \in Nat |-> IF n = 0 THEN x ELSE g[h[n - 1]]]
<1>1. PICK h \in [Nat -> Nat] : h[0] = x /\ \A n \in Nat : h[n + 1] = g[h[n]]
  BY Iterate
<1>2. h = [n \in Nat |-> IF n = 0 THEN x ELSE g[h[n - 1]]]
  <2> SUFFICES ASSUME NEW n \in Nat PROVE h[n] = IF n = 0 THEN x ELSE g[h[n - 1]]
    BY <1>1
  <2>1. CASE n = 0
    BY <1>1, <2>1
  <2>2. CASE n /= 0
    <3>1. n - 1 \in Nat /\ (n - 1) + 1 = n
      BY <2>2
    <3> QED BY <1>1, <2>2, <3>1
  <2> QED BY <2>1, <2>2
<1> QED BY <1>2

\* A function on Nat whose first value is a number, and each next one if the one before is.
LEMMA Numbers ==
    ASSUME NEW f, DOMAIN f = Nat, f = [n \in Nat |-> f[n]], f[0] \in Nat,
           \A n \in Nat : f[n] \in Nat => f[n + 1] \in Nat
    PROVE  f \in [Nat -> Nat]
<1> DEFINE S == {n \in Nat : f[n] \in Nat}
<1>1. 0 \in S
  OBVIOUS
<1>2. ASSUME NEW n \in Nat, n \in S PROVE n + 1 \in S
  <2>1. f[n] \in Nat /\ n + 1 \in Nat
    BY <1>2
  <2>2. f[n + 1] \in Nat
    BY <2>1
  <2> QED BY <2>1, <2>2
<1>3. Nat \subseteq S
  <2> HIDE DEF S
  <2> QED BY <1>1, <1>2, Induct
<1> QED BY <1>3

LEMMA PowerDef ==
    ASSUME NEW b \in Nat
    PROVE  /\ Power(b) \in [Nat -> Nat] /\ Power(b)[0] = 1
           /\ \A n \in Nat : Power(b)[n + 1] = b * Power(b)[n]
<1> DEFINE g == [y \in Nat |-> b * y]
           Def(h) == [n \in Nat |-> IF n = 0 THEN 1 ELSE b * h[n - 1]]
           p == CHOOSE h : h = Def(h)
<1>1. PICK h \in [Nat -> Nat] : h = [n \in Nat |-> IF n = 0 THEN 1 ELSE g[h[n - 1]]]
  <2>1. g \in [Nat -> Nat]
    OBVIOUS
  <2> HIDE DEF g
  <2> QED BY ONLY <2>1, 1 \in Nat, Recursive
<1>2. h = Def(h)
  <2>1. \A n \in Nat : n /= 0 => n - 1 \in Nat
    OBVIOUS
  <2>2. \A n \in Nat : n /= 0 => g[h[n - 1]] = b * h[n - 1]
    BY <2>1
  <2> QED BY <1>1, <2>2
<1>3. p = Def(p)
  <2> HIDE DEF Def
  <2> QED BY <1>2
<1>4. Power(b) = p
  BY DEF Power
<1> HIDE DEF p
<1>5. p = [n \in Nat |-> p[n]] /\ p[0] = 1 /\ DOMAIN p = Nat
  BY ONLY <1>3
<1>6. ASSUME NEW n \in Nat PROVE p[n + 1] = b * p[n]
  <2>1. n + 1 \in Nat /\ n + 1 /= 0 /\ (n + 1) - 1 = n
    OBVIOUS
  <2>2. p[n + 1] = Def(p)[n + 1]
    BY <1>3
  <2> QED BY ONLY <2>1, <2>2
<1>7. p \in [Nat -> Nat]
  <2>1. \A n \in Nat : p[n] \in Nat => p[n + 1] \in Nat
    BY <1>6
  <2> QED BY ONLY <1>5, <2>1, 1 \in Nat, Numbers
<1> QED BY <1>4, <1>5, <1>6, <1>7

LEMMA RestDef ==
    ASSUME NEW b \in Nat, b > 0, NEW u \in Nat
    PROVE  /\ Rest(u, b) \in [Nat -> Nat] /\ Rest(u, b)[0] = u
           /\ \A n \in Nat : Rest(u, b)[n + 1] = Rest(u, b)[n] \div b
<1> DEFINE g == [y \in Nat |-> y \div b]
           Def(h) == [n \in Nat |-> IF n = 0 THEN u ELSE h[n - 1] \div b]
           p == CHOOSE h : h = Def(h)
<1>0. \A y \in Nat : y \div b \in Nat
  OBVIOUS
<1>1. PICK h \in [Nat -> Nat] : h = [n \in Nat |-> IF n = 0 THEN u ELSE g[h[n - 1]]]
  <2>1. g \in [Nat -> Nat]
    BY <1>0
  <2> HIDE DEF g
  <2> QED BY ONLY <2>1, u \in Nat, Recursive
<1>2. h = Def(h)
  <2>1. \A n \in Nat : n /= 0 => n - 1 \in Nat
    OBVIOUS
  <2>2. \A n \in Nat : n /= 0 => g[h[n - 1]] = h[n - 1] \div b
    BY <2>1
  <2> QED BY <1>1, <2>2
<1>3. p = Def(p)
  <2> HIDE DEF Def
  <2> QED BY <1>2
<1>4. Rest(u, b) = p
  BY DEF Rest
<1> HIDE DEF p
<1>5. p = [n \in Nat |-> p[n]] /\ p[0] = u /\ DOMAIN p = Nat
  BY ONLY <1>3
<1>6. ASSUME NEW n \in Nat PROVE p[n + 1] = p[n] \div b
  <2>1. n + 1 \in Nat /\ n + 1 /= 0 /\ (n + 1) - 1 = n
    OBVIOUS
  <2>2. p[n + 1] = Def(p)[n + 1]
    BY <1>3
  <2> QED BY ONLY <2>1, <2>2
<1>7. p \in [Nat -> Nat]
  BY <1>0, <1>5, <1>6, Numbers
<1> QED BY <1>4, <1>5, <1>6, <1>7

-----------------------------------------------------------------------------
(* Powers and repeated division. *)

\* Division with remainder is unique.
LEMMA Division ==
    ASSUME NEW b \in Nat, b >= 1, NEW v \in Nat, NEW q \in Nat, NEW r \in 0..(b - 1), v = q * b + r
    PROVE  v \div b = q /\ v % b = r
<1>1. v \div b \in Nat /\ v % b \in 0..(b - 1) /\ v = b * (v \div b) + (v % b)
  OBVIOUS
<1>2. PICK w \in Nat, s \in 0..(b - 1) : w = v \div b /\ s = v % b /\ v = b * w + s
  BY <1>1
<1>3. q * b + r = w * b + s
  BY <1>2
<1>4. CASE q > w
  <2>1. (q - w) * b >= b
    BY <1>4
  <2> QED BY <1>3, <2>1
<1>5. CASE q < w
  <2>1. (w - q) * b >= b
    BY <1>5
  <2> QED BY <1>3, <2>1
<1>6. CASE q = w
  BY <1>2, <1>3, <1>6
<1> QED BY <1>2, <1>4, <1>5, <1>6

\* The same, of numbers that are terms.
Splits(v, b, q, r) == b \in Nat /\ b >= 1 /\ v \in Nat /\ q \in Nat /\ r \in 0..(b - 1) /\ v = q * b + r
LEMMA SplitsAs ==
    ASSUME NEW v, NEW b, NEW q, NEW r, Splits(v, b, q, r)
    PROVE  v \div b = q /\ v % b = r
<1>1. b \in Nat /\ b >= 1 /\ v \in Nat /\ q \in Nat /\ r \in 0..(b - 1) /\ v = q * b + r
  BY DEF Splits
<1> QED BY ONLY <1>1, Division

\* Powers of a base.
LEMMA PowersPositive ==
    ASSUME NEW b \in Nat, b > 0
    PROVE  \A n \in Nat : Power(b)[n] \in Nat /\ Power(b)[n] > 0
<1> DEFINE S == {n \in Nat : Power(b)[n] > 0}
<1>1. 0 \in S
  <2>1. Power(b)[0] = 1
    BY PowerDef
  <2> QED BY <2>1
<1>2. ASSUME NEW n \in Nat, n \in S PROVE n + 1 \in S
  <2>1. PICK q \in Nat : q = Power(b)[n] /\ q > 0
    BY <1>2, PowerDef
  <2>2. Power(b)[n + 1] = b * q
    BY <2>1, PowerDef
  <2>3. b * q > 0
    BY ONLY <2>1, b \in Nat, b > 0
  <2> QED BY <2>2, <2>3
<1>3. Nat \subseteq S
  <2> HIDE DEF S
  <2> QED BY <1>1, <1>2, Induct
<1> QED BY <1>3, PowerDef

\* Larger exponents, and larger bases than two, give larger powers.
LEMMA PowersGrow ==
    ASSUME NEW b \in Nat, b > 0, NEW m \in Nat, NEW n \in Nat, m <= n
    PROVE  Power(b)[m] <= Power(b)[n]
<1> DEFINE S == {d \in Nat : Power(b)[m] <= Power(b)[m + d]}
<1>1. 0 \in S
  <2>1. m + 0 = m /\ Power(b)[m] \in Nat
    BY PowersPositive
  <2> QED BY <2>1
<1>2. ASSUME NEW d \in Nat, d \in S PROVE d + 1 \in S
  <2>1. m + d \in Nat /\ m + (d + 1) = (m + d) + 1
    OBVIOUS
  <2>2. PICK p \in Nat, q \in Nat : p = Power(b)[m] /\ q = Power(b)[m + d] /\ p <= q
    BY <1>2, <2>1, PowersPositive
  <2>3. Power(b)[m + (d + 1)] = b * q
    BY <2>1, <2>2, PowerDef
  <2>4. b * q >= q
    BY ONLY <2>2, b \in Nat, b > 0
  <2>5. p <= b * q
    BY ONLY <2>2, <2>4, b \in Nat
  <2> QED BY <2>2, <2>3, <2>5
<1>3. Nat \subseteq S
  <2> HIDE DEF S
  <2> QED BY <1>1, <1>2, Induct
<1>4. n - m \in Nat /\ m + (n - m) = n
  OBVIOUS
<1> QED BY <1>3, <1>4

LEMMA TwoIsLeast ==
    ASSUME NEW b \in Nat, b >= 2
    PROVE  \A n \in Nat : Power(2)[n] <= Power(b)[n]
<1> DEFINE S == {n \in Nat : Power(2)[n] <= Power(b)[n]}
<1>1. 0 \in S
  <2>1. Power(2)[0] = 1 /\ Power(b)[0] = 1
    BY PowerDef
  <2> QED BY <2>1
<1>2. ASSUME NEW n \in Nat, n \in S PROVE n + 1 \in S
  <2>1. PICK p \in Nat, q \in Nat : p = Power(2)[n] /\ q = Power(b)[n] /\ p <= q
    BY <1>2, PowersPositive
  <2>2. Power(2)[n + 1] = 2 * p /\ Power(b)[n + 1] = b * q
    BY <2>1, PowerDef
  <2>3. b * q >= 2 * q
    BY ONLY b \in Nat, b >= 2, q \in Nat
  <2>4. 2 * p <= b * q
    BY ONLY <2>1, <2>3, b \in Nat
  <2> QED BY <2>2, <2>4
<1>3. Nat \subseteq S
  <2> HIDE DEF S
  <2> QED BY <1>1, <1>2, Induct
<1> QED BY <1>3

\* Divided with remainder.
LEMMA Divided ==
    ASSUME NEW v \in Nat, NEW d \in Nat, d > 0
    PROVE  /\ v \div d \in Nat /\ v % d \in Nat
           /\ v = d * (v \div d) + (v % d) /\ v % d < d
OBVIOUS

\* The quotient is determined by its bounds.
LEMMA QuotientOf ==
    ASSUME NEW v \in Nat, NEW d \in Nat, d > 0, NEW q \in Nat, NEW r \in Nat,
           v = d * q + r, r < d
    PROVE  v \div d = q
<1>1. r \in 0..(d - 1) /\ v = q * d + r
  OBVIOUS
<1> QED BY <1>1, Division

\* Two divisions are one by the product.
LEMMA TwoDivisions ==
    ASSUME NEW v \in Nat, NEW p \in Nat, p > 0, NEW b \in Nat, b > 0
    PROVE  (v \div p) \div b = v \div (b * p)
<1>1. PICK q \in Nat, r \in Nat : q = v \div p /\ v = p * q + r /\ r < p
  BY Divided
<1>2. PICK x \in Nat, y \in Nat : x = q \div b /\ q = b * x + y /\ y < b
  BY Divided
<1>3. PICK z \in Nat : z = p * y /\ z <= p * b - p
  <2>1. p * y <= p * (b - 1)
    BY ONLY <1>2, p \in Nat, b \in Nat, y \in Nat
  <2>2. p * (b - 1) = p * b - p
    BY ONLY p \in Nat, b \in Nat
  <2> QED BY <2>1, <2>2
<1>4. b * p \in Nat /\ b * p > 0 /\ b * p = p * b
  BY ONLY p \in Nat, b \in Nat, p > 0, b > 0
<1>5. v = (b * p) * x + (z + r)
  <2>1. p * (b * x + y) = p * (b * x) + p * y
    BY ONLY <1>2, p \in Nat, b \in Nat
  <2>2. p * (b * x) = (b * p) * x
    BY ONLY <1>2, p \in Nat, b \in Nat
  <2>3. p * q = (b * p) * x + z
    BY ONLY <1>2, <1>3, <2>1, <2>2
  <2>4. (b * p) * x \in Nat
    BY ONLY <1>2, <1>4
  <2> QED BY ONLY <1>1, <1>3, <2>3, <2>4
<1>6. z + r \in Nat /\ z + r < b * p
  BY ONLY <1>1, <1>3, <1>4, p \in Nat, b \in Nat
<1>7. v \div (b * p) = x
  BY ONLY <1>2, <1>4, <1>5, <1>6, v \in Nat, QuotientOf
<1> QED BY <1>1, <1>2, <1>7

\* PrintNum's divisions.
LEMMA RestIsQuotient ==
    ASSUME NEW b \in Nat, b > 0, NEW u \in Nat
    PROVE  \A k \in Nat : Rest(u, b)[k] = u \div Power(b)[k]
<1> DEFINE S == {k \in Nat : Rest(u, b)[k] = u \div Power(b)[k]}
<1>1. 0 \in S
  <2>1. u \div 1 = u
    OBVIOUS
  <2> QED BY <2>1, RestDef, PowerDef
<1>2. ASSUME NEW k \in Nat, k \in S PROVE k + 1 \in S
  <2>1. PICK p \in Nat : p = Power(b)[k] /\ p > 0
    BY PowersPositive
  <2>2. Power(b)[k + 1] = b * p
    BY <2>1, PowerDef
  <2>3. Rest(u, b)[k + 1] = (u \div p) \div b
    BY <1>2, <2>1, RestDef
  <2>4. Rest(u, b)[k + 1] = u \div (b * p)
    BY <2>1, <2>3, TwoDivisions
  <2> QED BY <2>2, <2>4
<1>3. Nat \subseteq S
  <2> HIDE DEF S
  <2> QED BY <1>1, <1>2, Induct
<1> QED BY <1>3

-----------------------------------------------------------------------------
(* The digits and the sign of a number. *)

\* The loop ends after at most LongBits digits, as many as the number has places.
LEMMA DigitsArePlaces ==
    ASSUME NEW b \in Nat, b >= 2, NEW u \in Nat, u < Power(2)[LongBits]
    PROVE  /\ DigitCount(u, b) = PlacesOf(u, b) /\ DigitCount(u, b) \in 1..LongBits
           /\ \A k \in Nat : Rest(u, b)[k] = u \div Power(b)[k]
<1> DEFINE R(k) == Rest(u, b)[k]
           Pow(k) == Power(b)[k]
<1>1. LongBits \in Nat /\ LongBits >= 1
  BY WordAssumption
<1>2. \A k \in Nat : Pow(k) \in Nat /\ Pow(k) > 0 /\ R(k) = u \div Pow(k)
  BY PowersPositive, RestIsQuotient
<1>3. \A k \in Nat : R(k) = 0 <=> u < Pow(k)
  <2> TAKE k \in Nat
  <2> DEFINE p == Pow(k)
  <2>4. p \in Nat /\ p > 0 /\ R(k) = u \div p
    BY <1>2
  <2> HIDE DEF p, R
  <2>1. PICK q \in Nat, r \in Nat : q = u \div p /\ u = p * q + r /\ r < p
    BY <2>4, Divided
  <2>2. q /= 0 => p * q >= p
    BY ONLY <2>1, <2>4
  <2>3. q = 0 => p * q = 0
    BY ONLY <2>4
  <2>5. u \div p = 0 <=> u < p
    BY ONLY <2>1, <2>2, <2>3, <2>4, u \in Nat
  <2> QED BY <2>4, <2>5 DEF p
<1>4. \A m, n \in Nat : m <= n => Pow(m) <= Pow(n)
  BY PowersGrow
<1>5. u < Pow(LongBits)
  <2>1. Power(2)[LongBits] <= Pow(LongBits) /\ Power(2)[LongBits] \in Nat
    BY <1>1, TwoIsLeast, PowersPositive
  <2> QED BY <1>1, <1>2, <2>1
<1> DEFINE Ends(n) == R(n) = 0 /\ \A k \in 1..(n - 1) : R(k) /= 0
           Fits(n) == u < Pow(n) /\ (n = 1 \/ u >= Pow(n - 1))
<1> HIDE DEF R, Pow
<1>6. ASSUME NEW n \in 1..LongBits PROVE Ends(n) <=> Fits(n)
  <2>1. n \in Nat /\ n - 1 \in Nat
    BY <1>1
  <2>2. Ends(n) => Fits(n)
    <3>1. n /= 1 => n - 1 \in 1..(n - 1)
      BY <1>1
    <3> QED BY ONLY <1>2, <1>3, <2>1, <3>1, u \in Nat
  <2>3. Fits(n) => Ends(n)
    <3> SUFFICES ASSUME Fits(n), NEW k \in 1..(n - 1) PROVE ~(u < Pow(k))
      BY <1>3, <2>1
    <3>1. k <= n - 1 /\ k \in Nat /\ n /= 1
      BY <2>1
    <3>2. Pow(k) <= Pow(n - 1) /\ u >= Pow(n - 1)
      BY <1>4, <2>1, <3>1
    <3> QED BY <1>2, <2>1, <3>1, <3>2
  <2> QED BY <2>2, <2>3
<1>7. \E n \in 1..LongBits : Ends(n)
  <2> DEFINE T == {n \in 1..LongBits : R(n) = 0}
  <2>1. LongBits \in T
    BY <1>1, <1>3, <1>5
  <2>2. T \in SUBSET Nat /\ T /= {}
    BY <1>1, <2>1
  <2>3. PICK n \in T : \A m \in T : n <= m
    BY ONLY <2>2, LeastElement
  <2>4. n \in 1..LongBits /\ R(n) = 0
    BY <2>3
  <2>5. ASSUME NEW k \in 1..(n - 1) PROVE R(k) /= 0
    <3>1. k \in 1..LongBits /\ ~(n <= k)
      BY <1>1, <2>4
    <3> QED BY <2>3, <3>1
  <2> QED BY <2>4, <2>5
<1>8. \A m, n \in 1..LongBits : Ends(m) /\ Ends(n) => m = n
  <2> SUFFICES ASSUME NEW m \in 1..LongBits, NEW n \in 1..LongBits, Ends(m), Ends(n), m < n
               PROVE  FALSE
    BY <1>1
  <2>1. m \in 1..(n - 1)
    BY <1>1
  <2> QED BY <2>1
<1> HIDE DEF Ends, Fits
<1>9. (CHOOSE n \in 1..LongBits : Ends(n)) = (CHOOSE n \in 1..LongBits : Fits(n))
      /\ (CHOOSE n \in 1..LongBits : Ends(n)) \in 1..LongBits
  <2>1. PICK n \in 1..LongBits : Ends(n) /\ \A m \in 1..LongBits : Ends(m) => m = n
    BY <1>7, <1>8
  <2>2. (CHOOSE m \in 1..LongBits : Ends(m)) = n
    BY <2>1
  <2>3. Fits(n) /\ \A m \in 1..LongBits : Fits(m) => m = n
    BY <1>6, <2>1
  <2>4. (CHOOSE m \in 1..LongBits : Fits(m)) = n
    BY <2>3
  <2> QED BY <2>2, <2>4
<1>10. (CHOOSE n \in 1..LongBits : Ends(n)) = DigitCount(u, b)
  BY DEF Ends, R, DigitCount
<1>11. (CHOOSE n \in 1..LongBits : Fits(n)) = PlacesOf(u, b)
  BY DEF Fits, Pow, PlacesOf
<1> QED BY <1>2, <1>9, <1>10, <1>11 DEF R, Pow

-----------------------------------------------------------------------------
\* The remainder next to zero.
LEMMA Remainder ==
    ASSUME NEW p \in Nat, p > 0, NEW x \in Int
    PROVE  /\ x % p \in Nat /\ x % p < p
           /\ x >= 0 /\ x < p => x % p = x
           /\ x < 0 /\ 0 - p <= x => x % p = x + p
OBVIOUS

\* A word of so many bits, read as a signed number.
LEMMA SignedRange ==
    ASSUME NEW bits \in Nat \ {0}, NEW h, h = Power(2)[bits - 1]
    PROVE  /\ h \in Nat /\ h > 0 /\ Power(2)[bits] = 2 * h
           /\ \A x \in Int : Signed(x, bits) \in Int /\ 0 - h <= Signed(x, bits) /\ Signed(x, bits) < h
<1>1. bits - 1 \in Nat /\ (bits - 1) + 1 = bits
  OBVIOUS
<1>2. h \in Nat /\ h > 0 /\ Power(2)[bits] = 2 * h
  BY <1>1, PowersPositive, PowerDef
<1>3. ASSUME NEW x \in Int PROVE Signed(x, bits) \in Int /\ 0 - h <= Signed(x, bits) /\ Signed(x, bits) < h
  <2>1. PICK y \in Nat : y = x % (2 * h) /\ y < 2 * h
    BY ONLY <1>2, x \in Int, Remainder
  <2>2. Signed(x, bits) = IF y >= h THEN y - 2 * h ELSE y
    BY <1>2, <2>1 DEF Signed
  <2> QED BY ONLY <1>2, <2>1, <2>2
<1> QED BY <1>2, <1>3

\* The number that lp_Print passes to PrintNum is the absolute value, the smallest long included.
LEMMA Magnitude ==
    ASSUME NEW num \in Int, NEW h, h = Power(2)[LongBits - 1], 0 - h <= num, num < h
    PROVE  /\ num < 0 => Signed(0 - num, LongBits) % Power(2)[LongBits] = 0 - num
           /\ num >= 0 => num % Power(2)[LongBits] = num
           /\ num % Power(2)[LongBits] \in Nat /\ num % Power(2)[LongBits] < Power(2)[LongBits]
           /\ Power(2)[LongBits] \in Nat /\ num < Power(2)[LongBits] /\ 0 - num < Power(2)[LongBits]
<1>1. LongBits \in Nat \ {0}
  BY WordAssumption
<1>2. h \in Nat /\ h > 0 /\ Power(2)[LongBits] = 2 * h
  BY <1>1, SignedRange
<1> DEFINE p == 2 * h
<1>3. p \in Nat /\ p > 0 /\ h < p
  BY ONLY <1>2
<1>4. num < 0 => Signed(0 - num, LongBits) % p = 0 - num
  <2> SUFFICES ASSUME num < 0 PROVE Signed(0 - num, LongBits) % p = 0 - num
    OBVIOUS
  <2> DEFINE v == 0 - num
  <2>1. v \in Int /\ 0 < v /\ v <= h /\ v < p
    BY <1>2
  <2>2. v % p = v
    BY ONLY <1>3, <2>1, Remainder
  <2>3. Signed(v, LongBits) = IF v >= h THEN v - p ELSE v
    BY <1>2, <2>2 DEF Signed
  <2>4. CASE v = h
    <3>1. Signed(v, LongBits) = 0 - h
      BY ONLY <1>2, <2>3, <2>4
    <3>2. (0 - h) % p = (0 - h) + p
      BY ONLY <1>2, <1>3, Remainder
    <3> QED BY <1>2, <2>4, <3>1, <3>2
  <2>5. CASE v /= h
    BY <1>2, <2>1, <2>2, <2>3, <2>5
  <2> QED BY <2>4, <2>5
<1>5. num >= 0 => num % p = num
  BY ONLY <1>2, <1>3, num \in Int, num < h, Remainder
<1>6. num % p \in Nat /\ num % p < p
  BY ONLY <1>3, num \in Int, Remainder
<1> QED BY <1>2, <1>3, <1>4, <1>5, <1>6

-----------------------------------------------------------------------------
(* A field: digits, sign and padding, reversed. *)

\* Two strings in a row, position by position.
LEMMA Two ==
    ASSUME NEW s \in Seq(Int), NEW t \in Seq(Int)
    PROVE  /\ s \o t \in Seq(Int) /\ Len(s \o t) = Len(s) + Len(t)
           /\ \A k \in 1..Len(s) : (s \o t)[k] = s[k]
           /\ \A k \in 1..Len(t) : (s \o t)[Len(s) + k] = t[k]
<1>1. s \o t \in Seq(Int)
  OBVIOUS
<1>2. Len(s \o t) = Len(s) + Len(t)
  OBVIOUS
<1>3. \A k \in 1..Len(s) : (s \o t)[k] = s[k]
  OBVIOUS
<1>4. ASSUME NEW k \in 1..Len(t) PROVE (s \o t)[Len(s) + k] = t[k]
  <2>0. Len(s) \in Nat /\ Len(t) \in Nat
    OBVIOUS
  <2>1. Len(s) + k \in 1..(Len(s) + Len(t)) /\ ~(Len(s) + k <= Len(s)) /\ Len(s) + k - Len(s) = k
    BY <2>0
  <2> QED BY <2>1
<1> QED BY <1>1, <1>2, <1>3, <1>4

\* A string made of three, part by part.
LEMMA Joined ==
    ASSUME NEW s \in Seq(Int), NEW t \in Seq(Int), NEW r \in Seq(Int),
           NEW f \in [1..(Len(s) + Len(t) + Len(r)) -> Int],
           \A k \in 1..Len(s) : f[k] = s[k],
           \A k \in 1..Len(t) : f[Len(s) + k] = t[k],
           \A k \in 1..Len(r) : f[Len(s) + Len(t) + k] = r[k]
    PROVE  f = s \o t \o r
<1> DEFINE two == s \o t
           all == two \o r
<1>. PICK a \in Nat, b \in Nat, c \in Nat : a = Len(s) /\ b = Len(t) /\ c = Len(r)
  OBVIOUS
<1>. /\ f \in [1..(a + b + c) -> Int] /\ \A k \in 1..a : f[k] = s[k]
     /\ \A k \in 1..b : f[a + k] = t[k]
     /\ \A k \in 1..c : f[a + b + k] = r[k]
  OBVIOUS
<1>0. /\ two \in Seq(Int) /\ Len(two) = a + b /\ \A k \in 1..a : two[k] = s[k]
      /\ \A k \in 1..b : two[a + k] = t[k]
  BY ONLY s \in Seq(Int), t \in Seq(Int), Len(s) = a, Len(t) = b, Two
<1> HIDE DEF two
<1>10. /\ all \in Seq(Int) /\ Len(all) = a + b + c /\ \A k \in 1..(a + b) : all[k] = two[k]
       /\ \A k \in 1..c : all[a + b + k] = r[k]
  <2>1. /\ all \in Seq(Int) /\ Len(all) = Len(two) + Len(r) /\ \A k \in 1..Len(two) : all[k] = two[k]
        /\ \A k \in 1..Len(r) : all[Len(two) + k] = r[k]
    BY ONLY <1>0, r \in Seq(Int), Two
  <2> HIDE DEF all
  <2> QED BY ONLY <1>0, <2>1, Len(r) = c
<1> HIDE DEF all
<1>1. all \in Seq(Int) /\ Len(all) = a + b + c
  BY <1>10
<1>2. \A k \in 1..a : all[k] = s[k]
  <2>1. \A k \in 1..a : k \in 1..(a + b)
    BY ONLY a \in Nat, b \in Nat
  <2> QED BY ONLY <1>0, <1>10, <2>1
<1>3. \A k \in 1..b : all[a + k] = t[k]
  <2>1. \A k \in 1..b : a + k \in 1..(a + b)
    BY ONLY a \in Nat, b \in Nat
  <2> QED BY ONLY <1>0, <1>10, <2>1
<1>4. \A k \in 1..c : all[a + b + k] = r[k]
  BY ONLY <1>10
<1>5. ASSUME NEW k \in 1..(a + b + c) PROVE f[k] = all[k]
  <2>1. CASE k \in 1..a
    BY ONLY <1>2, <2>1, \A m \in 1..a : f[m] = s[m]
  <2>2. CASE k - a \in 1..b
    <3>1. a + (k - a) = k
      OBVIOUS
    <3> QED BY ONLY <1>3, <2>2, <3>1, \A m \in 1..b : f[a + m] = t[m]
  <2>3. CASE k - a - b \in 1..c
    <3>1. a + b + (k - a - b) = k
      OBVIOUS
    <3> QED BY ONLY <1>4, <2>3, <3>1, \A m \in 1..c : f[a + b + m] = r[m]
  <2> QED BY <2>1, <2>2, <2>3
<1>6. f = all
  BY ONLY <1>1, <1>5, f \in [1..(a + b + c) -> Int]
<1> QED BY <1>6 DEF two, all

\* PrintNum's local variables before it reverses the buffer: d are the digits from right to left.
IsBuffer(n, d, neg, width, ladjust, zero, actual, length, padc, sign, buf, end, body, mark, f) ==
    /\ n \in Nat /\ n > 0 /\ d \in [1..n -> Int]
    /\ neg \in BOOLEAN /\ width \in Nat /\ ladjust \in BOOLEAN /\ zero \in BOOLEAN
    /\ actual = IF neg THEN n + 1 ELSE n
    /\ length = Larger(width, actual)
    /\ padc = IF zero /\ ~ladjust THEN 0 ELSE Blank
    /\ sign = IF neg /\ padc = 0 THEN length ELSE n + 1
    /\ \A k \in 1..length : buf[k] = IF k <= n THEN d[k] ELSE IF neg /\ k = sign THEN Minus ELSE padc
    /\ end = IF ladjust THEN actual ELSE length
    /\ body = [k \in 1..n |-> d[n + 1 - k]]
    /\ mark = IF neg THEN <<Minus>> ELSE <<>>
    /\ f = [k \in 1..length |-> IF k <= end THEN buf[end + 1 - k] ELSE buf[k]]

LEMMA NumberLaidOut ==
    ASSUME NEW n, NEW d, NEW neg, NEW width, NEW ladjust, NEW zero, NEW actual, NEW length,
           NEW padc, NEW sign, NEW buf, NEW end, NEW body, NEW mark, NEW f,
           IsBuffer(n, d, neg, width, ladjust, zero, actual, length, padc, sign, buf, end, body, mark, f)
    PROVE  f =
              IF ladjust THEN mark \o body \o Repeat(Blank, length - actual)
              ELSE IF zero THEN mark \o Repeat(0, length - actual) \o body
              ELSE Repeat(Blank, length - actual) \o mark \o body
<1>. /\ n \in Nat /\ n > 0 /\ d \in [1..n -> Int]
     /\ neg \in BOOLEAN /\ width \in Nat /\ ladjust \in BOOLEAN /\ zero \in BOOLEAN
     /\ actual = (IF neg THEN n + 1 ELSE n)
     /\ length = Larger(width, actual)
     /\ padc = (IF zero /\ ~ladjust THEN 0 ELSE Blank)
     /\ sign = (IF neg /\ padc = 0 THEN length ELSE n + 1)
     /\ \A k \in 1..length : buf[k] = IF k <= n THEN d[k] ELSE IF neg /\ k = sign THEN Minus ELSE padc
     /\ end = (IF ladjust THEN actual ELSE length)
     /\ body = [k \in 1..n |-> d[n + 1 - k]]
     /\ mark = (IF neg THEN <<Minus>> ELSE <<>>)
     /\ f = [k \in 1..length |-> IF k <= end THEN buf[end + 1 - k] ELSE buf[k]]
  BY DEF IsBuffer
<1> DEFINE m == actual - n
           p == length - actual
<1>1. /\ n \in Nat /\ n > 0 /\ m \in Nat /\ p \in Nat /\ actual \in Nat /\ length \in Nat
      /\ actual = m + n /\ length = m + n + p
      /\ m = IF neg THEN 1 ELSE 0
  <2>1. actual \in Nat /\ m = (IF neg THEN 1 ELSE 0) /\ actual = m + n
    OBVIOUS
  <2>2. length \in Nat /\ actual <= length
    BY <2>1 DEF Larger
  <2>3. p \in Nat /\ length = actual + p
    BY ONLY <2>1, <2>2
  <2> HIDE DEF m, p
  <2> QED BY ONLY <2>1, <2>2, <2>3, n \in Nat, n > 0, neg \in BOOLEAN
<1>2. /\ sign = IF neg /\ padc = 0 THEN length ELSE n + 1
      /\ padc = IF zero /\ ~ladjust THEN 0 ELSE Blank
      /\ end = IF ladjust THEN actual ELSE length
      /\ Blank = 17 /\ Minus = 16
  BY DEF Blank, Minus
<1>3. /\ sign \in Nat /\ n < sign /\ end \in Nat /\ padc \in Int /\ actual <= end /\ end <= length
      /\ neg => sign <= length
  BY ONLY <1>1, <1>2
<1>4. \A k \in 1..length : buf[k] = IF k <= n THEN d[k] ELSE IF neg /\ k = sign THEN Minus ELSE padc
  OBVIOUS
<1>5. \A k \in 1..length : buf[k] \in Int
  BY ONLY <1>1, <1>2, <1>3, <1>4, d \in [1..n -> Int]
<1>6. \A k \in 1..length : f[k] = IF k <= end THEN buf[end + 1 - k] ELSE buf[k]
  BY ONLY f = [k \in 1..length |-> IF k <= end THEN buf[end + 1 - k] ELSE buf[k]]
<1>7. f \in [1..length -> Int]
  <2>1. \A k \in 1..length : k <= end => end + 1 - k \in 1..length
    BY ONLY <1>1, <1>3
  <2>2. f = [k \in 1..length |-> f[k]]
    BY ONLY f = [k \in 1..length |-> IF k <= end THEN buf[end + 1 - k] ELSE buf[k]]
  <2>3. \A k \in 1..length : f[k] \in Int
    BY ONLY <1>5, <1>6, <2>1
  <2> QED BY ONLY <2>2, <2>3
<1>8. mark \in Seq(Int) /\ Len(mark) = m /\ \A k \in 1..m : neg /\ k = 1 /\ mark[k] = Minus
  <2>1. m = (IF neg THEN 1 ELSE 0) /\ Minus \in Int
    BY <1>1, <1>2
  <2> HIDE DEF m
  <2>2. CASE neg
    <3>1. mark = <<Minus>> /\ m = 1
      BY <2>1, <2>2
    <3> QED BY ONLY <2>1, <2>2, <3>1
  <2>3. CASE ~neg
    <3>1. mark = <<>> /\ m = 0
      BY <2>1, <2>3
    <3> QED BY ONLY <3>1
  <2> QED BY <2>2, <2>3
<1>9. body \in Seq(Int) /\ Len(body) = n /\ \A k \in 1..n : body[k] = d[n + 1 - k]
  <2>1. body \in [1..n -> Int]
    OBVIOUS
  <2> QED BY ONLY <2>1, n \in Nat, body = [k \in 1..n |-> d[n + 1 - k]]
<1>10. ASSUME NEW c \in Int
       PROVE  /\ Repeat(c, p) \in Seq(Int) /\ Len(Repeat(c, p)) = p
              /\ \A k \in 1..p : Repeat(c, p)[k] = c
  BY ONLY <1>1, c \in Int DEF Repeat
<1> HIDE DEF m, p
<1>11. CASE ladjust
  <2> DEFINE pad == Repeat(Blank, p)
  <2>1. padc = Blank /\ sign = n + 1 /\ end = m + n
    BY ONLY <1>1, <1>2, <1>11
  <2>2. pad \in Seq(Int) /\ Len(pad) = p /\ \A k \in 1..p : pad[k] = Blank
    BY ONLY <1>2, <1>10
  <2> HIDE DEF pad
  <2>3. ASSUME NEW k \in 1..m PROVE f[k] = mark[k]
    <3>1. neg /\ k = 1 /\ m = 1 /\ mark[k] = Minus
      BY ONLY <1>1, <1>8, k \in 1..m
    <3>2. k \in 1..length /\ n + 1 \in 1..length /\ k <= end /\ end + 1 - k = n + 1
      BY ONLY <1>1, <2>1, <3>1
    <3> QED BY ONLY <1>4, <1>6, <2>1, <3>1, <3>2, n \in Nat
  <2>4. ASSUME NEW k \in 1..n PROVE f[m + k] = body[k]
    <3>1. /\ m + k \in 1..length /\ n + 1 - k \in 1..length /\ n + 1 - k <= n
          /\ m + k <= end /\ end + 1 - (m + k) = n + 1 - k
      BY ONLY <1>1, <2>1, k \in 1..n
    <3> QED BY ONLY <1>4, <1>6, <1>9, <3>1, k \in 1..n
  <2>5. ASSUME NEW k \in 1..p PROVE f[m + n + k] = pad[k]
    <3>1. m + n + k \in 1..length /\ ~(m + n + k <= end) /\ ~(m + n + k <= n) /\ ~(neg /\ m + n + k = sign)
      BY ONLY <1>1, <2>1, k \in 1..p
    <3> QED BY ONLY <1>4, <1>6, <2>1, <2>2, <3>1, k \in 1..p
  <2>6. f = mark \o body \o pad
    <3>1. mark \in Seq(Int) /\ body \in Seq(Int) /\ pad \in Seq(Int)
      BY ONLY <1>8, <1>9, <2>2
    <3>2. Len(mark) = m /\ Len(body) = n /\ Len(pad) = p /\ length = m + n + p
      BY ONLY <1>1, <1>8, <1>9, <2>2
    <3>3. f \in [1..(Len(mark) + Len(body) + Len(pad)) -> Int]
      BY ONLY <1>7, <3>2
    <3>4. \A k \in 1..Len(mark) : f[k] = mark[k]
      BY ONLY <2>3, <3>2
    <3>5. \A k \in 1..Len(body) : f[Len(mark) + k] = body[k]
      BY ONLY <2>4, <3>2
    <3>6. \A k \in 1..Len(pad) : f[Len(mark) + Len(body) + k] = pad[k]
      BY ONLY <2>5, <3>2
    <3> QED BY ONLY <3>1, <3>3, <3>4, <3>5, <3>6, Joined
  <2> QED BY <1>11, <2>6 DEF pad, p
<1>12. CASE ~ladjust /\ zero
  <2> DEFINE pad == Repeat(0, p)
  <2>1. padc = 0 /\ (neg => sign = length) /\ end = length
    BY ONLY <1>2, <1>12
  <2>2. pad \in Seq(Int) /\ Len(pad) = p /\ \A k \in 1..p : pad[k] = 0
    BY ONLY 0 \in Int, <1>10
  <2> HIDE DEF pad
  <2>3. ASSUME NEW k \in 1..m PROVE f[k] = mark[k]
    <3>1. neg /\ k = 1 /\ m = 1 /\ mark[k] = Minus
      BY ONLY <1>1, <1>8, k \in 1..m
    <3>2. k \in 1..length /\ length \in 1..length /\ k <= end /\ end + 1 - k = length /\ ~(length <= n)
      BY ONLY <1>1, <2>1, <3>1
    <3> QED BY ONLY <1>4, <1>6, <2>1, <3>1, <3>2
  <2>4. ASSUME NEW k \in 1..p PROVE f[m + k] = pad[k]
    <3> DEFINE q == length + 1 - (m + k)
    <3>1. m + k \in 1..length /\ q \in 1..length /\ ~(q <= n) /\ m + k <= end /\ ~(neg /\ q = sign)
      BY ONLY <1>1, <2>1, k \in 1..p
    <3>2. f[m + k] = buf[q]
      BY ONLY <1>6, <2>1, <3>1
    <3> HIDE DEF q
    <3> QED BY ONLY <1>4, <2>1, <2>2, <3>1, <3>2, k \in 1..p
  <2>5. ASSUME NEW k \in 1..n PROVE f[m + p + k] = body[k]
    <3>1. m + p + k \in 1..length /\ n + 1 - k \in 1..length /\ n + 1 - k <= n /\ m + p + k <= end
          /\ end + 1 - (m + p + k) = n + 1 - k
      BY ONLY <1>1, <2>1, k \in 1..n
    <3> QED BY ONLY <1>4, <1>6, <1>9, <3>1, k \in 1..n
  <2>6. f = mark \o pad \o body
    <3>1. mark \in Seq(Int) /\ pad \in Seq(Int) /\ body \in Seq(Int)
      BY ONLY <1>8, <1>9, <2>2
    <3>2. Len(mark) = m /\ Len(pad) = p /\ Len(body) = n /\ length = m + p + n
      BY ONLY <1>1, <1>8, <1>9, <2>2
    <3>3. f \in [1..(Len(mark) + Len(pad) + Len(body)) -> Int]
      BY ONLY <1>7, <3>2
    <3>4. \A k \in 1..Len(mark) : f[k] = mark[k]
      BY ONLY <2>3, <3>2
    <3>5. \A k \in 1..Len(pad) : f[Len(mark) + k] = pad[k]
      BY ONLY <2>4, <3>2
    <3>6. \A k \in 1..Len(body) : f[Len(mark) + Len(pad) + k] = body[k]
      BY ONLY <2>5, <3>2
    <3> QED BY ONLY <3>1, <3>3, <3>4, <3>5, <3>6, Joined
  <2> QED BY <1>12, <2>6 DEF pad, p
<1>13. CASE ~ladjust /\ ~zero
  <2> DEFINE pad == Repeat(Blank, p)
  <2>1. padc = Blank /\ sign = n + 1 /\ end = length
    BY ONLY <1>2, <1>13
  <2>2. pad \in Seq(Int) /\ Len(pad) = p /\ \A k \in 1..p : pad[k] = Blank
    BY ONLY <1>2, <1>10
  <2> HIDE DEF pad
  <2>3. ASSUME NEW k \in 1..p PROVE f[k] = pad[k]
    <3> DEFINE q == length + 1 - k
    <3>1. k \in 1..length /\ q \in 1..length /\ ~(q <= n) /\ k <= end /\ ~(neg /\ q = sign)
      BY ONLY <1>1, <2>1, k \in 1..p
    <3>2. f[k] = buf[q]
      BY ONLY <1>6, <2>1, <3>1
    <3> HIDE DEF q
    <3> QED BY ONLY <1>4, <2>1, <2>2, <3>1, <3>2, k \in 1..p
  <2>4. ASSUME NEW k \in 1..m PROVE f[p + k] = mark[k]
    <3>1. neg /\ k = 1 /\ m = 1 /\ mark[k] = Minus
      BY ONLY <1>1, <1>8, k \in 1..m
    <3>2. p + k \in 1..length /\ n + 1 \in 1..length /\ p + k <= end /\ end + 1 - (p + k) = n + 1
      BY ONLY <1>1, <2>1, <3>1
    <3> QED BY ONLY <1>4, <1>6, <2>1, <3>1, <3>2, n \in Nat
  <2>5. ASSUME NEW k \in 1..n PROVE f[p + m + k] = body[k]
    <3>1. p + m + k \in 1..length /\ n + 1 - k \in 1..length /\ n + 1 - k <= n /\ p + m + k <= end
          /\ end + 1 - (p + m + k) = n + 1 - k
      BY ONLY <1>1, <2>1, k \in 1..n
    <3> QED BY ONLY <1>4, <1>6, <1>9, <3>1, k \in 1..n
  <2>6. f = pad \o mark \o body
    <3>1. pad \in Seq(Int) /\ mark \in Seq(Int) /\ body \in Seq(Int)
      BY ONLY <1>8, <1>9, <2>2
    <3>2. Len(pad) = p /\ Len(mark) = m /\ Len(body) = n /\ length = p + m + n
      BY ONLY <1>1, <1>8, <1>9, <2>2
    <3>3. f \in [1..(Len(pad) + Len(mark) + Len(body)) -> Int]
      BY ONLY <1>7, <3>2
    <3>4. \A k \in 1..Len(pad) : f[k] = pad[k]
      BY ONLY <2>3, <3>2
    <3>5. \A k \in 1..Len(mark) : f[Len(pad) + k] = mark[k]
      BY ONLY <2>4, <3>2
    <3>6. \A k \in 1..Len(body) : f[Len(pad) + Len(mark) + k] = body[k]
      BY ONLY <2>5, <3>2
    <3> QED BY ONLY <3>1, <3>3, <3>4, <3>5, <3>6, Joined
  <2> QED BY <1>13, <2>6 DEF pad, p
<1> QED BY <1>11, <1>12, <1>13

\* What a field must look like, as FieldsReadable says it.
Readable(in) ==
    LET used == Len(Sign(in) \o Body(in))
        fill(c) == Repeat(c, Larger(in.width, used) - used)
    IN  IF in.ladjust THEN Sign(in) \o Body(in) \o fill(Blank)
        ELSE IF in.zero /\ in.conv /= "s" THEN Sign(in) \o fill(0) \o Body(in)
        ELSE fill(Blank) \o Sign(in) \o Body(in)

\* PrintNum for a number below 2^LongBits.
IsNumber(u, base, neg, width, n, body, mark, actual, p) ==
    /\ base \in Nat /\ base >= 2 /\ u \in Nat /\ u < Power(2)[LongBits]
    /\ neg \in BOOLEAN /\ width \in Nat
    /\ n = PlacesOf(u, base)
    /\ body = [k \in 1..n |-> (u \div Power(base)[n - k]) % base]
    /\ mark = IF neg THEN <<Minus>> ELSE <<>>
    /\ actual = IF neg THEN n + 1 ELSE n
    /\ p = Larger(width, actual) - actual
\* chars is the number in its field.
IsLaidOut(chars, n, body, mark, p, ladjust, zero) ==
    /\ n \in Nat /\ n > 0 /\ body \in Seq(Int) /\ Len(body) = n
    /\ chars = IF ladjust THEN mark \o body \o Repeat(Blank, p)
               ELSE IF zero THEN mark \o Repeat(0, p) \o body
               ELSE Repeat(Blank, p) \o mark \o body
LEMMA PrintNumLaysOut ==
    ASSUME NEW u, NEW base, NEW neg, NEW width, NEW n, NEW body, NEW mark, NEW actual, NEW p,
           NEW ladjust, ladjust \in BOOLEAN, NEW zero, zero \in BOOLEAN,
           IsNumber(u, base, neg, width, n, body, mark, actual, p)
    PROVE  IsLaidOut(PrintNum(u, base, neg, width, ladjust, zero), n, body, mark, p, ladjust, zero)
<1> USE DEF IsNumber
<1> DEFINE length == Larger(width, actual)
           padc == IF zero /\ ~ladjust THEN 0 ELSE Blank
           sign == IF neg /\ padc = 0 THEN length ELSE n + 1
           buf == [k \in 1..length |->
                    CASE k <= n -> Rest(u, base)[k - 1] % base
                      [] neg /\ k = sign -> Minus
                      [] OTHER -> padc]
           end == IF ladjust THEN actual ELSE length
           d == [k \in 1..n |-> Rest(u, base)[k - 1] % base]
<1>1. DigitCount(u, base) = n /\ n \in Nat /\ n > 0
      /\ \A k \in Nat : Rest(u, base)[k] = u \div Power(base)[k]
  <2>1. n \in 1..LongBits => n \in Nat /\ n > 0
    BY WordAssumption
  <2> QED BY <2>1, DigitsArePlaces
<1>2. ASSUME NEW k \in Nat PROVE Rest(u, base)[k] % base \in Nat
  <2>1. Rest(u, base)[k] \in Nat
    BY RestDef
  <2> QED BY <2>1, Remainder
<1>3. d \in [1..n -> Int]
  <2>1. \A k \in 1..n : k - 1 \in Nat
    BY <1>1
  <2>2. \A k \in 1..n : Rest(u, base)[k - 1] % base \in Int
    BY <1>2, <2>1
  <2> QED BY ONLY <2>2
<1>4. body = [k \in 1..n |-> d[n + 1 - k]]
  <2>1. \A k \in 1..n : n + 1 - k \in 1..n /\ n - k \in Nat /\ (n + 1 - k) - 1 = n - k
    <3>1. n \in Nat
      BY <1>1
    <3> QED BY ONLY <3>1
  <2>2. \A k \in 1..n : d[n + 1 - k] = (u \div Power(base)[n - k]) % base
    BY <1>1, <2>1
  <2> HIDE DEF d
  <2> QED BY ONLY <2>2, body = [k \in 1..n |-> (u \div Power(base)[n - k]) % base]
<1>5. n < sign /\ length \in Nat /\ n <= length
  <2>1. actual \in Nat /\ n <= actual /\ (neg => n < actual)
    BY <1>1
  <2>2. length \in Nat /\ actual <= length
    BY <2>1 DEF Larger
  <2> HIDE DEF length
  <2> QED BY <1>1, <2>1, <2>2
<1>6. ASSUME NEW k \in 1..length
      PROVE  buf[k] = IF k <= n THEN d[k] ELSE IF neg /\ k = sign THEN Minus ELSE padc
  <2> DEFINE e == Rest(u, base)[k - 1] % base
  <2>1. buf[k] = CASE k <= n -> e [] neg /\ k = sign -> Minus [] OTHER -> padc
    BY ONLY TRUE
  <2>2. k <= n => k /= sign /\ k \in 1..n
    <3> HIDE DEF sign, length
    <3> QED BY <1>1, <1>5
  <2>3. k \in 1..n => d[k] = e
    BY ONLY TRUE
  <2> HIDE DEF buf, d, e, sign, padc, length
  <2> QED BY ONLY <2>1, <2>2, <2>3
<1>7. PrintNum(u, base, neg, width, ladjust, zero) =
        [k \in 1..length |-> IF k <= end THEN buf[end + 1 - k] ELSE buf[k]]
  BY ONLY <1>1, actual = (IF neg THEN n + 1 ELSE n) DEF PrintNum
<1>8. body \in Seq(Int) /\ Len(body) = n
  <2>1. \A k \in 1..n : n + 1 - k \in 1..n
    <3>1. n \in Nat
      BY <1>1
    <3> QED BY ONLY <3>1
  <2>2. body \in [1..n -> Int]
    BY ONLY <1>3, <1>4, <2>1
  <2> QED BY ONLY <1>1, <2>2
<1> HIDE DEF d, buf
<1>9. [k \in 1..length |-> IF k <= end THEN buf[end + 1 - k] ELSE buf[k]] =
        IF ladjust THEN mark \o body \o Repeat(Blank, length - actual)
        ELSE IF zero THEN mark \o Repeat(0, length - actual) \o body
        ELSE Repeat(Blank, length - actual) \o mark \o body
  <2> DEFINE l == length 
             s == sign
             q == padc
             z == end
  <2>1. l = Larger(width, actual) /\ q = (IF zero /\ ~ladjust THEN 0 ELSE Blank)
        /\ s = (IF neg /\ q = 0 THEN l ELSE n + 1) /\ z = (IF ladjust THEN actual ELSE l)
        /\ \A k \in 1..l : buf[k] = IF k <= n THEN d[k] ELSE IF neg /\ k = s THEN Minus ELSE q
    BY <1>6
  <2> HIDE DEF l, s, q, z
  <2> DEFINE f == [k \in 1..l |-> IF k <= z THEN buf[z + 1 - k] ELSE buf[k]]
  <2>2. IsBuffer(n, d, neg, width, ladjust, zero, actual, l, q, s, buf, z, body, mark, f)
    BY <1>1, <1>3, <1>4, <2>1 DEF IsBuffer
  <2> HIDE DEF f
  <2>3. f = IF ladjust THEN mark \o body \o Repeat(Blank, l - actual)
            ELSE IF zero THEN mark \o Repeat(0, l - actual) \o body
            ELSE Repeat(Blank, l - actual) \o mark \o body
    BY ONLY <2>2, NumberLaidOut
  <2> QED BY <2>3 DEF f, l, s, q, z
<1> QED BY <1>1, <1>7, <1>8, <1>9 DEF IsLaidOut

\* PrintString and PrintChar.
IsText(len, width, body, p) ==
    /\ len \in Nat /\ width \in Nat
    /\ body = [k \in 1..len |-> Letter(k)]
    /\ p = Larger(width, len) - len
LEMMA PrintTextLaysOut ==
    ASSUME NEW len, NEW width, NEW body, NEW p, NEW ladjust \in BOOLEAN, IsText(len, width, body, p)
    PROVE  /\ body \in Seq(Int) /\ Len(body) = len
           /\ PrintText(len, width, ladjust) =
                IF ladjust THEN <<>> \o body \o Repeat(Blank, p)
                ELSE Repeat(Blank, p) \o <<>> \o body
<1> USE DEF IsText
<1> DEFINE f == PrintText(len, width, ladjust)
           pad == Repeat(Blank, p)
           first == IF ladjust THEN 0 ELSE p
<1>1. p \in Nat /\ Larger(width, len) = len + p /\ Blank \in Int
  BY DEF Larger, Blank
<1>2. f = [k \in 1..(len + p) |-> IF k - first \in 1..len THEN Letter(k - first) ELSE Blank]
  <2>1. (len + p) - len = p
    BY <1>1
  <2> QED BY ONLY <1>1, <2>1 DEF PrintText
<1>3. body \in Seq(Int) /\ Len(body) = len /\ \A k \in 1..len : body[k] = Letter(k)
  <2>1. body \in [1..len -> Int]
    BY DEF Letter
  <2> QED BY ONLY <2>1, len \in Nat, body = [k \in 1..len |-> Letter(k)]
<1>4. pad \in Seq(Int) /\ Len(pad) = p /\ \A k \in 1..p : pad[k] = Blank
  BY ONLY <1>1 DEF Repeat
<1>5. <<>> \in Seq(Int) /\ Len(<<>>) = 0
  OBVIOUS
<1>6. \A k \in 1..(len + p) : f[k] = IF k - first \in 1..len THEN Letter(k - first) ELSE Blank
  <2> HIDE DEF f
  <2> QED BY ONLY <1>2
<1>7. f \in [1..(len + p) -> Int]
  <2>1. \A k \in 1..(len + p) : k - first \in 1..len => Letter(k - first) \in Int
    BY DEF Letter
  <2> HIDE DEF f
  <2> QED BY ONLY <1>1, <1>2, <2>1
<1> HIDE DEF f, pad
<1> DEFINE nothing == <<>>
<1>8. nothing \in Seq(Int) /\ Len(nothing) = 0
  BY <1>5
<1> HIDE DEF nothing
<1>9. CASE ladjust
  <2>1. f \in [1..(Len(nothing) + Len(body) + Len(pad)) -> Int]
    BY ONLY <1>1, <1>3, <1>4, <1>7, <1>8, len \in Nat
  <2>2. \A k \in 1..Len(nothing) : f[k] = nothing[k]
    BY ONLY <1>8
  <2>3. \A k \in 1..Len(body) : f[Len(nothing) + k] = body[k]
    BY ONLY <1>1, <1>3, <1>6, <1>8, <1>9, len \in Nat
  <2>4. \A k \in 1..Len(pad) : f[Len(nothing) + Len(body) + k] = pad[k]
    BY ONLY <1>1, <1>3, <1>4, <1>6, <1>8, <1>9, len \in Nat
  <2>5. f = nothing \o body \o pad
    BY ONLY <1>3, <1>4, <1>8, <2>1, <2>2, <2>3, <2>4, Joined
  <2> QED BY <1>3, <1>9, <2>5 DEF f, nothing, pad
<1>10. CASE ~ladjust
  <2>1. f \in [1..(Len(pad) + Len(nothing) + Len(body)) -> Int]
    BY ONLY <1>1, <1>3, <1>4, <1>7, <1>8, len \in Nat
  <2>2. \A k \in 1..Len(nothing) : f[Len(pad) + k] = nothing[k]
    BY ONLY <1>8
  <2>3. \A k \in 1..Len(body) : f[Len(pad) + Len(nothing) + k] = body[k]
    <3>1. \A k \in 1..len : p + 0 + k \in 1..(len + p) /\ p + 0 + k - p = k
      BY ONLY <1>1, len \in Nat
    <3> QED BY ONLY <1>1, <1>3, <1>4, <1>6, <1>8, <1>10, <3>1, len \in Nat
  <2>4. \A k \in 1..Len(pad) : f[k] = pad[k]
    <3>1. \A k \in 1..p : k \in 1..(len + p) /\ ~(k - p \in 1..len)
      BY ONLY <1>1, len \in Nat
    <3> QED BY ONLY <1>4, <1>6, <1>10, <3>1
  <2>5. f = pad \o nothing \o body
    BY ONLY <1>3, <1>4, <1>8, <2>1, <2>2, <2>3, <2>4, Joined
  <2> QED BY <1>3, <1>10, <2>5 DEF f, nothing, pad
<1> QED BY <1>9, <1>10

\* An argument of va_arg, an int or a long.
LEMMA ArgumentRange ==
    ASSUME NEW x \in Int, NEW long \in BOOLEAN, NEW h, h = Power(2)[LongBits - 1]
    PROVE  /\ VaArg(x, long) \in Int /\ 0 - h <= VaArg(x, long) /\ VaArg(x, long) < h
<1> DEFINE bits == IF long THEN LongBits ELSE IntBits
           g == Power(2)[bits - 1]
           num == Signed(x, bits)
<1>1. bits \in Nat \ {0} /\ bits - 1 \in Nat /\ LongBits - bits \in Nat
      /\ (bits - 1) + (LongBits - bits) = LongBits - 1
  BY WordAssumption
<1>2. VaArg(x, long) = num
  BY DEF VaArg
<1> HIDE DEF bits
<1>3. g \in Nat /\ num \in Int /\ 0 - g <= num /\ num < g
  <2> HIDE DEF g
  <2>1. g = Power(2)[bits - 1]
    BY DEF g
  <2> QED BY ONLY <1>1, <2>1, x \in Int, SignedRange
<1>4. g <= h
  BY <1>1, PowersGrow
<1>5. h \in Int
  <2>1. LongBits - 1 \in Nat
    BY WordAssumption
  <2> QED BY <2>1, PowersPositive
<1> HIDE DEF g, num
<1> QED BY <1>2, <1>3, <1>4, <1>5

\* The number of a directive "%d" or "%x" in its field.
LEMMA NumberReadable ==
    ASSUME NEW in \in Fields, in.conv /= "s"
    PROVE  Layout(in) = Readable(in)
<1> DEFINE num == VaArg(in.arg, in.long)
           h == Power(2)[LongBits - 1]
           top == Power(2)[LongBits]
           neg == in.conv = "d" /\ num < 0
           u == (IF neg THEN Signed(0 - num, LongBits) ELSE num) % top
           value == IF in.conv = "d" THEN (IF num < 0 THEN 0 - num ELSE num) ELSE num % top
<1>1. top \in Nat
  BY WordAssumption, PowersPositive
<1>2. /\ in.conv \in {"d", "x"} /\ in.base \in {2, 8, 10, 16} /\ in.arg \in 0..(top - 1)
      /\ in.long \in BOOLEAN /\ in.width \in 0..MaxWidth /\ in.ladjust \in BOOLEAN /\ in.zero \in BOOLEAN
  BY in.conv /= "s" DEF Fields
<1>3. in.base \in Nat /\ in.base >= 2 /\ in.arg \in Int /\ in.width \in Nat
  BY <1>1, <1>2
<1>4. num \in Int /\ 0 - h <= num /\ num < h
  <2> HIDE DEF h
  <2>1. h = Power(2)[LongBits - 1]
    BY DEF h
  <2> QED BY ONLY <1>2, <1>3, <2>1, ArgumentRange
<1>5. u \in Nat /\ u < top /\ u = value /\ neg \in BOOLEAN
  <2>1. /\ num < 0 => Signed(0 - num, LongBits) % top = 0 - num
        /\ num >= 0 => num % top = num
        /\ num % top \in Nat /\ num % top < top
        /\ num < top /\ 0 - num < top
    <3> HIDE DEF h, num
    <3>1. h = Power(2)[LongBits - 1]
      BY DEF h
    <3> QED BY ONLY <1>4, <3>1, Magnitude
  <2> HIDE DEF num, top, h
  <2>2. CASE neg
    BY <1>1, <1>4, <2>1, <2>2
  <2>3. CASE ~neg
    BY <1>1, <1>2, <1>4, <2>1, <2>3
  <2> QED BY <2>2, <2>3
<1> DEFINE n == PlacesOf(u, in.base)
           body == [k \in 1..n |-> (u \div Power(in.base)[n - k]) % in.base]
           mark == IF neg THEN <<Minus>> ELSE <<>>
           actual == IF neg THEN n + 1 ELSE n
           p == Larger(in.width, actual) - actual
<1>6. /\ Body(in) = body /\ Sign(in) = mark
      /\ Layout(in) = PrintNum(u, in.base, neg, in.width, in.ladjust, in.zero)
  <2>1. Layout(in) = PrintNum(u, in.base, neg, in.width, in.ladjust, in.zero)
    BY ONLY in.conv /= "s" DEF Layout
  <2>2. Sign(in) = mark
    BY ONLY TRUE DEF Sign
  <2>3. Body(in) = LET m == PlacesOf(value, in.base)
                   IN  [k \in 1..m |-> (value \div Power(in.base)[m - k]) % in.base]
    BY ONLY in.conv /= "s" DEF Body
  <2> HIDE DEF u, value
  <2> QED BY ONLY <1>5, <2>1, <2>2, <2>3
<1> HIDE DEF num, u, neg, top
<1>7. /\ n \in Nat /\ n > 0 /\ body \in Seq(Int) /\ Len(body) = n
      /\ PrintNum(u, in.base, neg, in.width, in.ladjust, in.zero) =
           IF in.ladjust THEN mark \o body \o Repeat(Blank, p)
           ELSE IF in.zero THEN mark \o Repeat(0, p) \o body
           ELSE Repeat(Blank, p) \o mark \o body
  <2>1. IsNumber(u, in.base, neg, in.width, n, body, mark, actual, p)
    BY <1>2, <1>3, <1>5 DEF IsNumber, top
  <2> DEFINE base == in.base
             width == in.width
             ladjust == in.ladjust
             zero == in.zero
  <2>2. ladjust \in BOOLEAN /\ zero \in BOOLEAN /\ IsNumber(u, base, neg, width, n, body, mark, actual, p)
    BY <1>2, <2>1
  <2> HIDE DEF n, body, mark, actual, p, base, width, ladjust, zero
  <2>3. IsLaidOut(PrintNum(u, base, neg, width, ladjust, zero), n, body, mark, p, ladjust, zero)
    BY ONLY <2>2, PrintNumLaysOut
  <2> QED BY ONLY <2>3 DEF IsLaidOut, base, width, ladjust, zero
<1> HIDE DEF n, body
<1>8. mark \in Seq(Int) /\ Len(mark \o body) = actual
  BY <1>5, <1>7 DEF Minus
<1> HIDE DEF mark, actual
<1>9. Readable(in) =
           IF in.ladjust THEN mark \o body \o Repeat(Blank, p)
           ELSE IF in.zero THEN mark \o Repeat(0, p) \o body
           ELSE Repeat(Blank, p) \o mark \o body
  BY ONLY <1>6, <1>8, in.conv /= "s" DEF Readable
<1> QED BY <1>6, <1>7, <1>9

\* The text of a directive "%s" (or the character of "%c") in its field.
LEMMA TextReadable ==
    ASSUME NEW in \in Fields, in.conv = "s"
    PROVE  Layout(in) = Readable(in)
<1>1. in.arg \in Nat /\ in.width \in Nat /\ in.ladjust \in BOOLEAN
  <2>1. in.arg \in 0..MaxWidth /\ in.width \in 0..MaxWidth /\ in.ladjust \in BOOLEAN
    BY in.conv = "s" DEF Fields
  <2> QED BY <2>1
<1> DEFINE body == [k \in 1..in.arg |-> Letter(k)]
           none == <<>>
           p == Larger(in.width, in.arg) - in.arg
<1>2. Body(in) = body /\ Sign(in) = none /\ Layout(in) = PrintText(in.arg, in.width, in.ladjust)
  BY ONLY in.conv = "s" DEF Layout, Sign, Body
<1>3. /\ body \in Seq(Int) /\ Len(body) = in.arg
      /\ PrintText(in.arg, in.width, in.ladjust) =
           IF in.ladjust THEN none \o body \o Repeat(Blank, p)
           ELSE Repeat(Blank, p) \o none \o body
  <2>1. IsText(in.arg, in.width, body, p)
    BY <1>1 DEF IsText
  <2> DEFINE len == in.arg
             width == in.width
             ladjust == in.ladjust
  <2>2. ladjust \in BOOLEAN /\ IsText(len, width, body, p)
    BY <1>1, <2>1
  <2> HIDE DEF body, p, len, width, ladjust
  <2>3. /\ body \in Seq(Int) /\ Len(body) = len
        /\ PrintText(len, width, ladjust) =
             IF ladjust THEN none \o body \o Repeat(Blank, p)
             ELSE Repeat(Blank, p) \o none \o body
    BY ONLY <2>2, PrintTextLaysOut
  <2> QED BY ONLY <2>3 DEF len, width, ladjust
<1> HIDE DEF body
<1>4. none \in Seq(Int) /\ Len(none \o body) = in.arg
  BY <1>1, <1>3
<1> HIDE DEF none
<1>5. Readable(in) =
           IF in.ladjust THEN none \o body \o Repeat(Blank, p)
           ELSE Repeat(Blank, p) \o none \o body
  BY ONLY <1>2, <1>4, in.conv = "s" DEF Readable
<1> QED BY <1>2, <1>3, <1>5

\* What PrintField leaves behind.
FieldLaidOut == field = NoField \/ (field.in \in Fields /\ field.chars = Layout(field.in))

\* For every size of the C types, every argument and width: a field shows the whole number,
\* its sign and its padding as the directive asks (PrintNum, PrintString).
THEOREM FieldsAreReadable == PrintSpec => []FieldsReadable
<1>1. PrintInit => FieldLaidOut
  BY DEF PrintInit, FieldLaidOut
<1>2. FieldLaidOut /\ [PrintNext]_printVars => FieldLaidOut'
  <2> SUFFICES ASSUME FieldLaidOut, [PrintNext]_printVars PROVE FieldLaidOut'
    OBVIOUS
  <2>1. CASE UNCHANGED field
    BY <2>1 DEF FieldLaidOut, Layout, Fields, NoField, VaArg
  <2>2. CASE PrintField
    <3>1. PICK in \in Fields : field' = [in |-> in, chars |-> Layout(in)]
      BY <2>2 DEF PrintField
    <3>2. field'.in = in /\ field'.chars = Layout(in)
      BY ONLY <3>1
    <3>3. field'.in \in Fields /\ field'.chars = Layout(field'.in)
      BY ONLY <3>2
    <3> QED BY <3>3 DEF FieldLaidOut
  <2>3. Text \/ Directive => UNCHANGED field
    BY DEF Text, Directive
  <2> QED BY <2>1, <2>2, <2>3 DEF PrintNext, printVars
<1>3. FieldLaidOut => FieldsReadable
  <2> SUFFICES ASSUME FieldLaidOut, field /= NoField PROVE field.chars = Readable(field.in)
    BY DEF FieldsReadable, Readable
  <2> DEFINE in == field.in
  <2>1. in \in Fields /\ field.chars = Layout(in)
    BY DEF FieldLaidOut
  <2> HIDE DEF in
  <2>2. Layout(in) = Readable(in)
    <3>1. CASE in.conv = "s"
      BY ONLY <2>1, <3>1, TextReadable
    <3>2. CASE in.conv /= "s"
      BY ONLY <2>1, <3>2, NumberReadable
    <3> QED BY <3>1, <3>2
  <2> QED BY <2>1, <2>2 DEF in
<1> QED BY <1>1, <1>2, <1>3, PTL DEF PrintSpec

-----------------------------------------------------------------------------
(* Boot: entries of tables.                                                *)

USE DEF BY2PG

\* The kinds of entries.
LEMMA Kinds ==
    ASSUME NEW f
    PROVE  /\ Table(f).kind = "table" /\ Table(f).to = f
           /\ Leaf(f).kind = "page" /\ Leaf(f).to = f
           /\ Block(f).kind = "block" /\ Block(f).to = f
BY DEF Table, Leaf, Block

Has(t, f, x) == <<f, x>> \in DOMAIN t
IsTables(t) == DOMAIN t \subseteq Nat \X Nat

\* What a write leaves at each place.
LEMMA Writes ==
    ASSUME NEW t, NEW new
    PROVE  /\ \A f, x : Has(Write(t, new), f, x) <=> Has(new, f, x) \/ Has(t, f, x)
           /\ \A f, x : Entry(Write(t, new), f, x) = IF Has(new, f, x) THEN Entry(new, f, x)
                                                     ELSE Entry(t, f, x)
           /\ IsTables(t) /\ IsTables(new) => IsTables(Write(t, new))
BY DEF Write, Entry, Has, IsTables

LEMMA WritesOne ==
    ASSUME NEW t, NEW f, NEW x, NEW e
    PROVE  /\ \A g, y : Has(WriteOne(t, f, x, e), g, y) <=> (g = f /\ y = x) \/ Has(t, g, y)
           /\ \A g, y : Entry(WriteOne(t, f, x, e), g, y) = IF g = f /\ y = x THEN e ELSE Entry(t, g, y)
BY DEF Write, WriteOne, Entry, Has

-----------------------------------------------------------------------------
(* Numbers of pages. *)

\* The first frame nothing has been put into.
Fresh(fm) == Page(Round(fm))

\* alloc returns the first fresh frame and takes as many as the size fills.
Takes(fm, n, base, freed) ==
    /\ base = Fresh(fm) /\ base \in Nat /\ freed \in Nat
    /\ Fresh(freed) = Fresh(fm) + Page(Round(n)) /\ Page(Round(n)) \in Nat
LEMMA AllocTakes ==
    ASSUME NEW fm \in Nat, NEW n \in Nat
    PROVE  Takes(fm, n, Alloc(fm, n).base, Alloc(fm, n).freemem)
BY DEF Takes, Alloc, Fresh, Page, Round

LEMMA PageIsFresh ==
    ASSUME NEW k \in Nat
    PROVE  Fresh(k * BY2PG) = k /\ Fresh(Round(k)) = Fresh(k) /\ Page(Round(k)) = Fresh(k)
           /\ Page(BY2PG) = 1 /\ Fresh(BY2PG) = 1
BY DEF Fresh, Page, Round

LEMMA Sizes ==
    /\ PTES \in Nat /\ PTES >= 1 /\ PMDS \in Nat /\ PMDS >= 1
    /\ NPAGE \in Nat /\ NPAGE = PMDS * PTES /\ NPAGE >= PTES
<1>1. PTES \in Nat /\ PTES >= 1 /\ PMDS \in Nat
  BY LayoutAssumption
<1>2. NPAGE \in Nat /\ NPAGE = PMDS * PTES
  BY <1>1 DEF NPAGE
<1>3. PMDS /= 0
  <2>1. FirstDevice \in Nat /\ FirstDevice < PTES * PMDS
    BY LayoutAssumption
  <2>2. PMDS = 0 => PTES * PMDS = 0
    BY <1>1
  <2> QED BY <2>1, <2>2
<1>4. PMDS * PTES >= PTES
  BY <1>1, <1>3
<1> QED BY <1>1, <1>2, <1>3, <1>4

\* The three indices of a page.
LEMMA Indices ==
    ASSUME NEW v \in Nat
    PROVE  /\ v \div NPAGE \in Nat /\ (v \div PTES) % PMDS \in 0..(PMDS - 1) /\ v % PTES \in 0..(PTES - 1)
           /\ v \div PTES \in Nat
           /\ v = (v \div PTES) * PTES + (v % PTES)
           /\ v = (v \div NPAGE) * NPAGE + ((v \div PTES) % PMDS) * PTES + (v % PTES)
<1>1. PICK q \in Nat, x \in 0..(PTES - 1) : q = v \div PTES /\ x = v % PTES /\ v = q * PTES + x
  BY Sizes
<1>2. PICK d \in Nat, m \in 0..(PMDS - 1) : d = q \div PMDS /\ m = q % PMDS /\ q = d * PMDS + m
  BY Sizes
<1>3. m * PTES + x \in 0..(NPAGE - 1)
  <2>1. PICK h : h = PMDS - 1 - m
    OBVIOUS
  <2>2. h \in Nat /\ PMDS = h + m + 1
    BY <2>1, Sizes
  <2>3. PMDS * PTES = h * PTES + m * PTES + PTES
    BY <2>2, Sizes
  <2>4. m * PTES \in Nat /\ h * PTES \in Nat
    BY <2>2, Sizes
  <2> QED BY <2>3, <2>4, Sizes
<1>4. v = d * NPAGE + (m * PTES + x)
  <2>1. q * PTES = (d * PMDS) * PTES + m * PTES
    BY <1>2, Sizes
  <2>2. (d * PMDS) * PTES = d * (PMDS * PTES)
    BY Sizes
  <2>3. m * PTES \in Nat /\ d * NPAGE \in Nat
    BY Sizes
  <2> QED BY <1>1, <2>1, <2>2, <2>3, Sizes
<1>5. v \div NPAGE = d
  BY <1>3, <1>4, Sizes, Division
<1>6. d * NPAGE \in Nat /\ m * PTES \in Nat
  BY Sizes
<1>7. PICK y, z : y = m * PTES /\ z = d * NPAGE
  OBVIOUS
<1>8. y \in Nat /\ z \in Nat /\ v = z + y + x
  BY <1>4, <1>6, <1>7
<1>9. v = d * NPAGE + m * PTES + x
  BY <1>7, <1>8
<1> QED BY <1>1, <1>2, <1>5, <1>9

\* The pages of the directory entry of the segments, apart from the block at its start.
Upper == (NPAGE + PTES)..(2 * NPAGE - 1)
Mid(v) == (v \div PTES) % PMDS

LEMMA UpperIndices ==
    ASSUME NEW v \in Upper
    PROVE  /\ v \in Nat /\ v \div NPAGE = 1 /\ Mid(v) \in 1..(PMDS - 1) /\ v % PTES \in 0..(PTES - 1)
           /\ v = NPAGE + Mid(v) * PTES + (v % PTES) /\ v \div PTES = PMDS + Mid(v)
<1>1. v \in Nat /\ NPAGE \in Nat /\ NPAGE >= 1
  BY Sizes DEF Upper
<1>2. v - NPAGE \in 0..(NPAGE - 1) /\ v = 1 * NPAGE + (v - NPAGE)
  BY <1>1, Sizes DEF Upper
<1>3. v \div NPAGE = 1
  BY ONLY <1>1, <1>2, Division
<1>4. PICK m \in 0..(PMDS - 1), x \in 0..(PTES - 1) :
        m = Mid(v) /\ x = v % PTES /\ v = NPAGE + m * PTES + x
  BY <1>1, <1>3, Indices DEF Mid
<1>5. m /= 0
  <2>1. m = 0 => m * PTES = 0
    BY Sizes
  <2> QED BY <1>1, <1>4, <2>1, Sizes DEF Upper
<1>6. v \div PTES = PMDS + m
  <2>1. v = (PMDS + m) * PTES + x
    <3>1. (PMDS + m) * PTES = PMDS * PTES + m * PTES
      BY Sizes
    <3>2. m * PTES \in Nat
      BY Sizes
    <3>3. NPAGE = PMDS * PTES
      BY Sizes
    <3>4. (PMDS + m) * PTES = NPAGE + m * PTES
      BY <3>1, <3>3
    <3>5. PICK y, z : y = m * PTES /\ z = (PMDS + m) * PTES
      OBVIOUS
    <3>6. z = NPAGE + y /\ v = NPAGE + y + x
      BY <1>4, <3>4, <3>5
    <3>7. v = z + x
      BY <3>6
    <3> QED BY <3>5, <3>7
  <2>2. PICK q \in Nat : q = PMDS + m
    BY Sizes
  <2>3. v = q * PTES + x
    BY <2>1, <2>2
  <2>4. v \div PTES = q
    <3>1. Splits(v, PTES, q, x)
      BY ONLY <1>1, <1>4, <2>2, <2>3, Sizes DEF Splits
    <3> QED BY ONLY <3>1, SplitsAs
  <2> QED BY <2>2, <2>4
<1> QED BY <1>1, <1>3, <1>4, <1>5, <1>6

\* Two pages with the same indices are the same.
LEMMA UpperPlaces ==
    ASSUME NEW v \in Upper, NEW w \in Upper, Mid(v) = Mid(w), v % PTES = w % PTES
    PROVE  v = w
BY UpperIndices

\* A later page has no earlier middle index.
LEMMA MidsGrow ==
    ASSUME NEW v \in Upper, NEW w \in Upper, v <= w
    PROVE  Mid(v) <= Mid(w)
<1>1. PICK a \in 1..(PMDS - 1), b \in 1..(PMDS - 1), x \in 0..(PTES - 1), y \in 0..(PTES - 1) :
        /\ a = Mid(v) /\ b = Mid(w)
        /\ v = NPAGE + a * PTES + x /\ w = NPAGE + b * PTES + y
  BY UpperIndices
<1>2. SUFFICES ASSUME a > b PROVE FALSE
  BY <1>1, Sizes
<1>3. PICK d \in Nat : d >= 1 /\ a = b + d
  <2>1. a - b \in Nat /\ a - b >= 1 /\ a = b + (a - b)
    BY <1>2, Sizes
  <2> QED BY <2>1
<1>4. a * PTES = b * PTES + d * PTES
  BY <1>3, Sizes
<1>5. d * PTES >= PTES
  BY <1>3, Sizes
<1>6. PICK p, q, r : p = a * PTES /\ q = b * PTES /\ r = d * PTES
  OBVIOUS
<1>7. p \in Nat /\ q \in Nat /\ r \in Nat
  BY <1>3, <1>6, Sizes
<1> QED BY <1>1, <1>4, <1>5, <1>6, <1>7, Sizes

-----------------------------------------------------------------------------
(* The segments. *)

Pages(sz, s) == Page(Round(sz[s]))
IsSize(sz) == \E p \in PagesSize, e \in EnvsSize : sz = <<p, e, BY2PG, BY2PG>>

\* Where a page of a segment lies; the segments do not overlap.
LEMMA SegmentsLie ==
    ASSUME NEW sz, IsSize(sz)
    PROVE  /\ sz \in [1..4 -> Nat] /\ \A s \in 1..4 : Pages(sz, s) \in Nat
           /\ \A s \in 1..4 : \A k \in 0..(Pages(sz, s) - 1) :
                Segment[s] + k \in Upper /\ Segment[s] + k <= TIMESTACK - 1
           /\ \A s, r \in 1..4 : \A k \in 0..(Pages(sz, s) - 1), j \in 0..(Pages(sz, r) - 1) :
                Segment[s] + k = Segment[r] + j => s = r /\ k = j
           /\ TIMESTACK - 1 \in Upper
<1>1. PICK p \in PagesSize, e \in EnvsSize : sz = <<p, e, BY2PG, BY2PG>>
  BY DEF IsSize
<1>2. /\ p \in Nat /\ UPAGES + Page(Round(p)) <= UENVS
      /\ e \in Nat /\ UENVS + Page(Round(e)) <= TIMESTACK - 2
  BY SizesAssumption
<1>3. PICK a, b : a = Page(Round(p)) /\ b = Page(Round(e)) /\ a \in Nat /\ b \in Nat
  BY <1>2 DEF Page, Round
<1>4. /\ Pages(sz, 1) = a /\ Pages(sz, 2) = b /\ Pages(sz, 3) = 1 /\ Pages(sz, 4) = 1
      /\ sz \in [1..4 -> Nat]
  <2>1. sz[1] = p /\ sz[2] = e /\ sz[3] = 2 /\ sz[4] = 2 /\ sz \in [1..4 -> Nat]
    BY <1>1, <1>2
  <2>2. Page(Round(2)) = 1
    BY DEF Page, Round
  <2> QED BY <1>3, <2>1, <2>2 DEF Pages
<1>5. /\ Segment[1] = UPAGES /\ Segment[2] = UENVS
      /\ Segment[3] = TIMESTACK - 1 /\ Segment[4] = TIMESTACK - 2
  BY DEF Segment
<1>6. /\ NPAGE + PTES <= UPAGES /\ UPAGES < UENVS /\ UENVS < TIMESTACK - 2 /\ TIMESTACK <= 2 * NPAGE
      /\ UPAGES \in Nat /\ UENVS \in Nat /\ TIMESTACK \in Nat
      /\ UPAGES + a <= UENVS /\ UENVS + b <= TIMESTACK - 2 /\ NPAGE \in Nat /\ PTES \in Nat
  <2>1. 2 * PTES * PMDS = 2 * NPAGE
    BY Sizes DEF NPAGE
  <2> QED BY <1>2, <1>3, <2>1, Sizes, LayoutAssumption DEF NPAGE
<1>7. \A s \in 1..4 : s = 1 \/ s = 2 \/ s = 3 \/ s = 4
  OBVIOUS
<1>8. \A s \in 1..4 : Pages(sz, s) \in Nat
  BY <1>3, <1>4, <1>7
<1>9. \A s \in 1..4 : \A k \in 0..(Pages(sz, s) - 1) :
         Segment[s] + k \in Upper /\ Segment[s] + k <= TIMESTACK - 1
  BY <1>3, <1>4, <1>5, <1>6, <1>7 DEF Upper
<1>10. \A s, r \in 1..4 : \A k \in 0..(Pages(sz, s) - 1), j \in 0..(Pages(sz, r) - 1) :
         Segment[s] + k = Segment[r] + j => s = r /\ k = j
  BY <1>3, <1>4, <1>5, <1>6, <1>7
<1>11. TIMESTACK - 1 \in Upper
  BY <1>6 DEF Upper
<1> QED BY <1>4, <1>8, <1>9, <1>10, <1>11

-----------------------------------------------------------------------------
(* The tables. *)

TablesOf(im, t) == {im} \union {t[l].to : l \in {k \in DOMAIN t : t[k].kind = "table"}}
\* An entry leads to a table.
Leads(t, f, x, g) == Entry(t, f, x).kind = "table" /\ Entry(t, f, x).to = g

\* A frame is a table when it is the directory or an entry leads to it.
LEMMA TablesByEntry ==
    ASSUME NEW im, NEW t, IsTables(t), NEW g
    PROVE  g \in TablesOf(im, t) <=> g = im \/ \E f \in Nat, x \in Nat : Leads(t, f, x, g)
<1>1. \A l \in DOMAIN t : \E f \in Nat, x \in Nat : l = <<f, x>> /\ Entry(t, f, x) = t[l]
  <2> SUFFICES ASSUME NEW l \in DOMAIN t
               PROVE  \E f \in Nat, x \in Nat : l = <<f, x>> /\ Entry(t, f, x) = t[l]
    OBVIOUS
  <2>1. PICK f \in Nat, x \in Nat : l = <<f, x>>
    BY DEF IsTables
  <2>2. Entry(t, f, x) = t[l]
    BY <2>1 DEF Entry
  <2> QED BY <2>1, <2>2
<1>2. \A f, x : Entry(t, f, x).kind = "table" => <<f, x>> \in DOMAIN t /\ Entry(t, f, x) = t[<<f, x>>]
  BY DEF Entry
<1>3. g \in TablesOf(im, t) <=> g = im \/ \E l \in DOMAIN t : t[l].kind = "table" /\ t[l].to = g
  BY DEF TablesOf
<1>4. ASSUME NEW l \in DOMAIN t, t[l].kind = "table", t[l].to = g
      PROVE  \E f \in Nat, x \in Nat : Leads(t, f, x, g)
  BY <1>1, <1>4 DEF Leads
<1>5. ASSUME NEW f \in Nat, NEW x \in Nat, Leads(t, f, x, g)
      PROVE  \E l \in DOMAIN t : t[l].kind = "table" /\ t[l].to = g
  BY <1>2, <1>5 DEF Leads
<1> QED BY <1>3, <1>4, <1>5

\* A write over entries that lead to no table adds the tables it names.
LEMMA TablesAfter ==
    ASSUME NEW im, NEW t, IsTables(t), NEW new, IsTables(new),
           \A f, x \in Nat : Has(new, f, x) => Entry(t, f, x).kind /= "table", NEW g
    PROVE  g \in TablesOf(im, Write(t, new)) <=>
             \/ g \in TablesOf(im, t)
             \/ \E f, x \in Nat : Has(new, f, x) /\ Leads(new, f, x, g)
<1>1. PICK u : u = Write(t, new)
  OBVIOUS
<1>2. /\ \A f, x : Entry(u, f, x) = IF Has(new, f, x) THEN Entry(new, f, x) ELSE Entry(t, f, x)
      /\ IsTables(u)
  BY <1>1, Writes
<1>3. g \in TablesOf(im, u) <=> g = im \/ \E f \in Nat, x \in Nat : Leads(u, f, x, g)
  BY <1>2, TablesByEntry
<1>4. g \in TablesOf(im, t) <=> g = im \/ \E f \in Nat, x \in Nat : Leads(t, f, x, g)
  BY TablesByEntry
<1>5. \A f, x \in Nat : Leads(u, f, x, g) <=> Leads(t, f, x, g) \/ (Has(new, f, x) /\ Leads(new, f, x, g))
  BY <1>2 DEF Leads
<1> QED BY <1>1, <1>3, <1>4, <1>5

LEMMA TablesAfterOne ==
    ASSUME NEW im, NEW t, IsTables(t), NEW f \in Nat, NEW x \in Nat, NEW e,
           Entry(t, f, x).kind /= "table"
    PROVE  /\ IsTables(WriteOne(t, f, x, e))
           /\ e.kind = "table" => TablesOf(im, WriteOne(t, f, x, e)) = TablesOf(im, t) \union {e.to}
           /\ e.kind /= "table" => TablesOf(im, WriteOne(t, f, x, e)) = TablesOf(im, t)
<1>1. PICK new : new = [l \in {<<f, x>>} |-> e]
  OBVIOUS
<1>2. IsTables(new) /\ (\A g, y : Has(new, g, y) <=> g = f /\ y = x) /\ Entry(new, f, x) = e
  BY <1>1 DEF IsTables, Has, Entry
<1>3. WriteOne(t, f, x, e) = Write(t, new)
  BY <1>1 DEF WriteOne
<1>4. \A a, b \in Nat : Has(new, a, b) => Entry(t, a, b).kind /= "table"
  BY <1>2
<1>5. IsTables(Write(t, new))
  BY <1>2, Writes
<1>6. ASSUME NEW g
      PROVE  g \in TablesOf(im, Write(t, new)) <=> g \in TablesOf(im, t) \/ (e.kind = "table" /\ e.to = g)
  <2>1. g \in TablesOf(im, Write(t, new)) <=>
          g \in TablesOf(im, t) \/ \E a, b \in Nat : Has(new, a, b) /\ Leads(new, a, b, g)
    BY ONLY IsTables(t), <1>2, <1>4, TablesAfter
  <2> QED BY <1>2, <2>1 DEF Leads
<1> QED BY <1>3, <1>5, <1>6

-----------------------------------------------------------------------------
(* The parts of the invariant, for a kernel image of im pages, tables t and *)
(* a position fm of freemem.                                                *)

RamBlocks == FirstDevice \div PTES
\* The second middle directory, and the last of its entries that a segment needs.
Dev(im) == im + 2 + RamBlocks
LastMid == Mid(TIMESTACK - 1)

\* boot_mmu_setup after k page tables.
RamTables(im, t, fm, k) ==
    /\ IsTables(t) /\ \A f, x \in Nat : Has(t, f, x) => f < im + 2 + k
    /\ fm = (im + 2 + k) * BY2PG
    /\ Entry(t, im, 0) = Table(im + 1)
    /\ \A n \in 0..(k - 1) : Entry(t, im + 1, n) = Table(im + 2 + n)
    /\ \A n \in 0..(k - 1), x \in 0..(PTES - 1) : Entry(t, im + 2 + n, x) = Leaf(n * PTES + x)
    /\ \A f, x \in Nat : Entry(t, f, x).kind = "table" =>
        (f = im /\ x = 0) \/ (f = im + 1 /\ x < k)
    /\ TablesOf(im, t) = im..(im + 1 + k)

\* What boot_mmu_setup leaves.
Identity(im, t) ==
    /\ Entry(t, im, 0) = Table(im + 1) /\ Entry(t, im, 1) = Table(Dev(im))
    /\ \A n \in 0..(RamBlocks - 1) : Entry(t, im + 1, n) = Table(im + 2 + n)
    /\ \A n \in RamBlocks..(PMDS - 1) : Entry(t, im + 1, n) = Block(n * PTES)
    /\ \A n \in 0..(RamBlocks - 1), x \in 0..(PTES - 1) : Entry(t, im + 2 + n, x) = Leaf(n * PTES + x)
    /\ Entry(t, Dev(im), 0) = Block(NPAGE)
\* The page tables of the segments: behind the others, each of them with one entry.
IsMid(im, t, m) == Entry(t, Dev(im), m).kind = "table"
Middles(im, t, fm) ==
    /\ \A m \in 1..(PMDS - 1) :
        IF IsMid(im, t, m) THEN Entry(t, Dev(im), m).to \in (Dev(im) + 1)..(Fresh(fm) - 1) /\ m <= LastMid
        ELSE Entry(t, Dev(im), m).kind = "invalid"
    /\ \A m, n \in 1..(PMDS - 1) :
        IsMid(im, t, m) /\ IsMid(im, t, n) /\ Entry(t, Dev(im), m).to = Entry(t, Dev(im), n).to => m = n
\* Page tables lead to pages only.
TopTables(im, t) ==
    IsTables(t) /\ \A f, x \in Nat : Entry(t, f, x).kind = "table" => f \in {im, im + 1, Dev(im)}

LEMMA BlocksFit == RamBlocks \in 0..(PMDS - 1) /\ FirstDevice = RamBlocks * PTES /\ FirstDevice \in Nat
<1>1. FirstDevice \in Nat /\ FirstDevice % PTES = 0 /\ FirstDevice < PTES * PMDS
  BY LayoutAssumption
<1>2. PICK d \in Nat : d = RamBlocks /\ FirstDevice = d * PTES
  <2>1. PICK d \in Nat, r \in 0..(PTES - 1) :
          d = FirstDevice \div PTES /\ r = FirstDevice % PTES /\ FirstDevice = d * PTES + r
    BY <1>1, Sizes
  <2>2. r = 0 /\ d * PTES \in Nat
    BY <1>1, <2>1, Sizes
  <2>3. FirstDevice = d * PTES
    BY <2>1, <2>2
  <2> QED BY <2>1, <2>3 DEF RamBlocks
<1>3. d < PMDS
  <2>1. SUFFICES ASSUME d >= PMDS PROVE FALSE
    BY Sizes
  <2>2. PICK e \in Nat : d = PMDS + e
    <3>1. d - PMDS \in Nat /\ d = PMDS + (d - PMDS)
      BY <2>1, Sizes
    <3> QED BY <3>1
  <2>3. d * PTES = PMDS * PTES + e * PTES /\ e * PTES \in Nat
    BY <2>2, Sizes
  <2> QED BY <1>1, <1>2, <2>3, Sizes
<1> QED BY <1>1, <1>2, <1>3, Sizes

\* The first two tables.
LEMMA SetupBegins ==
    ASSUME NEW im \in Nat, NEW t, t = WriteOne(<<>>, im, 0, Table(im + 1)),
           NEW fm, fm = im * BY2PG + 2 * BY2PG
    PROVE  RamTables(im, t, fm, 0)
<1>1. IsTables(<<>>) /\ \A f, x : Entry(<<>>, f, x).kind = "invalid" /\ ~Has(<<>>, f, x)
  BY DEF IsTables, Entry, Has
<1>2. TablesOf(im, <<>>) = {im}
  BY DEF TablesOf
<1>3. Table(im + 1).kind = "table" /\ Table(im + 1).to = im + 1
  BY Kinds
<1>4. IsTables(t) /\ TablesOf(im, t) = {im} \union {im + 1}
  BY <1>1, <1>2, <1>3, TablesAfterOne, 0 \in Nat
<1>5. /\ \A f, x : Has(t, f, x) <=> f = im /\ x = 0
      /\ \A f, x : Entry(t, f, x) = IF f = im /\ x = 0 THEN Table(im + 1) ELSE Entry(<<>>, f, x)
  BY <1>1, WritesOne
<1>6. fm = (im + 2 + 0) * BY2PG /\ {im} \union {im + 1} = im..(im + 1 + 0)
  OBVIOUS
<1>7. \A f, x \in Nat : Entry(t, f, x).kind = "table" => f = im /\ x = 0
  BY <1>1, <1>5
<1>8. \A f, x \in Nat : Has(t, f, x) => f < im + 2 + 0
  BY <1>5
<1>9. Entry(t, im, 0) = Table(im + 1)
  BY <1>5
<1>10. TablesOf(im, t) = im..(im + 1 + 0)
  BY <1>4, <1>6
<1>11. fm = (im + 2 + 0) * BY2PG
  BY <1>6
<1>12. \A n \in 0..(0 - 1) : Entry(t, im + 1, n) = Table(im + 2 + n)
  OBVIOUS
<1>13. \A n \in 0..(0 - 1), x \in 0..(PTES - 1) : Entry(t, im + 2 + n, x) = Leaf(n * PTES + x)
  OBVIOUS
<1>14. \A f, x \in Nat : Entry(t, f, x).kind = "table" =>
        (f = im /\ x = 0) \/ (f = im + 1 /\ x < 0)
  BY <1>7
<1> QED BY ONLY <1>4, <1>10, <1>11, <1>12, <1>13, <1>14, <1>8, <1>9 DEF RamTables

\* One page table of the identity map.
LEMMA SetupGoesOn ==
    ASSUME NEW im \in Nat, NEW t, NEW fm, NEW k \in Nat, RamTables(im, t, fm, k),
           NEW new, new = [l \in {im + 2 + k} \X (0..(PTES - 1)) |-> Leaf(k * PTES + l[2])],
           NEW u, u = WriteOne(Write(t, new), im + 1, k, Table(im + 2 + k))
    PROVE  RamTables(im, u, fm + BY2PG, k + 1)
<1> PICK tab \in Nat : tab = im + 2 + k
  OBVIOUS
<1>0. tab \in Nat /\ tab = im + 2 + k /\ im \in Nat /\ k \in Nat /\ PTES \in Nat /\ RamTables(im, t, fm, k)
  BY Sizes
<1>1. /\ IsTables(new) /\ \A f, x : Has(new, f, x) <=> f = tab /\ x \in 0..(PTES - 1)
      /\ \A x \in 0..(PTES - 1) : Entry(new, tab, x) = Leaf(k * PTES + x)
  <2>1. new = [l \in {tab} \X (0..(PTES - 1)) |-> Leaf(k * PTES + l[2])]
    BY <1>0
  <2> QED BY ONLY <1>0, <2>1, Sizes DEF IsTables, Has, Entry
<1>2. PICK w : w = Write(t, new)
  OBVIOUS
<1>3. /\ \A f, x : Has(w, f, x) <=> Has(new, f, x) \/ Has(t, f, x)
      /\ \A f, x : Entry(w, f, x) = IF Has(new, f, x) THEN Entry(new, f, x) ELSE Entry(t, f, x)
      /\ IsTables(w)
  BY ONLY <1>0, <1>1, <1>2, Writes DEF RamTables
<1>4. \A f, x : Entry(w, f, x) = IF f = tab /\ x \in 0..(PTES - 1) THEN Leaf(k * PTES + x)
                               ELSE Entry(t, f, x)
  BY ONLY <1>1, <1>3
<1>5. TablesOf(im, w) = TablesOf(im, t)
  <2>1. \A f, x \in Nat : Has(new, f, x) => Entry(t, f, x).kind /= "table"
    BY ONLY <1>0, <1>1 DEF RamTables
  <2>2. \A f, x, g : Has(new, f, x) => ~Leads(new, f, x, g)
    BY ONLY <1>1, Kinds DEF Leads
  <2>3. ASSUME NEW g PROVE g \in TablesOf(im, w) <=> g \in TablesOf(im, t)
    BY ONLY <1>0, <1>1, <1>2, <2>1, <2>2, TablesAfter DEF RamTables
  <2> QED BY ONLY <2>3
<1>6. u = WriteOne(w, im + 1, k, Table(tab))
  BY <1>0, <1>2
<1>7. /\ \A f, x : Has(u, f, x) <=> (f = im + 1 /\ x = k) \/ Has(w, f, x)
      /\ \A f, x : Entry(u, f, x) = IF f = im + 1 /\ x = k THEN Table(tab) ELSE Entry(w, f, x)
  BY ONLY <1>6, WritesOne
<1>8. Entry(w, im + 1, k).kind /= "table"
  BY ONLY <1>0, <1>4 DEF RamTables
<1>9. IsTables(u) /\ TablesOf(im, u) = im..(im + 1 + (k + 1))
  <2>1. Table(tab).kind = "table" /\ Table(tab).to = tab
    BY ONLY Kinds
  <2>2. im + 1 \in Nat
    BY ONLY <1>0
  <2>3. IsTables(u) /\ TablesOf(im, u) = TablesOf(im, w) \union {tab}
    BY ONLY <1>0, <1>3, <1>6, <1>8, <2>1, <2>2, TablesAfterOne
  <2>4. TablesOf(im, t) = im..(im + 1 + k)
    BY ONLY <1>0 DEF RamTables
  <2>5. (im..(im + 1 + k)) \union {tab} = im..(im + 1 + (k + 1))
    BY ONLY <1>0
  <2> QED BY ONLY <1>5, <2>3, <2>4, <2>5
<1>10. \A f, x \in Nat : Has(u, f, x) => f < im + 2 + (k + 1)
  BY ONLY <1>0, <1>1, <1>3, <1>7 DEF RamTables
<1>11. fm + BY2PG = (im + 2 + (k + 1)) * BY2PG
  BY ONLY <1>0 DEF RamTables, BY2PG
<1>12. Entry(u, im, 0) = Table(im + 1)
  BY ONLY <1>0, <1>4, <1>7 DEF RamTables
<1>13. \A n \in 0..(k + 1 - 1) : Entry(u, im + 1, n) = Table(im + 2 + n)
  <2> SUFFICES ASSUME NEW n \in 0..(k + 1 - 1)
               PROVE  Entry(u, im + 1, n) = Table(im + 2 + n)
    OBVIOUS
  <2>1. \A x \in 0..(k - 1) : Entry(t, im + 1, x) = Table(im + 2 + x)
    BY ONLY <1>0 DEF RamTables
  <2>2. tab = im + 2 + k /\ im \in Nat /\ k \in Nat /\ im + 1 /= tab
    BY ONLY <1>0
  <2>3. CASE n = k
    BY ONLY <1>7, <2>2, <2>3
  <2>4. CASE n /= k
    <3>1. n \in 0..(k - 1)
      BY ONLY <2>2, <2>4, n \in 0..(k + 1 - 1)
    <3> QED BY ONLY <1>4, <1>7, <2>1, <2>2, <2>4, <3>1
  <2> QED BY ONLY <2>3, <2>4
<1>14. \A n \in 0..(k + 1 - 1), x \in 0..(PTES - 1) : Entry(u, im + 2 + n, x) = Leaf(n * PTES + x)
  <2>1. ASSUME NEW n \in 0..(k + 1 - 1), NEW x \in 0..(PTES - 1)
        PROVE  Entry(u, im + 2 + n, x) = Leaf(n * PTES + x)
    <3>1. Entry(u, im + 2 + n, x) = Entry(w, im + 2 + n, x)
      BY ONLY <1>0, <1>7, n \in 0..(k + 1 - 1)
    <3>2. CASE n = k
      BY ONLY <1>0, <1>4, <3>1, <3>2, x \in 0..(PTES - 1)
    <3>3. CASE n /= k
      <4>1. n \in 0..(k - 1) /\ im + 2 + n /= tab
        BY ONLY <1>0, <3>3, n \in 0..(k + 1 - 1)
      <4>2. Entry(w, im + 2 + n, x) = Entry(t, im + 2 + n, x)
        BY ONLY <1>4, <4>1
      <4>3. Entry(t, im + 2 + n, x) = Leaf(n * PTES + x)
        BY ONLY <1>0, <4>1, x \in 0..(PTES - 1) DEF RamTables
      <4> QED BY ONLY <3>1, <4>2, <4>3
    <3> QED BY ONLY <3>2, <3>3
  <2> QED BY ONLY <2>1
<1>15. \A f, x \in Nat : Entry(u, f, x).kind = "table" =>
         (f = im /\ x = 0) \/ (f = im + 1 /\ x < k + 1)
  <2>1. \A x : Leaf(k * PTES + x).kind /= "table"
    BY ONLY Kinds
  <2> QED BY ONLY <1>0, <1>4, <1>7, <2>1 DEF RamTables
<1> QED BY ONLY <1>9, <1>10, <1>11, <1>12, <1>13, <1>14, <1>15 DEF RamTables

\* The device window and the second middle directory.
LEMMA SetupEnds ==
    ASSUME NEW im \in Nat, NEW t, NEW fm, RamTables(im, t, fm, RamBlocks),
           NEW row, row = [l \in {im + 1} \X (RamBlocks..(PMDS - 1)) |-> Block(l[2] * PTES)],
           NEW u, u = Write(WriteOne(WriteOne(t, Dev(im), 0, Block(NPAGE)), im, 1, Table(Dev(im))), row)
    PROVE  /\ Identity(im, u) /\ TopTables(im, u) /\ Middles(im, u, fm + BY2PG)
           /\ TablesOf(im, u) = im..Dev(im) /\ fm + BY2PG = (Dev(im) + 1) * BY2PG
<1> PICK d \in Nat, r \in Nat : r = RamBlocks /\ d = im + 2 + r /\ d = Dev(im)
  BY BlocksFit DEF Dev
<1>0. /\ d = im + 2 + r /\ d = Dev(im) /\ r = RamBlocks /\ im \in Nat /\ r \in Nat /\ d \in Nat
      /\ r \in 0..(PMDS - 1) /\ RamTables(im, t, fm, r) /\ PTES \in Nat /\ PMDS \in Nat
  BY Sizes, BlocksFit
<1>1. /\ IsTables(row) /\ \A f, x : Has(row, f, x) <=> f = im + 1 /\ x \in r..(PMDS - 1)
      /\ \A x \in r..(PMDS - 1) : Entry(row, im + 1, x) = Block(x * PTES)
  <2>1. row = [l \in {im + 1} \X (r..(PMDS - 1)) |-> Block(l[2] * PTES)]
    BY <1>0
  <2> QED BY ONLY <1>0, <2>1 DEF IsTables, Has, Entry
<1>2. PICK v, w : v = WriteOne(t, d, 0, Block(NPAGE)) /\ w = WriteOne(v, im, 1, Table(d))
  OBVIOUS
<1>3. u = Write(w, row)
  BY <1>0, <1>2
<1>4. \A f, x : Entry(v, f, x) = IF f = d /\ x = 0 THEN Block(NPAGE) ELSE Entry(t, f, x)
  BY ONLY <1>2, WritesOne
<1>5. \A f, x : Entry(w, f, x) = IF f = im /\ x = 1 THEN Table(d) ELSE Entry(v, f, x)
  BY ONLY <1>2, WritesOne
<1>6. \A f, x : Entry(u, f, x) = IF Has(row, f, x) THEN Entry(row, f, x) ELSE Entry(w, f, x)
  BY ONLY <1>3, Writes
<1>7. /\ Table(d).kind = "table" /\ Table(d).to = d /\ Block(NPAGE).kind = "block"
      /\ \A x : Block(x).kind = "block"
  BY Kinds
<1>8. IsTables(v) /\ TablesOf(im, v) = TablesOf(im, t)
  <2>1. Entry(t, d, 0).kind /= "table"
    BY ONLY <1>0 DEF RamTables
  <2>2. IsTables(t)
    BY ONLY <1>0 DEF RamTables
  <2>3. /\ IsTables(WriteOne(t, d, 0, Block(NPAGE)))
        /\ TablesOf(im, WriteOne(t, d, 0, Block(NPAGE))) = TablesOf(im, t)
    BY ONLY <1>0, <1>7, <2>1, <2>2, TablesAfterOne, 0 \in Nat
  <2> QED BY ONLY <1>2, <2>3
<1>9. IsTables(w) /\ TablesOf(im, w) = TablesOf(im, t) \union {d}
  <2>1. Entry(v, im, 1).kind /= "table"
    <3>1. Entry(v, im, 1) = Entry(t, im, 1)
      BY ONLY <1>0, <1>4
    <3> QED BY ONLY <1>0, <3>1 DEF RamTables
  <2>2. /\ IsTables(WriteOne(v, im, 1, Table(d)))
        /\ TablesOf(im, WriteOne(v, im, 1, Table(d))) = TablesOf(im, v) \union {d}
    BY ONLY <1>0, <1>7, <1>8, <2>1, TablesAfterOne, 1 \in Nat
  <2> QED BY ONLY <1>2, <1>8, <2>2
<1>10. IsTables(u) /\ TablesOf(im, u) = TablesOf(im, w)
  <2>1. \A f, x \in Nat : Has(row, f, x) => Entry(w, f, x).kind /= "table"
    <3>1. ASSUME NEW x \in r..(PMDS - 1) PROVE Entry(w, im + 1, x).kind /= "table"
      <4>1. Entry(w, im + 1, x) = Entry(t, im + 1, x) /\ x \in Nat /\ ~(x < r)
        BY ONLY <1>0, <1>4, <1>5, x \in r..(PMDS - 1)
      <4> QED BY ONLY <1>0, <4>1 DEF RamTables
    <3> QED BY ONLY <1>1, <3>1
  <2>2. \A f, x, g : Has(row, f, x) => ~Leads(row, f, x, g)
    BY ONLY <1>1, <1>7 DEF Leads
  <2>3. ASSUME NEW g PROVE g \in TablesOf(im, u) <=> g \in TablesOf(im, w)
    BY ONLY <1>1, <1>3, <1>9, <2>1, <2>2, TablesAfter
  <2>4. IsTables(u)
    BY ONLY <1>1, <1>3, <1>9, Writes
  <2> QED BY ONLY <2>3, <2>4
<1>11. TablesOf(im, u) = im..d
  <2>1. TablesOf(im, t) = im..(im + 1 + r)
    BY ONLY <1>0 DEF RamTables
  <2>2. (im..(im + 1 + r)) \union {d} = im..d
    BY ONLY <1>0
  <2> QED BY ONLY <1>9, <1>10, <2>1, <2>2
<1>12. fm + BY2PG = (d + 1) * BY2PG
  BY ONLY <1>0 DEF RamTables, BY2PG
\* Entries that keep their value, and those of the second middle directory.
<1>13. ASSUME NEW f \in Nat, NEW x \in Nat, f /= d, f = im => x /= 1, f = im + 1 => x < r
       PROVE  Entry(u, f, x) = Entry(t, f, x)
  <2>1. ~Has(row, f, x)
    BY ONLY <1>0, <1>1, <1>13
  <2> QED BY ONLY <1>4, <1>5, <1>6, <1>13, <2>1
<1>14. Entry(u, d, 0) = Block(NPAGE) /\ Entry(u, im, 1) = Table(d)
  BY ONLY <1>0, <1>1, <1>4, <1>5, <1>6
<1>15. ASSUME NEW m \in Nat, m >= 1 PROVE Entry(u, d, m).kind = "invalid"
  <2>1. Entry(u, d, m) = Entry(t, d, m)
    BY ONLY <1>0, <1>1, <1>4, <1>5, <1>6, <1>15
  <2>2. ~Has(t, d, m)
    BY ONLY <1>0, m \in Nat DEF RamTables
  <2>3. Entry(t, d, m).kind = "invalid"
    BY ONLY <2>2 DEF Has, Entry
  <2> QED BY ONLY <2>1, <2>3
<1>16. Identity(im, u)
  <2>1. Entry(u, im, 0) = Table(im + 1)
    <3>1. Entry(u, im, 0) = Entry(t, im, 0)
      BY ONLY <1>0, <1>13, 0 \in Nat
    <3> QED BY ONLY <1>0, <3>1 DEF RamTables
  <2>2. ASSUME NEW n \in 0..(r - 1) PROVE Entry(u, im + 1, n) = Table(im + 2 + n)
    <3>1. Entry(u, im + 1, n) = Entry(t, im + 1, n)
      <4>1. im + 1 \in Nat /\ n \in Nat /\ im + 1 /= d /\ im + 1 /= im /\ n < r
        BY ONLY <1>0, n \in 0..(r - 1)
      <4> QED BY ONLY <1>13, <4>1
    <3> QED BY ONLY <1>0, <3>1, n \in 0..(r - 1) DEF RamTables
  <2>3. \A n \in r..(PMDS - 1) : Entry(u, im + 1, n) = Block(n * PTES)
    BY ONLY <1>1, <1>6
  <2>4. ASSUME NEW n \in 0..(r - 1), NEW x \in 0..(PTES - 1)
        PROVE  Entry(u, im + 2 + n, x) = Leaf(n * PTES + x)
    <3>1. Entry(u, im + 2 + n, x) = Entry(t, im + 2 + n, x)
      <4>1. /\ im + 2 + n \in Nat /\ x \in Nat /\ im + 2 + n /= d /\ im + 2 + n /= im
            /\ im + 2 + n /= im + 1
        BY ONLY <1>0, n \in 0..(r - 1), x \in 0..(PTES - 1)
      <4> QED BY ONLY <1>13, <4>1
    <3>2. Entry(t, im + 2 + n, x) = Leaf(n * PTES + x)
      BY ONLY <1>0, n \in 0..(r - 1), x \in 0..(PTES - 1) DEF RamTables
    <3> QED BY ONLY <3>1, <3>2
  <2> QED BY ONLY <1>0, <1>14, <2>1, <2>2, <2>3, <2>4 DEF Identity
<1>17. TopTables(im, u)
  <2>1. ASSUME NEW f \in Nat, NEW x \in Nat, Entry(u, f, x).kind = "table", f \notin {im, im + 1, d}
        PROVE  FALSE
    <3>1. Entry(u, f, x) = Entry(t, f, x)
      BY ONLY <1>13, <2>1
    <3> QED BY ONLY <1>0, <2>1, <3>1 DEF RamTables
  <2> QED BY ONLY <1>0, <1>10, <2>1 DEF TopTables
<1>18. Middles(im, u, fm + BY2PG)
  <2>1. \A m \in 1..(PMDS - 1) : m \in Nat /\ m >= 1
    BY ONLY <1>0
  <2>2. \A m \in 1..(PMDS - 1) : Entry(u, Dev(im), m).kind = "invalid"
    BY ONLY <1>0, <1>15, <2>1
  <2> QED BY ONLY <2>2 DEF Middles, IsMid
<1> QED BY ONLY <1>0, <1>11, <1>12, <1>16, <1>17, <1>18

-----------------------------------------------------------------------------
(* Frames have one owner, and segments lead to their arrays.               *)

Frames(sz, arr, s) == arr[s]..(arr[s] + Pages(sz, s) - 1)
Owned(im, t, fm, sz, arr) ==
    /\ TablesOf(im, t) \subseteq im..(Fresh(fm) - 1)
    /\ \A s \in DOMAIN arr : Frames(sz, arr, s) \subseteq im..(Fresh(fm) - 1)
    /\ \A f \in im..(Fresh(fm) - 1) :
        f \in TablesOf(im, t) <=> \A s \in DOMAIN arr : f \notin Frames(sz, arr, s)
    /\ \A s, r \in DOMAIN arr : \A f \in Frames(sz, arr, s) : f \in Frames(sz, arr, r) => s = r

\* A page of the segments leads to frame f.
Mapped(im, t, v, f) ==
    IsMid(im, t, Mid(v)) /\ Entry(t, Entry(t, Dev(im), Mid(v)).to, v % PTES) = Leaf(f)
\* All pages of the arrays do, of the last array the first n.
AllMapped(im, t, sz, arr, n) ==
    \A s \in DOMAIN arr : \A k \in 0..((IF s = Len(arr) THEN n ELSE Pages(sz, s)) - 1) :
        Mapped(im, t, Segment[s] + k, arr[s] + k)

\* What holds after boot_mmu_setup, whatever is allocated then.
Built(im, t, fm, sz, arr, n) ==
    /\ Identity(im, t) /\ TopTables(im, t) /\ Middles(im, t, fm)
    /\ Owned(im, t, fm, sz, arr) /\ AllMapped(im, t, sz, arr, n)

\* The array of the next segment.
OneMore(fm, fm2, sz, arr, arr2, L, b) ==
    /\ fm \in Nat /\ IsSize(sz) /\ arr \in Seq(Nat) /\ L \in 0..3 /\ L = Len(arr)
    /\ b = Fresh(fm) /\ fm2 \in Nat /\ Fresh(fm2) = b + Pages(sz, L + 1)
    /\ arr2 \in Seq(Nat) /\ Len(arr2) = L + 1 /\ arr2[L + 1] = b
    /\ \A s \in 1..L : arr2[s] = arr[s]
LEMMA ArrayAllocated ==
    ASSUME NEW im \in Nat, NEW t, NEW fm, NEW fm2, NEW sz, NEW arr, NEW arr2, NEW L, NEW b,
           OneMore(fm, fm2, sz, arr, arr2, L, b), Built(im, t, fm, sz, arr, Pages(sz, L))
    PROVE  Built(im, t, fm2, sz, arr2, 0)
<1>0. /\ fm \in Nat /\ IsSize(sz) /\ arr \in Seq(Nat) /\ L \in 0..3 /\ L = Len(arr)
      /\ b = Fresh(fm) /\ fm2 \in Nat /\ Fresh(fm2) = b + Pages(sz, L + 1)
      /\ arr2 \in Seq(Nat) /\ Len(arr2) = L + 1 /\ arr2[L + 1] = b
      /\ \A s \in 1..L : arr2[s] = arr[s]
  BY DEF OneMore
<1>a. PICK p, fr : p = Pages(sz, L + 1) /\ fr = Fresh(fm2)
  OBVIOUS
<1>1. /\ im \in Nat /\ L \in 0..3 /\ L = Len(arr) /\ DOMAIN arr = 1..L /\ b \in Nat /\ p \in Nat /\ fr \in Nat
      /\ b = Fresh(fm) /\ fr = Fresh(fm2) /\ fr = b + p /\ p = Pages(sz, L + 1)
  <2>1. p \in Nat
    <3>1. L + 1 \in 1..4
      <4>1. L \in 0..3
        BY ONLY <1>0
      <4> QED BY ONLY <4>1
    <3> QED BY ONLY <1>0, <1>a, <3>1, SegmentsLie
  <2>2. b \in Nat /\ fr = b + p
    <3>1. b \in Nat
      BY ONLY <1>0 DEF Fresh, Page, Round
    <3> QED BY <1>0, <1>a, <3>1
  <2>3. DOMAIN arr = 1..L
    BY ONLY <1>0
  <2>4. fr \in Nat
    BY ONLY <2>1, <2>2
  <2> QED BY <1>0, <1>a, <2>1, <2>2, <2>3, <2>4
<1>2. /\ arr2 \in Seq(Nat) /\ Len(arr2) = L + 1 /\ DOMAIN arr2 = 1..(L + 1) /\ arr2[L + 1] = b
      /\ \A s \in 1..L : arr2[s] = arr[s]
  <2>1. DOMAIN arr2 = 1..(L + 1)
    BY ONLY <1>0
  <2> QED BY <1>0, <2>1
<1>3. \A s \in 1..(L + 1) : s = L + 1 \/ s \in 1..L
  BY ONLY <1>1
<1>4. \A s \in 1..L : s \in 1..(L + 1) /\ s /= L + 1
  BY ONLY <1>1
<1>5. Frames(sz, arr2, L + 1) = b..(fr - 1)
  BY ONLY <1>1, <1>2 DEF Frames
<1>6. \A s \in 1..L : Frames(sz, arr2, s) = Frames(sz, arr, s)
  BY ONLY <1>2 DEF Frames
<1>7. Built(im, t, fm, sz, arr, Pages(sz, L))
  OBVIOUS
<1>8. /\ TablesOf(im, t) \subseteq im..(b - 1)
      /\ \A s \in 1..L : Frames(sz, arr, s) \subseteq im..(b - 1)
      /\ \A f \in im..(b - 1) : f \in TablesOf(im, t) <=> \A s \in 1..L : f \notin Frames(sz, arr, s)
      /\ \A s, r \in 1..L : \A f \in Frames(sz, arr, s) : f \in Frames(sz, arr, r) => s = r
  BY ONLY <1>1, <1>7 DEF Built, Owned
<1>9. im \in TablesOf(im, t)
  BY ONLY TRUE DEF TablesOf
<1>10. im < b
  BY ONLY <1>1, <1>8, <1>9
<1>11. /\ im..(b - 1) \subseteq im..(fr - 1) /\ b..(fr - 1) \subseteq im..(fr - 1)
       /\ \A f \in im..(fr - 1) : (f \in im..(b - 1) \/ f \in b..(fr - 1))
       /\ \A f \in b..(fr - 1) : f \notin im..(b - 1)
  <2>1. im \in Nat /\ b \in Nat /\ p \in Nat /\ fr = b + p /\ im < b
    BY ONLY <1>1, <1>10
  <2>2. im..(b - 1) \subseteq im..(fr - 1)
    BY ONLY <2>1
  <2>3. b..(fr - 1) \subseteq im..(fr - 1)
    BY ONLY <2>1
  <2>4. \A f \in im..(fr - 1) : f \in im..(b - 1) \/ f \in b..(fr - 1)
    BY ONLY <2>1
  <2>5. \A f \in b..(fr - 1) : f \notin im..(b - 1)
    BY ONLY <2>1
  <2> QED BY ONLY <2>2, <2>3, <2>4, <2>5
<1>12. Owned(im, t, fm2, sz, arr2)
  <2>1. TablesOf(im, t) \subseteq im..(fr - 1)
    BY ONLY <1>8, <1>11
  <2>2. \A s \in 1..(L + 1) : Frames(sz, arr2, s) \subseteq im..(fr - 1)
    BY ONLY <1>3, <1>5, <1>6, <1>8, <1>11
  <2>3. ASSUME NEW f \in im..(fr - 1)
        PROVE  f \in TablesOf(im, t) <=> \A s \in 1..(L + 1) : f \notin Frames(sz, arr2, s)
    <3>1. CASE f \in im..(b - 1)
      <4>1. f \notin Frames(sz, arr2, L + 1)
        BY ONLY <1>5, <1>11, <3>1
      <4> QED BY ONLY <1>3, <1>4, <1>6, <1>8, <3>1, <4>1
    <3>2. CASE f \in b..(fr - 1)
      <4>1. f \notin TablesOf(im, t)
        BY ONLY <1>8, <1>11, <3>2
      <4>2. f \in Frames(sz, arr2, L + 1)
        BY ONLY <1>5, <3>2
      <4>3. L + 1 \in 1..(L + 1)
        BY ONLY <1>1
      <4> QED BY ONLY <4>1, <4>2, <4>3
    <3> QED BY ONLY <1>11, <3>1, <3>2, f \in im..(fr - 1)
  <2>4. ASSUME NEW s \in 1..(L + 1), NEW r \in 1..(L + 1),
               NEW f \in Frames(sz, arr2, s), f \in Frames(sz, arr2, r)
        PROVE  s = r
    <3>1. CASE s = L + 1 /\ r \in 1..L
      BY ONLY <1>5, <1>6, <1>8, <1>11, <2>4, <3>1
    <3>2. CASE r = L + 1 /\ s \in 1..L
      BY ONLY <1>5, <1>6, <1>8, <1>11, <2>4, <3>2
    <3>3. CASE s \in 1..L /\ r \in 1..L
      BY ONLY <1>6, <1>8, <2>4, <3>3
    <3> QED BY ONLY <1>3, <3>1, <3>2, <3>3, s \in 1..(L + 1), r \in 1..(L + 1)
  <2> QED BY ONLY <1>1, <1>2, <2>1, <2>2, <2>3, <2>4 DEF Owned
<1>13. Middles(im, t, fm2)
  <2>1. \A g : g \in (Dev(im) + 1)..(b - 1) => g \in (Dev(im) + 1)..(fr - 1)
    BY ONLY <1>1, BlocksFit, Sizes DEF Dev
  <2> QED BY ONLY <1>1, <1>7, <2>1 DEF Middles, Built
<1>14. AllMapped(im, t, sz, arr2, 0)
  <2>1. ASSUME NEW s \in 1..(L + 1), NEW k \in 0..((IF s = L + 1 THEN 0 ELSE Pages(sz, s)) - 1)
        PROVE  Mapped(im, t, Segment[s] + k, arr2[s] + k)
    <3>1. s \in 1..L /\ k \in 0..(Pages(sz, s) - 1)
      BY ONLY <1>1, <1>3, s \in 1..(L + 1), k \in 0..((IF s = L + 1 THEN 0 ELSE Pages(sz, s)) - 1)
    <3>2. (IF s = L THEN Pages(sz, L) ELSE Pages(sz, s)) = Pages(sz, s)
      BY ONLY TRUE
    <3> QED BY ONLY <1>1, <1>2, <1>7, <3>1, <3>2 DEF Built, AllMapped
  <2> QED BY ONLY <1>2, <2>1 DEF AllMapped
<1> QED BY ONLY <1>1, <1>2, <1>7, <1>12, <1>13, <1>14 DEF Built

\* The tables lie from the image on, the middle directory of the segments among them.
LEMMA TablesLie ==
    ASSUME NEW im \in Nat, NEW t, NEW fm \in Nat, NEW sz, NEW arr \in Seq(Nat), NEW n,
           Built(im, t, fm, sz, arr, n)
    PROVE  im \in 0..(Fresh(fm) - 1) /\ Dev(im) \in (im + 2)..(Fresh(fm) - 1) /\ Fresh(fm) \in Nat
<1>1. Fresh(fm) \in Nat
  BY DEF Fresh, Page, Round
<1>2. Dev(im) \in Nat /\ Dev(im) >= im + 2
  BY BlocksFit, Sizes DEF Dev
<1>3. im \in TablesOf(im, t)
  BY DEF TablesOf
<1>4. Dev(im) \in TablesOf(im, t)
  <2>1. Leads(t, im, 1, Dev(im))
    BY Kinds DEF Leads, Built, Identity
  <2>2. IsTables(t)
    BY DEF Built, TopTables
  <2> QED BY ONLY <2>1, <2>2, TablesByEntry, im \in Nat, 1 \in Nat
<1>5. TablesOf(im, t) \subseteq im..(Fresh(fm) - 1)
  BY DEF Built, Owned
<1> QED BY ONLY <1>1, <1>2, <1>3, <1>4, <1>5, im \in Nat

\* boot_pgdir_walk fills an entry of the middle directory.
LEMMA TableGrown ==
    ASSUME NEW im \in Nat, NEW t, NEW fm \in Nat, NEW sz, NEW arr \in Seq(Nat), NEW n,
           Built(im, t, fm, sz, arr, n), NEW m \in 1..(PMDS - 1), m <= LastMid, ~IsMid(im, t, m),
           NEW b, b = Fresh(fm), NEW u, u = WriteOne(t, Dev(im), m, Table(b)),
           NEW fm2 \in Nat, Fresh(fm2) = b + 1
    PROVE  Built(im, u, fm2, sz, arr, n) /\ IsMid(im, u, m) /\ Entry(u, Dev(im), m).to = b
<1>1. PICK d : d = Dev(im)
  OBVIOUS
<1>2. d = Dev(im) /\ d \in Nat /\ d \in (im + 2)..(b - 1) /\ im \in 0..(b - 1) /\ b \in Nat /\ im \in Nat
  BY <1>1, TablesLie
<1>3. Built(im, t, fm, sz, arr, n) /\ b = Fresh(fm) /\ Fresh(fm2) = b + 1 /\ PMDS \in Nat
  BY Sizes
<1>4. \A f, x : Entry(u, f, x) = IF f = d /\ x = m THEN Table(b) ELSE Entry(t, f, x)
  <2>1. u = WriteOne(t, d, m, Table(b))
    BY <1>1
  <2> QED BY ONLY <2>1, WritesOne
<1>5. Table(b).kind = "table" /\ Table(b).to = b
  BY Kinds
<1>6. Identity(im, u)
  <2>1. \A f, x : ~(f = d /\ x = m) => Entry(u, f, x) = Entry(t, f, x)
    BY ONLY <1>4
  <2>2. RamBlocks \in Nat /\ d = im + 2 + RamBlocks
    BY <1>1, BlocksFit, Sizes DEF Dev
  <2>3. Identity(im, t)
    BY ONLY <1>3 DEF Built
  <2>4. im /= d /\ im + 1 /= d /\ \A q \in 0..(RamBlocks - 1) : im + 2 + q /= d
    BY ONLY <1>2, <2>2
  <2>5. m /= 0
    BY ONLY m \in 1..(PMDS - 1), <1>3
  <2> QED BY ONLY <1>2, <2>1, <2>3, <2>4, <2>5 DEF Identity
<1>7. TopTables(im, u)
  <2>1. IsTables(u)
    <3>1. IsTables(t) /\ Entry(t, d, m).kind /= "table" /\ m \in Nat
      BY <1>1, <1>3 DEF Built, TopTables, IsMid
    <3> QED BY <1>1, <1>2, <3>1, TablesAfterOne
  <2>2. \A f, x \in Nat : Entry(t, f, x).kind = "table" => f \in {im, im + 1, d}
    BY ONLY <1>2, <1>3 DEF Built, TopTables
  <2> QED BY ONLY <1>2, <1>4, <2>1, <2>2 DEF TopTables
<1>8. IsMid(im, u, m) /\ Entry(u, d, m).to = b
  BY ONLY <1>2, <1>4, <1>5 DEF IsMid
<1>9. \A k \in 1..(PMDS - 1) : k /= m => Entry(u, d, k) = Entry(t, d, k) /\ (IsMid(im, u, k) <=> IsMid(im, t, k))
  BY ONLY <1>2, <1>4 DEF IsMid
<1>10. /\ \A k \in 1..(PMDS - 1) :
            IF IsMid(im, t, k) THEN Entry(t, d, k).to \in (d + 1)..(b - 1) /\ k <= LastMid
            ELSE Entry(t, d, k).kind = "invalid"
       /\ \A k, j \in 1..(PMDS - 1) :
            IsMid(im, t, k) /\ IsMid(im, t, j) /\ Entry(t, d, k).to = Entry(t, d, j).to => k = j
  BY ONLY <1>2, <1>3 DEF Built, Middles
<1>11. Middles(im, u, fm2)
  <2>1. ASSUME NEW k \in 1..(PMDS - 1)
        PROVE  IF IsMid(im, u, k) THEN Entry(u, d, k).to \in (d + 1)..b /\ k <= LastMid
               ELSE Entry(u, d, k).kind = "invalid"
    <3>1. CASE k = m
      BY ONLY <1>2, <1>8, <3>1, m <= LastMid
    <3>2. CASE k /= m
      <4>1. \A g : g \in (d + 1)..(b - 1) => g \in (d + 1)..b
        BY ONLY <1>2
      <4> QED BY ONLY <1>9, <1>10, <3>2, <4>1, k \in 1..(PMDS - 1)
    <3> QED BY ONLY <3>1, <3>2
  <2>2. ASSUME NEW k \in 1..(PMDS - 1), NEW j \in 1..(PMDS - 1), IsMid(im, u, k), IsMid(im, u, j),
               Entry(u, d, k).to = Entry(u, d, j).to
        PROVE  k = j
    <3>1. ASSUME NEW q \in 1..(PMDS - 1), q /= m, IsMid(im, u, q) PROVE Entry(u, d, q).to /= b
      <4>1. Entry(t, d, q).to \in (d + 1)..(b - 1) /\ Entry(u, d, q) = Entry(t, d, q)
        BY ONLY <1>9, <1>10, <3>1
      <4> QED BY ONLY <1>2, <4>1
    <3>2. CASE k = m \/ j = m
      BY ONLY <1>8, <2>2, <3>1, <3>2
    <3>3. CASE k /= m /\ j /= m
      BY ONLY <1>9, <1>10, <2>2, <3>3
    <3> QED BY ONLY <3>2, <3>3
  <2>3. Fresh(fm2) - 1 = b
    BY ONLY <1>2, <1>3
  <2> QED BY ONLY <1>2, <2>1, <2>2, <2>3 DEF Middles
<1>12. Owned(im, u, fm2, sz, arr)
  <2>1. TablesOf(im, u) = TablesOf(im, t) \union {b}
    <3>1. IsTables(t) /\ Entry(t, d, m).kind /= "table" /\ m \in Nat
      BY <1>1, <1>3 DEF Built, TopTables, IsMid
    <3>2. TablesOf(im, WriteOne(t, d, m, Table(b))) = TablesOf(im, t) \union {b}
      <4>1. PICK e : e = Table(b) /\ e.kind = "table" /\ e.to = b
        BY ONLY <1>5
      <4>2. d \in Nat
        BY ONLY <1>2
      <4>3. e.kind = "table" => TablesOf(im, WriteOne(t, d, m, e)) = TablesOf(im, t) \union {e.to}
        BY ONLY <3>1, <4>2, TablesAfterOne
      <4> QED BY ONLY <4>1, <4>3
    <3>3. u = WriteOne(t, d, m, Table(b))
      BY <1>1
    <3> QED BY ONLY <3>2, <3>3
  <2>2. /\ TablesOf(im, t) \subseteq im..(b - 1)
        /\ \A s \in DOMAIN arr : Frames(sz, arr, s) \subseteq im..(b - 1)
        /\ \A f \in im..(b - 1) : f \in TablesOf(im, t) <=> \A s \in DOMAIN arr : f \notin Frames(sz, arr, s)
        /\ \A s, r \in DOMAIN arr : \A f \in Frames(sz, arr, s) : f \in Frames(sz, arr, r) => s = r
    BY ONLY <1>3 DEF Built, Owned
  <2>3. b + 1 - 1 = b /\ b \notin im..(b - 1) /\ im..b = (im..(b - 1)) \union {b}
    BY ONLY <1>2
  <2>4. \A s \in DOMAIN arr : Frames(sz, arr, s) \subseteq im..b /\ b \notin Frames(sz, arr, s)
    BY ONLY <2>2, <2>3
  <2>5. \A f \in im..b : f \in TablesOf(im, u) <=> \A s \in DOMAIN arr : f \notin Frames(sz, arr, s)
    BY ONLY <2>1, <2>2, <2>3, <2>4
  <2>6. TablesOf(im, u) \subseteq im..b
    BY ONLY <2>1, <2>2, <2>3
  <2> QED BY ONLY <1>3, <2>2, <2>3, <2>4, <2>5, <2>6 DEF Owned
<1>13. AllMapped(im, u, sz, arr, n)
  <2>1. ASSUME NEW v, NEW f, Mapped(im, t, v, f) PROVE Mapped(im, u, v, f)
    <3>1. Mid(v) /= m
      BY <2>1 DEF Mapped
    <3>2. Entry(u, d, Mid(v)) = Entry(t, d, Mid(v))
      BY ONLY <1>4, <3>1
    <3>3. PICK g : g = Entry(t, d, Mid(v)).to
      OBVIOUS
    <3>4. Entry(t, d, Mid(v)).kind = "table" /\ Entry(t, g, v % PTES) = Leaf(f)
      BY ONLY <1>2, <2>1, <3>3 DEF Mapped, IsMid
    <3>5. Entry(u, g, v % PTES) = Leaf(f)
      <4>1. CASE g = d /\ v % PTES = m
        <5>1. Entry(t, d, m).kind = "page"
          BY ONLY <3>4, <4>1, Kinds
        <5>2. Entry(t, d, m).kind = "invalid"
          BY ONLY <1>2, <1>10, m \in 1..(PMDS - 1), ~IsMid(im, t, m)
        <5> QED BY ONLY <5>1, <5>2
      <4>2. CASE ~(g = d /\ v % PTES = m)
        BY ONLY <1>4, <3>4, <4>2
      <4> QED BY ONLY <4>1, <4>2
    <3> QED BY ONLY <1>2, <3>2, <3>3, <3>4, <3>5 DEF Mapped, IsMid
  <2> QED BY ONLY <1>3, <2>1 DEF AllMapped, Built
<1> QED BY <1>1, <1>6, <1>7, <1>8, <1>11, <1>12, <1>13 DEF Built

IsPageOf(sz, s, k) == s \in 1..4 /\ k \in 0..(Pages(sz, s) - 1)
LEMMA SegmentsDiffer ==
    ASSUME NEW sz, IsSize(sz), NEW s, NEW r, NEW k, NEW j, IsPageOf(sz, s, k), IsPageOf(sz, r, j),
           Segment[s] + k = Segment[r] + j
    PROVE  s = r /\ k = j
<1>0. /\ s \in 1..4 /\ k \in 0..(Pages(sz, s) - 1)
      /\ r \in 1..4 /\ j \in 0..(Pages(sz, r) - 1)
  BY DEF IsPageOf
<1>1. \A a, c \in 1..4 : \A l \in 0..(Pages(sz, a) - 1), h \in 0..(Pages(sz, c) - 1) :
        Segment[a] + l = Segment[c] + h => a = c /\ l = h
  BY SegmentsLie
<1> QED BY ONLY <1>0, <1>1, Segment[s] + k = Segment[r] + j

\* MapPage writes a page's entry.
LEMMA LeafWritten ==
    ASSUME NEW im \in Nat, NEW t, NEW fm \in Nat, NEW sz, IsSize(sz), NEW arr \in Seq(Nat),
           NEW L \in 1..4, L = Len(arr), NEW n \in 0..(Pages(sz, L) - 1), Built(im, t, fm, sz, arr, n),
           NEW v, v = Segment[L] + n, IsMid(im, t, Mid(v)), NEW g, g = Entry(t, Dev(im), Mid(v)).to,
           NEW u, u = WriteOne(t, g, v % PTES, Leaf(arr[L] + n))
    PROVE  Built(im, u, fm, sz, arr, n + 1)
<1>1. PICK d, b, x, e : d = Dev(im) /\ b = Fresh(fm) /\ x = v % PTES /\ e = Leaf(arr[L] + n)
  OBVIOUS
<1>2. /\ d = Dev(im) /\ d \in Nat /\ d \in (im + 2)..(b - 1) /\ im \in 0..(b - 1) /\ b \in Nat /\ im \in Nat
      /\ b = Fresh(fm)
  BY <1>1, TablesLie
<1>3. Pages(sz, L) \in Nat /\ v \in Upper /\ v <= TIMESTACK - 1
  BY ONLY SegmentsLie, IsSize(sz), L \in 1..4, n \in 0..(Pages(sz, L) - 1), v = Segment[L] + n
<1>4. Mid(v) \in 1..(PMDS - 1) /\ x \in Nat
  BY ONLY <1>1, <1>3, UpperIndices, Sizes
<1>5. /\ \A k \in 1..(PMDS - 1) :
            IF IsMid(im, t, k) THEN Entry(t, d, k).to \in (d + 1)..(b - 1) /\ k <= LastMid
            ELSE Entry(t, d, k).kind = "invalid"
      /\ \A k, j \in 1..(PMDS - 1) :
            IsMid(im, t, k) /\ IsMid(im, t, j) /\ Entry(t, d, k).to = Entry(t, d, j).to => k = j
  BY ONLY <1>2, Built(im, t, fm, sz, arr, n) DEF Built, Middles
<1>6. g \in (d + 1)..(b - 1) /\ g = Entry(t, d, Mid(v)).to
  BY ONLY <1>2, <1>4, <1>5, IsMid(im, t, Mid(v)), g = Entry(t, Dev(im), Mid(v)).to
<1>7. g \in Nat /\ g /= im /\ g /= im + 1 /\ g /= d /\ g > d
  <2>1. d \in Nat /\ im \in Nat /\ b \in Nat /\ d \in (im + 2)..(b - 1)
    BY ONLY <1>2
  <2>2. g \in (d + 1)..(b - 1)
    BY ONLY <1>6
  <2> QED BY ONLY <2>1, <2>2
<1>8. e.kind = "page"
  BY <1>1, Kinds
<1>9. \A f, y : Entry(u, f, y) = IF f = g /\ y = x THEN e ELSE Entry(t, f, y)
  <2>1. u = WriteOne(t, g, x, e)
    BY <1>1
  <2> QED BY ONLY <2>1, WritesOne
<1>10. IsTables(t) /\ \A f, y \in Nat : Entry(t, f, y).kind = "table" => f \in {im, im + 1, d}
  BY ONLY <1>2, Built(im, t, fm, sz, arr, n) DEF Built, TopTables
<1>11. IsTables(u) /\ TablesOf(im, u) = TablesOf(im, t)
  <2>1. Entry(t, g, x).kind /= "table"
    BY ONLY <1>4, <1>7, <1>10
  <2>2. IsTables(WriteOne(t, g, x, e))
    BY ONLY <1>4, <1>7, <1>10, <2>1, TablesAfterOne
  <2>3. e.kind /= "table" => TablesOf(im, WriteOne(t, g, x, e)) = TablesOf(im, t)
    BY ONLY <1>4, <1>7, <1>10, <2>1, TablesAfterOne
  <2>4. u = WriteOne(t, g, x, e)
    BY <1>1
  <2> QED BY ONLY <1>8, <2>2, <2>3, <2>4
<1>12. \A f, y : f /= g => Entry(u, f, y) = Entry(t, f, y)
  BY ONLY <1>9
<1>13. \A y : Entry(u, d, y) = Entry(t, d, y) /\ Entry(u, im, y) = Entry(t, im, y)
              /\ Entry(u, im + 1, y) = Entry(t, im + 1, y)
  BY ONLY <1>7, <1>12
<1>14. Identity(im, u)
  <2>1. RamBlocks \in Nat /\ d = im + 2 + RamBlocks
    BY <1>1, BlocksFit, Sizes DEF Dev
  <2>2. Identity(im, t)
    BY DEF Built
  <2>3. \A q \in 0..(RamBlocks - 1) : im + 2 + q /= g
    BY ONLY <1>2, <1>7, <2>1
  <2>4. \A q \in 0..(RamBlocks - 1) : \A y : Entry(u, im + 2 + q, y) = Entry(t, im + 2 + q, y)
    BY ONLY <1>12, <2>3
  <2> QED BY ONLY <1>2, <1>13, <2>2, <2>4 DEF Identity
<1>15. TopTables(im, u)
  BY ONLY <1>2, <1>4, <1>7, <1>8, <1>9, <1>10, <1>11 DEF TopTables
<1>16. \A m : IsMid(im, u, m) <=> IsMid(im, t, m)
  BY ONLY <1>2, <1>13 DEF IsMid
<1>17. Middles(im, u, fm)
  BY ONLY <1>2, <1>5, <1>13, <1>16 DEF Middles
<1>18. Owned(im, u, fm, sz, arr)
  BY ONLY <1>11, Built(im, t, fm, sz, arr, n) DEF Built, Owned
<1>19. AllMapped(im, u, sz, arr, n + 1)
  <2>1. ASSUME NEW s \in DOMAIN arr, NEW k \in 0..((IF s = Len(arr) THEN n + 1 ELSE Pages(sz, s)) - 1)
        PROVE  Mapped(im, u, Segment[s] + k, arr[s] + k)
    <3>0. DOMAIN arr = 1..L
      BY ONLY arr \in Seq(Nat), L = Len(arr)
    <3>1. CASE s = L /\ k = n
      <4>1. Entry(u, g, x) = e
        BY ONLY <1>9
      <4>2. Mapped(im, u, v, arr[L] + n)
        BY ONLY <1>1, <1>2, <1>6, <1>13, <1>16, <4>1, IsMid(im, t, Mid(v)) DEF Mapped
      <4> QED BY ONLY <3>1, <4>2, v = Segment[L] + n
    <3>2. CASE ~(s = L /\ k = n)
      <4>1. k \in 0..((IF s = Len(arr) THEN n ELSE Pages(sz, s)) - 1)
        BY ONLY <3>2, L = Len(arr), k \in 0..((IF s = Len(arr) THEN n + 1 ELSE Pages(sz, s)) - 1),
                n \in 0..(Pages(sz, L) - 1), <1>3
      <4>2. s \in 1..4 /\ k \in 0..(Pages(sz, s) - 1)
        BY ONLY <1>3, <3>0, <4>1, L = Len(arr), L \in 1..4, s \in DOMAIN arr, n \in 0..(Pages(sz, L) - 1)
      <4>3. PICK y : y = Segment[s] + k
        OBVIOUS
      <4>4. y \in Upper
        BY ONLY <4>2, <4>3, SegmentsLie, IsSize(sz)
      <4>5. y /= v
        <5>1. Segment[s] + k = Segment[L] + n => s = L /\ k = n
          <6>1. IsPageOf(sz, s, k) /\ IsPageOf(sz, L, n)
            BY ONLY <4>2, L \in 1..4, n \in 0..(Pages(sz, L) - 1) DEF IsPageOf
          <6> QED BY ONLY <6>1, SegmentsDiffer, IsSize(sz)
        <5> QED BY ONLY <3>2, <4>3, <5>1, v = Segment[L] + n
      <4>6. Mapped(im, t, y, arr[s] + k)
        <5>1. AllMapped(im, t, sz, arr, n)
          BY DEF Built
        <5> QED BY ONLY <4>1, <4>3, <5>1, s \in DOMAIN arr DEF AllMapped
      <4>7. PICK h : h = Entry(t, d, Mid(y)).to
        OBVIOUS
      <4>8. IsMid(im, t, Mid(y)) /\ Entry(t, h, y % PTES) = Leaf(arr[s] + k) /\ Mid(y) \in 1..(PMDS - 1)
        BY ONLY <1>2, <4>4, <4>6, <4>7, UpperIndices DEF Mapped
      <4>9. ~(h = g /\ y % PTES = x)
        <5>1. h = g => Mid(y) = Mid(v)
          BY ONLY <1>4, <1>5, <1>6, <4>7, <4>8, IsMid(im, t, Mid(v))
        <5> QED BY ONLY <1>1, <1>3, <4>4, <4>5, <5>1, UpperPlaces
      <4>10. Entry(u, h, y % PTES) = Leaf(arr[s] + k)
        BY ONLY <1>9, <4>8, <4>9
      <4>11. Mapped(im, u, y, arr[s] + k)
        BY ONLY <1>2, <1>13, <1>16, <4>7, <4>8, <4>10 DEF Mapped
      <4> QED BY ONLY <4>3, <4>11
    <3> QED BY ONLY <3>1, <3>2
  <2> QED BY ONLY <2>1 DEF AllMapped
<1> QED BY <1>14, <1>15, <1>17, <1>18, <1>19 DEF Built

\* boot_pgdir_walk finds the directory of the segments, and finds or makes their page table.
LEMMA Walked ==
    ASSUME image \in Nat, freemem \in Nat, array \in Seq(Nat), NEW n,
           Built(image, pt, freemem, size, array, n), IsSize(size),
           NEW va \in Upper, va <= TIMESTACK - 1, NEW w, w = BootPgdirWalk(va)
    PROVE  /\ Built(image, w.pt, w.freemem, size, array, n) /\ w.freemem \in Nat
           /\ IsMid(image, w.pt, Mid(va)) /\ w.at = Entry(w.pt, Dev(image), Mid(va)).to
<1>1. PICK d, m, e : d = Dev(image) /\ m = Mid(va) /\ e = Entry(pt, d, m)
  OBVIOUS
<1>2. va \div NPAGE = 1 /\ m \in 1..(PMDS - 1)
  BY <1>1, UpperIndices
<1>3. m <= LastMid
  <2>1. TIMESTACK - 1 \in Upper
    BY ONLY IsSize(size), SegmentsLie
  <2> QED BY ONLY <1>1, <2>1, MidsGrow, va \in Upper, va <= TIMESTACK - 1 DEF LastMid
<1>4. Grow([pt |-> pt, freemem |-> freemem, at |-> image], image, 1)
        = [pt |-> pt, freemem |-> freemem, at |-> d]
  <2>1. Entry(pt, image, 1).kind = "table" /\ Entry(pt, image, 1).to = d
    BY <1>1, Kinds DEF Built, Identity
  <2> QED BY <2>1 DEF Grow
<1>5. w = Grow([pt |-> pt, freemem |-> freemem, at |-> d], d, m)
  BY <1>1, <1>2, <1>4 DEF BootPgdirWalk, Mid
<1>6. CASE IsMid(image, pt, m)
  <2>1. e.kind = "table"
    BY ONLY <1>1, <1>6 DEF IsMid
  <2>2. w.pt = pt /\ w.freemem = freemem /\ w.at = e.to
    BY <1>1, <1>5, <2>1 DEF Grow
  <2> QED BY <1>1, <1>6, <2>2
<1>7. CASE ~IsMid(image, pt, m)
  <2>1. e.kind = "invalid"
    BY ONLY <1>1, <1>2, <1>7, Built(image, pt, freemem, size, array, n) DEF Built, Middles
  <2>2. PICK a, b, f : a = Alloc(freemem, BY2PG) /\ b = a.base /\ f = a.freemem
    OBVIOUS
  <2>3. b = Fresh(freemem) /\ f \in Nat /\ Fresh(f) = b + 1
    <3>1. BY2PG \in Nat /\ Page(Round(BY2PG)) = 1
      BY DEF Page, Round
    <3>2. Takes(freemem, BY2PG, b, f)
      BY ONLY <2>2, <3>1, AllocTakes, freemem \in Nat
    <3> QED BY ONLY <3>1, <3>2 DEF Takes
  <2>4. w.pt = WriteOne(pt, d, m, Table(b)) /\ w.freemem = f /\ w.at = b
    BY <1>1, <1>5, <2>1, <2>2 DEF Grow
  <2>5. PICK u : u = WriteOne(pt, d, m, Table(b))
    OBVIOUS
  <2>6. Built(image, u, f, size, array, n) /\ IsMid(image, u, m) /\ Entry(u, d, m).to = b
    BY ONLY <1>1, <1>2, <1>3, <1>7, <2>3, <2>5, TableGrown, image \in Nat, freemem \in Nat,
            array \in Seq(Nat), Built(image, pt, freemem, size, array, n)
  <2> QED BY ONLY <1>1, <2>3, <2>4, <2>5, <2>6
<1> QED BY <1>6, <1>7

-----------------------------------------------------------------------------
(* The invariant, phase by phase. *)

Setup == pt = <<>> /\ array = <<>> /\ freemem = image * BY2PG /\ i = 0
Ram == i \in 0..RamBlocks /\ RamTables(image, pt, freemem, i) /\ array = <<>>
Mapping(L, n) ==
    array \in Seq(Nat) /\ Len(array) = L /\ Built(image, pt, freemem, size, array, n)
Done ==
    /\ Mapping(4, Pages(size, 4)) /\ Fresh(freemem) = Page(freemem)
    /\ pages = [free |-> [k \in 1..(NPAGE - Page(freemem)) |-> NPAGE - k],
                ref |-> [f \in 0..(NPAGE - 1) |-> IF f < Page(freemem) THEN 1 ELSE 0]]

BootInv ==
    /\ image \in Nat /\ freemem \in Nat /\ IsSize(size)
    /\ bootPc = "setup" => Setup
    /\ bootPc = "ram" => Ram
    /\ bootPc = "alloc" => \E L \in 0..3 : Mapping(L, Pages(size, L))
    /\ bootPc = "map" => \E L \in 1..4 : i \in 0..Pages(size, L) /\ Mapping(L, i)
    /\ bootPc = "page_init" => Mapping(4, Pages(size, 4))
    /\ bootPc = "done" => Done

LEMMA SetupDirectoryKeeps ==
    ASSUME BootInv, SetupDirectory
    PROVE  BootInv'
<1>1. /\ bootPc = "setup" /\ bootPc' = "ram" /\ pt' = WriteOne(pt, image, 0, Table(image + 1))
      /\ freemem' = freemem + 2 * BY2PG /\ image' = image /\ size' = size /\ array' = array /\ i' = i
  BY DEF SetupDirectory
<1>2. image \in Nat /\ IsSize(size) /\ pt = <<>> /\ array = <<>> /\ freemem = image * BY2PG /\ i = 0
  BY <1>1 DEF BootInv, Setup
<1>3. RamTables(image, pt', freemem', 0)
  BY ONLY <1>1, <1>2, SetupBegins
<1>4. freemem' \in Nat /\ 0 \in 0..RamBlocks
  BY <1>1, <1>2, BlocksFit, Sizes
<1> QED BY ONLY <1>1, <1>2, <1>3, <1>4 DEF BootInv, Ram, IsSize

LEMMA SetupBlockKeeps ==
    ASSUME BootInv, SetupBlock
    PROVE  BootInv'
<1>1. PICK fm, k, t : fm = freemem /\ k = i /\ t = pt
  OBVIOUS
<1>2. /\ image \in Nat /\ IsSize(size) /\ array = <<>> /\ k \in 0..RamBlocks /\ RamTables(image, t, fm, k)
      /\ bootPc = "ram" /\ bootPc' = "ram" /\ k < RamBlocks /\ i' = k + 1
      /\ freemem' = fm + BY2PG /\ image' = image /\ size' = size /\ array' = array
  BY <1>1 DEF SetupBlock, BootInv, Ram, RamBlocks
<1>3. k \in Nat /\ k + 1 \in 0..RamBlocks
  BY <1>2, BlocksFit, Sizes
<1>4. Page(fm) = image + 2 + k /\ fm \in Nat
  <2>1. fm = (image + 2 + k) * BY2PG
    BY ONLY <1>2 DEF RamTables
  <2> QED BY ONLY <1>2, <1>3, <2>1 DEF Page
<1>5. pt' = WriteOne(Write(t, [l \in {image + 2 + k} \X (0..(PTES - 1)) |-> Leaf(k * PTES + l[2])]),
                     image + 1, k, Table(image + 2 + k))
  BY <1>1, <1>4 DEF SetupBlock
<1>6. RamTables(image, pt', fm + BY2PG, k + 1)
  BY ONLY <1>2, <1>3, <1>5, SetupGoesOn
<1>7. fm + BY2PG \in Nat
  BY <1>4
<1> QED BY ONLY <1>2, <1>3, <1>6, <1>7 DEF BootInv, Ram, IsSize

LEMMA SetupDevicesKeeps ==
    ASSUME BootInv, SetupDevices
    PROVE  BootInv'
<1>1. PICK fm, t, u, d : fm = freemem /\ t = pt /\ u = pt' /\ d = Dev(image)
  OBVIOUS
<1>2. /\ image \in Nat /\ IsSize(size) /\ array = <<>> /\ RamTables(image, t, fm, RamBlocks)
      /\ bootPc = "ram" /\ bootPc' = "alloc"
      /\ freemem' = fm + BY2PG /\ image' = image /\ size' = size /\ array' = array
  BY <1>1 DEF SetupDevices, BootInv, Ram, RamBlocks
<1>3. d = image + 2 + RamBlocks /\ d \in Nat /\ RamBlocks \in Nat
  BY <1>1, <1>2, BlocksFit, Sizes DEF Dev
<1>4. Page(fm) = d
  <2>1. fm = (image + 2 + RamBlocks) * BY2PG
    BY ONLY <1>2 DEF RamTables
  <2> QED BY ONLY <1>3, <2>1 DEF Page
<1>5. u = Write(WriteOne(WriteOne(t, d, 0, Block(NPAGE)), image, 1, Table(d)),
                [l \in {image + 1} \X (RamBlocks..(PMDS - 1)) |-> Block(l[2] * PTES)])
  BY <1>1, <1>4 DEF SetupDevices, RamBlocks
<1>6. /\ Identity(image, u) /\ TopTables(image, u) /\ Middles(image, u, fm + BY2PG)
      /\ TablesOf(image, u) = image..d /\ fm + BY2PG = (d + 1) * BY2PG
  <2>1. u = Write(WriteOne(WriteOne(t, Dev(image), 0, Block(NPAGE)), image, 1, Table(Dev(image))),
                  [l \in {image + 1} \X (RamBlocks..(PMDS - 1)) |-> Block(l[2] * PTES)])
    BY <1>1, <1>5
  <2>2. /\ Identity(image, u) /\ TopTables(image, u) /\ Middles(image, u, fm + BY2PG)
        /\ TablesOf(image, u) = image..Dev(image) /\ fm + BY2PG = (Dev(image) + 1) * BY2PG
    BY ONLY <1>2, <2>1, SetupEnds
  <2> QED BY <1>1, <2>2
<1>7. Fresh(fm + BY2PG) = d + 1 /\ fm + BY2PG \in Nat
  <2>1. Fresh((d + 1) * BY2PG) = d + 1
    BY <1>3, PageIsFresh
  <2>2. (d + 1) * BY2PG \in Nat
    BY <1>3
  <2> QED BY ONLY <1>6, <2>1, <2>2
<1>8. Owned(image, u, fm + BY2PG, size, <<>>)
  <2>1. d + 1 - 1 = d
    BY <1>3
  <2>2. PICK none : none = <<>> /\ DOMAIN none = {}
    OBVIOUS
  <2>3. PICK fm2 : fm2 = fm + BY2PG
    OBVIOUS
  <2>4. Owned(image, u, fm2, size, none)
    <3>1. Fresh(fm2) = d + 1
      BY <1>7, <2>3
    <3>2. TablesOf(image, u) = image..d
      BY ONLY <1>6
    <3>3. Fresh(fm2) - 1 = d
      BY ONLY <1>3, <3>1
    <3>4. TablesOf(image, u) = image..(Fresh(fm2) - 1)
      BY ONLY <3>2, <3>3
    <3> QED BY ONLY <2>2, <3>4 DEF Owned
  <2> QED BY ONLY <2>2, <2>3, <2>4
<1>9. AllMapped(image, u, size, <<>>, Pages(size, 0))
  BY DEF AllMapped
<1>10. Built(image, u, fm + BY2PG, size, <<>>, Pages(size, 0))
  BY ONLY <1>6, <1>8, <1>9 DEF Built
<1>11. Mapping(0, Pages(size, 0))'
  <2>1. pt' = u
    BY <1>1
  <2> QED BY ONLY <1>2, <1>10, <2>1 DEF Mapping, Pages
<1>12. 0 \in 0..3
  OBVIOUS
<1> QED BY ONLY <1>2, <1>7, <1>11, <1>12 DEF BootInv, IsSize

LEMMA AllocArrayKeeps ==
    ASSUME BootInv, AllocArray
    PROVE  BootInv'
<1>1. PICK L \in 0..3 : Mapping(L, Pages(size, L))
  BY DEF AllocArray, BootInv
<1>2. PICK n, a, arr2 : n = size[L + 1] /\ a = Alloc(freemem, n) /\ arr2 = Append(array, a.base)
  OBVIOUS
<1>3. /\ image \in Nat /\ freemem \in Nat /\ IsSize(size) /\ array \in Seq(Nat) /\ L = Len(array)
      /\ Built(image, pt, freemem, size, array, Pages(size, L))
  BY <1>1 DEF BootInv, Mapping
<1>4. /\ freemem' = a.freemem /\ array' = arr2 /\ i' = 0 /\ image' = image /\ size' = size /\ pt' = pt
      /\ bootPc' \in {"panic", "map"}
  BY <1>2, <1>3 DEF AllocArray
<1>5. /\ Built(image, pt, a.freemem, size, arr2, 0) /\ a.freemem \in Nat
      /\ arr2 \in Seq(Nat) /\ Len(arr2) = L + 1
  <2>1. n \in Nat
    <3>1. size \in [1..4 -> Nat]
      BY ONLY <1>3, SegmentsLie
    <3>2. L + 1 \in 1..4
      BY ONLY L \in 0..3
    <3> QED BY ONLY <1>2, <3>1, <3>2
  <2>2. PICK b, f : b = a.base /\ f = a.freemem
    OBVIOUS
  <2>3. b = Fresh(freemem) /\ b \in Nat /\ f \in Nat /\ Fresh(f) = b + Page(Round(n))
    <3>1. a = Alloc(freemem, n) /\ freemem \in Nat
      BY <1>2, <1>3
    <3>2. Takes(freemem, n, b, f)
      BY ONLY <2>1, <2>2, <3>1, AllocTakes
    <3> QED BY ONLY <3>2 DEF Takes
  <2>4. Page(Round(n)) = Pages(size, L + 1)
    BY <1>2 DEF Pages
  <2>5. /\ arr2 \in Seq(Nat) /\ Len(arr2) = L + 1 /\ arr2[L + 1] = b
        /\ \A s \in 1..L : arr2[s] = array[s]
    BY ONLY <1>2, <1>3, <2>2, <2>3
  <2>6. Fresh(f) = b + Pages(size, L + 1)
    BY ONLY <2>3, <2>4
  <2>7. Built(image, pt, f, size, arr2, 0)
    <3>1. OneMore(freemem, f, size, array, arr2, L, b)
      BY ONLY <1>3, <2>3, <2>5, <2>6, L \in 0..3 DEF OneMore
    <3> QED BY ONLY <1>3, <3>1, ArrayAllocated
  <2> QED BY <2>2, <2>3, <2>5, <2>7
<1>6. L + 1 \in 1..4 /\ Mapping(L + 1, 0)'
  <2>1. L + 1 \in 1..4
    BY ONLY L \in 0..3
  <2>2. Built(image', pt', freemem', size', array', 0)
    BY ONLY <1>4, <1>5
  <2> QED BY ONLY <1>4, <1>5, <2>1, <2>2 DEF Mapping
<1>7. 0 \in 0..Pages(size', L + 1)
  <2>1. Pages(size, L + 1) \in Nat
    BY ONLY <1>3, <1>6, SegmentsLie
  <2> QED BY ONLY <1>4, <2>1
<1>8. \E M \in 1..4 : (i \in 0..Pages(size, M) /\ Mapping(M, i))'
  BY ONLY <1>4, <1>6, <1>7 DEF Mapping, Pages
<1> QED BY ONLY <1>3, <1>4, <1>5, <1>8 DEF BootInv, IsSize

LEMMA MapPageKeeps ==
    ASSUME BootInv, MapPage
    PROVE  BootInv'
<1>1. PICK L \in 1..4 : i \in 0..Pages(size, L) /\ Mapping(L, i)
  BY DEF MapPage, BootInv
<1>2. PICK va, w, n : va = Segment[Len(array)] + i /\ w = BootPgdirWalk(va) /\ n = i
  OBVIOUS
<1>3. /\ image \in Nat /\ freemem \in Nat /\ IsSize(size) /\ array \in Seq(Nat) /\ L = Len(array)
      /\ Built(image, pt, freemem, size, array, n)
  BY <1>1, <1>2 DEF BootInv, Mapping
<1>4. /\ pt' = WriteOne(w.pt, w.at, va % PTES, Leaf(array[Len(array)] + n)) /\ i' = n + 1
      /\ freemem' = w.freemem /\ array' = array /\ image' = image /\ size' = size
      /\ bootPc' \in {"panic", "map"} /\ n < Page(Round(size[Len(array)]))
  BY <1>2 DEF MapPage
<1>5. Pages(size, L) \in Nat
  BY ONLY <1>3, SegmentsLie, L \in 1..4
<1>6. n \in 0..(Pages(size, L) - 1) /\ n + 1 \in 0..Pages(size, L)
  <2>1. n < Pages(size, L) /\ n \in 0..Pages(size, L)
    BY <1>1, <1>2, <1>3, <1>4 DEF Pages
  <2> QED BY ONLY <1>5, <2>1
<1>7. va = Segment[L] + n
  BY <1>2, <1>3
<1>8. va \in Upper /\ va <= TIMESTACK - 1
  BY ONLY <1>3, <1>6, <1>7, SegmentsLie, L \in 1..4
<1>9. /\ Built(image, w.pt, w.freemem, size, array, n) /\ w.freemem \in Nat
      /\ IsMid(image, w.pt, Mid(va)) /\ w.at = Entry(w.pt, Dev(image), Mid(va)).to
  BY ONLY <1>2, <1>3, <1>8, Walked
<1>10. Built(image, pt', w.freemem, size, array, n + 1)
  <2>1. pt' = WriteOne(w.pt, w.at, va % PTES, Leaf(array[L] + n))
    BY ONLY <1>3, <1>4
  <2> QED BY ONLY <1>3, <1>6, <1>7, <1>9, <2>1, LeafWritten, L \in 1..4
<1>11. Mapping(L, n + 1)'
  BY ONLY <1>3, <1>4, <1>10 DEF Mapping
<1>12. \E M \in 1..4 : (i \in 0..Pages(size, M) /\ Mapping(M, i))'
  BY ONLY <1>4, <1>6, <1>11, L \in 1..4 DEF Mapping, Pages
<1> QED BY ONLY <1>3, <1>4, <1>9, <1>12 DEF BootInv, IsSize

LEMMA NextSegmentKeeps ==
    ASSUME BootInv, NextSegment
    PROVE  BootInv'
<1>1. PICK L \in 1..4 : i \in 0..Pages(size, L) /\ Mapping(L, i)
  BY DEF NextSegment, BootInv
<1>2. /\ image \in Nat /\ freemem \in Nat /\ IsSize(size) /\ Len(array) = L
      /\ freemem' = freemem /\ array' = array /\ image' = image /\ size' = size /\ pt' = pt /\ i' = i
  BY <1>1 DEF NextSegment, BootInv, Mapping
<1>3. i = Pages(size, L)
  BY <1>2 DEF NextSegment, Pages
<1>4. Mapping(L, Pages(size, L))'
  BY ONLY <1>1, <1>2, <1>3 DEF Mapping, Pages
<1>5. bootPc' = IF L = 4 THEN "page_init" ELSE "alloc"
  BY <1>2 DEF NextSegment, Segment
<1>6. L = 4 \/ L \in 0..3
  OBVIOUS
<1> QED BY ONLY <1>2, <1>4, <1>5, <1>6 DEF BootInv, IsSize

LEMMA PageInitLoopKeeps ==
    ASSUME BootInv, PageInitLoop
    PROVE  BootInv'
<1>1. PICK fm2 : fm2 = Round(freemem)
  OBVIOUS
<1>2. /\ image \in Nat /\ freemem \in Nat /\ IsSize(size) /\ Mapping(4, Pages(size, 4))
      /\ freemem' = fm2 /\ array' = array /\ image' = image /\ size' = size /\ pt' = pt
      /\ bootPc' = "done"
      /\ pages' = [free |-> [k \in 1..(NPAGE - Page(fm2)) |-> NPAGE - k],
                   ref |-> [f \in 0..(NPAGE - 1) |-> IF f < Page(fm2) THEN 1 ELSE 0]]
  BY <1>1 DEF PageInitLoop, BootInv
<1>3. fm2 \in Nat /\ Fresh(fm2) = Fresh(freemem) /\ Page(fm2) = Fresh(freemem)
  <2>1. fm2 \in Nat
    BY <1>1, <1>2 DEF Round
  <2>2. Fresh(Round(freemem)) = Fresh(freemem)
    BY ONLY <1>2, PageIsFresh
  <2> QED BY <1>1, <2>1, <2>2 DEF Fresh
<1>4. Built(image, pt, fm2, size, array, Pages(size, 4))
  <2>1. Built(image, pt, freemem, size, array, Pages(size, 4))
    BY ONLY <1>2 DEF Mapping
  <2> QED BY ONLY <1>3, <2>1 DEF Built, Middles, Owned
<1>5. Done'
  BY ONLY <1>2, <1>3, <1>4 DEF Done, Mapping, Pages
<1> QED BY ONLY <1>2, <1>3, <1>5 DEF BootInv, IsSize

\* What stands behind both properties of Boot.
LEMMA BootKeepsInv == BootSpec => []BootInv
<1>1. BootInit => BootInv
  BY SizesAssumption DEF BootInit, BootInv, Setup, IsSize
<1>2. BootInv /\ [BootNext]_bootVars => BootInv'
  <2> SUFFICES ASSUME BootInv, [BootNext]_bootVars PROVE BootInv'
    OBVIOUS
  <2>1. CASE SetupDirectory
    BY <2>1, SetupDirectoryKeeps
  <2>2. CASE SetupBlock
    BY <2>2, SetupBlockKeeps
  <2>3. CASE SetupDevices
    BY <2>3, SetupDevicesKeeps
  <2>4. CASE AllocArray
    BY <2>4, AllocArrayKeeps
  <2>5. CASE MapPage
    BY <2>5, MapPageKeeps
  <2>6. CASE NextSegment
    BY <2>6, NextSegmentKeeps
  <2>7. CASE PageInitLoop
    BY <2>7, PageInitLoopKeeps
  <2>8. CASE UNCHANGED bootVars
    BY <2>8 DEF bootVars, BootInv, Setup, Ram, Mapping, Done, Pages
  <2> QED BY <2>1, <2>2, <2>3, <2>4, <2>5, <2>6, <2>7, <2>8 DEF BootNext
<1> QED BY <1>1, <1>2, PTL DEF BootSpec

\* Each frame from the end of the kernel image to freemem has one owner, a table or an array,
\* and the pages of the segments lead to their arrays: for every size of the image, of the
\* arrays and of the tables, also where an array ends inside a page and where a page table is
\* allocated between two arrays.
THEOREM SegmentsStayApart == BootSpec => []SegmentsApart
<1>1. ASSUME BootInv PROVE SegmentsApart
  <2> SUFFICES ASSUME bootPc = "done"
               PROVE  /\ \A f \in image..(Page(freemem) - 1) : Cardinality(Owners(f)) = 1
                      /\ \A s \in DOMAIN Segment : \A k \in 0..(Page(Round(size[s])) - 1) :
                          PteEntry(Segment[s] + k) = Leaf(array[s] + k)
    BY DEF SegmentsApart
  <2>1. /\ array \in Seq(Nat) /\ Len(array) = 4 /\ IsSize(size) /\ Fresh(freemem) = Page(freemem)
        /\ Built(image, pt, freemem, size, array, Pages(size, 4))
    BY <1>1 DEF BootInv, Done, Mapping
  <2>2. DOMAIN array = 1..4
    BY ONLY <2>1
  <2>3. ASSUME NEW f \in image..(Page(freemem) - 1) PROVE Cardinality(Owners(f)) = 1
    <3>1. /\ f \in TablesOf(image, pt) <=> \A s \in 1..4 : f \notin Frames(size, array, s)
          /\ \A s, r \in 1..4 : f \in Frames(size, array, s) /\ f \in Frames(size, array, r) => s = r
      BY ONLY <2>1, <2>2, f \in image..(Page(freemem) - 1) DEF Built, Owned
    <3>2. Tables = TablesOf(image, pt) /\ \A s : ArrayFrames(s) = Frames(size, array, s)
      BY DEF Tables, TablesOf, ArrayFrames, Frames, Pages
    <3>3. Owners(f) = {<<"table", t>> : t \in TablesOf(image, pt) \intersect {f}}
            \union {<<"array", s>> : s \in {k \in 1..4 : f \in Frames(size, array, k)}}
      BY ONLY <2>2, <3>2 DEF Owners
    <3>4. CASE f \in TablesOf(image, pt)
      <4>1. Owners(f) = {<<"table", f>>}
        BY ONLY <3>1, <3>3, <3>4
      <4> QED BY <4>1, FS_Singleton
    <3>5. CASE f \notin TablesOf(image, pt)
      <4>1. PICK s \in 1..4 : f \in Frames(size, array, s)
        BY ONLY <3>1, <3>5
      <4>2. Owners(f) = {<<"array", s>>}
        BY ONLY <3>1, <3>3, <3>5, <4>1
      <4> QED BY <4>2, FS_Singleton
    <3> QED BY <3>4, <3>5
  <2>4. ASSUME NEW s \in DOMAIN Segment, NEW k \in 0..(Page(Round(size[s])) - 1)
        PROVE  PteEntry(Segment[s] + k) = Leaf(array[s] + k)
    <3>1. s \in 1..4 /\ k \in 0..(Pages(size, s) - 1)
      BY <2>4 DEF Segment, Pages
    <3>2. PICK v, f : v = Segment[s] + k /\ f = array[s] + k
      OBVIOUS
    <3>3. v \in Upper
      BY ONLY <2>1, <3>1, <3>2, SegmentsLie
    <3>4. Mapped(image, pt, v, f)
      <4>1. (IF s = 4 THEN Pages(size, 4) ELSE Pages(size, s)) = Pages(size, s)
        OBVIOUS
      <4> QED BY ONLY <2>1, <2>2, <3>1, <3>2, <4>1 DEF Built, AllMapped
    <3>5. PudEntry(v) = Table(Dev(image))
      BY ONLY <2>1, <3>3, UpperIndices DEF Built, Identity, PudEntry
    <3>6. PmdEntry(v) = Entry(pt, Dev(image), Mid(v))
      BY ONLY <3>5, Kinds DEF PmdEntry, Mid
    <3>7. PteEntry(v) = Leaf(f)
      BY ONLY <3>4, <3>6 DEF PteEntry, Mapped, IsMid
    <3> QED BY <3>2, <3>7
  <2> QED BY <2>3, <2>4
<1> QED BY <1>1, BootKeepsInv, PTL

-----------------------------------------------------------------------------
(* The initial memory of PMap.                                             *)

\* PMap names slots of envs by numbers here; the segments are not among its user pages.
PagesOutsideSegments ==
    /\ Kernel /= 0 /\ UserVPN \subseteq Nat
    /\ \A v \in UserVPN : v < NPAGE \/ v \div PTES > (TIMESTACK - 1) \div PTES

\* The first page of a page table lies under the same entries.
LEMMA FirstOfTable ==
    ASSUME NEW v \in Nat, NEW w, w = (v \div PTES) * PTES
    PROVE  w \in Nat /\ w \div PTES = v \div PTES /\ w \div NPAGE = v \div NPAGE
<1>1. PICK d \in Nat, q \in Nat, m \in 0..(PMDS - 1), x \in 0..(PTES - 1) :
        /\ d = v \div NPAGE /\ q = v \div PTES
        /\ v = q * PTES + x /\ v = d * NPAGE + m * PTES + x
  BY Indices
<1>2. PICK y, z : y = m * PTES /\ z = d * NPAGE
  OBVIOUS
<1>3. y \in 0..(NPAGE - 1) /\ z \in Nat
  <2>1. PICK h : h = PMDS - 1 - m
    OBVIOUS
  <2>2. h \in Nat /\ PMDS = h + m + 1
    BY <2>1, Sizes
  <2>3. PMDS * PTES = h * PTES + m * PTES + PTES
    BY <2>2, Sizes
  <2>4. m * PTES \in Nat /\ h * PTES \in Nat /\ d * NPAGE \in Nat
    BY <2>2, Sizes
  <2> QED BY <1>2, <2>3, <2>4, Sizes
<1>4. w = q * PTES /\ w \in Nat
  BY <1>1, Sizes
<1>5. w = z + y
  <2>1. v = w + x
    BY ONLY <1>1, <1>4
  <2>2. v = z + y + x
    BY ONLY <1>1, <1>2
  <2> QED BY ONLY <1>3, <1>4, <2>1, <2>2, x \in 0..(PTES - 1), Sizes
<1>6. w \div NPAGE = d
  BY ONLY <1>2, <1>3, <1>4, <1>5, d \in Nat, Sizes, Division
<1>7. w \div PTES = q
  <2>1. w = q * PTES + 0 /\ 0 \in 0..(PTES - 1)
    BY <1>4, Sizes
  <2> QED BY ONLY <1>4, <2>1, q \in Nat, Sizes, Division
<1> QED BY <1>1, <1>4, <1>6, <1>7

\* The entries of a page that is mapped one to one.
LEMMA LowEntries ==
    ASSUME Done, NEW v \in 0..(NPAGE - 1)
    PROVE  /\ v \div NPAGE = 0 /\ PmdEntry(v).kind /= "invalid"
           /\ v < FirstDevice => PteEntry(v) = Leaf(v)
           /\ v >= FirstDevice => PteEntry(v).kind /= "page"
<1>1. Identity(image, pt)
  BY DEF Done, Mapping, Built
<1>2. v \in Nat /\ v \div NPAGE = 0
  <2>1. v \in Nat /\ v = 0 * NPAGE + v
    BY Sizes
  <2> QED BY ONLY <2>1, v \in 0..(NPAGE - 1), Sizes, Division
<1>3. PICK m \in 0..(PMDS - 1), x \in 0..(PTES - 1) : m = Mid(v) /\ x = v % PTES /\ v = m * PTES + x
  <2>1. v = 0 * NPAGE + Mid(v) * PTES + (v % PTES) /\ Mid(v) \in 0..(PMDS - 1) /\ v % PTES \in 0..(PTES - 1)
    BY ONLY <1>2, Indices DEF Mid
  <2>2. Mid(v) * PTES \in Nat
    BY <2>1, Sizes
  <2>3. PICK m, x : m = Mid(v) /\ x = v % PTES
    OBVIOUS
  <2> QED BY <2>1, <2>2, <2>3, Sizes
<1>4. PudEntry(v) = Table(image + 1)
  BY ONLY <1>1, <1>2 DEF Identity, PudEntry
<1>5. PmdEntry(v) = Entry(pt, image + 1, m)
  BY ONLY <1>3, <1>4, Kinds DEF PmdEntry, Mid
<1>6. RamBlocks \in Nat /\ FirstDevice = RamBlocks * PTES
  BY BlocksFit, Sizes
<1>7. CASE m < RamBlocks
  <2>1. m \in 0..(RamBlocks - 1)
    BY ONLY <1>6, <1>7, m \in 0..(PMDS - 1)
  <2>2. PmdEntry(v) = Table(image + 2 + m) /\ Entry(pt, image + 2 + m, x) = Leaf(v)
    BY ONLY <1>1, <1>3, <1>5, <2>1 DEF Identity
  <2>3. PteEntry(v) = Leaf(v)
    BY ONLY <1>3, <2>2, Kinds DEF PteEntry
  <2>4. v < FirstDevice
    <3>1. PICK e \in Nat : RamBlocks = m + 1 + e
      <4>1. RamBlocks - (m + 1) \in Nat /\ RamBlocks = m + 1 + (RamBlocks - (m + 1))
        BY ONLY <1>6, <1>7, m \in 0..(PMDS - 1), Sizes
      <4> QED BY <4>1
    <3>2. RamBlocks * PTES = m * PTES + PTES + e * PTES
      BY ONLY <3>1, m \in 0..(PMDS - 1), e \in Nat, Sizes
    <3>3. m * PTES \in Nat /\ e * PTES \in Nat
      BY Sizes
    <3> QED BY ONLY <1>3, <1>6, <3>2, <3>3, x \in 0..(PTES - 1), Sizes
  <2> QED BY ONLY <1>2, <1>6, <2>2, <2>3, <2>4, Kinds, BlocksFit
<1>8. CASE ~(m < RamBlocks)
  <2>1. m \in RamBlocks..(PMDS - 1)
    BY ONLY <1>6, <1>8, m \in 0..(PMDS - 1), Sizes
  <2>2. PmdEntry(v) = Block(m * PTES)
    BY ONLY <1>1, <1>5, <2>1 DEF Identity
  <2>3. PmdEntry(v).kind = "block" /\ PteEntry(v).kind = "block"
    BY ONLY <2>2, Kinds DEF PteEntry
  <2>4. ~(v < FirstDevice)
    <3>1. PICK e \in Nat : m = RamBlocks + e
      <4>1. m - RamBlocks \in Nat /\ m = RamBlocks + (m - RamBlocks)
        BY ONLY <1>6, <1>8, m \in 0..(PMDS - 1), Sizes
      <4> QED BY <4>1
    <3>2. m * PTES = RamBlocks * PTES + e * PTES
      BY ONLY <1>6, <3>1, e \in Nat, Sizes
    <3>3. RamBlocks * PTES \in Nat /\ e * PTES \in Nat
      BY <1>6, Sizes
    <3> QED BY ONLY <1>3, <1>6, <3>2, <3>3, x \in 0..(PTES - 1), Sizes
  <2> QED BY ONLY <1>2, <2>3, <2>4
<1> QED BY <1>7, <1>8

\* A page behind the segments, under the same directory entry, has no page table.
LEMMA HighEntries ==
    ASSUME Done, IsSize(size), NEW v \in Nat, v \div NPAGE = 1,
           v \div PTES > (TIMESTACK - 1) \div PTES
    PROVE  PmdEntry(v).kind = "invalid" /\ PteEntry(v).kind = "invalid" /\ v \div PTES >= PMDS
<1>1. TIMESTACK - 1 \in Upper
  BY ONLY IsSize(size), SegmentsLie
<1>2. (TIMESTACK - 1) \div PTES = PMDS + LastMid /\ LastMid \in 1..(PMDS - 1)
  BY ONLY <1>1, UpperIndices DEF LastMid
<1>3. PICK m \in 0..(PMDS - 1), x \in 0..(PTES - 1), q \in Nat :
        /\ m = Mid(v) /\ x = v % PTES /\ q = v \div PTES
        /\ v = q * PTES + x /\ v = 1 * NPAGE + m * PTES + x
  BY Indices DEF Mid
<1>4. q = PMDS + m
  <2>1. PICK r \in Nat : r = PMDS + m
    BY Sizes
  <2>2. r * PTES = PMDS * PTES + m * PTES /\ m * PTES \in Nat
    BY <2>1, Sizes
  <2>3. v = r * PTES + x
    BY ONLY <1>3, <2>2, x \in 0..(PTES - 1), Sizes
  <2>4. v \div PTES = r
    BY ONLY <2>1, <2>3, v \in Nat, x \in 0..(PTES - 1), Sizes, Division
  <2> QED BY ONLY <1>3, <2>1, <2>4
<1>5. m > LastMid /\ m \in 1..(PMDS - 1) /\ q >= PMDS
  <2>1. q > PMDS + LastMid
    BY <1>2, <1>3
  <2> QED BY ONLY <1>2, <1>4, <2>1, m \in 0..(PMDS - 1), Sizes
<1>6. Middles(image, pt, freemem) /\ Identity(image, pt)
  BY DEF Done, Mapping, Built
<1>7. Entry(pt, Dev(image), m).kind = "invalid"
  <2>1. ~(m <= LastMid)
    BY ONLY <1>2, <1>5
  <2> QED BY ONLY <1>5, <1>6, <2>1 DEF Middles
<1>8. PudEntry(v) = Table(Dev(image))
  BY <1>6 DEF Identity, PudEntry
<1>9. PmdEntry(v) = Entry(pt, Dev(image), m)
  BY ONLY <1>3, <1>8, Kinds DEF PmdEntry, Mid
<1>10. PteEntry(v) = PmdEntry(v)
  BY <1>7, <1>9 DEF PteEntry
<1> QED BY <1>3, <1>5, <1>7, <1>9, <1>10

\* The entries the model of PMap has: those of an environment of its own, and those below
\* the two directory entries all of them share.
LEMMA Places ==
    ASSUME NEW l \in P!Loc
    PROVE  \/ \E k \in {"dir", "pud", "pmd", "pte"} : \E x : l = <<k, 0, x>>
           \/ \E v \in P!VPN : /\ v \div NPAGE \in {0, 1}
                               /\ \/ l = <<"pud", Kernel, v \div NPAGE>>
                                  \/ l = <<"pmd", Kernel, v \div PTES>>
                                  \/ l = <<"pte", Kernel, v>>
<1>1. \A v : P!PudOf(v) = v \div NPAGE /\ P!PmdOf(v) = v \div PTES
  BY DEF P!PudOf, P!PmdOf, NPAGE
<1>2. \A v : P!Space(0, v) = IF v \div NPAGE \in {0, 1} THEN Kernel ELSE 0
  BY <1>1 DEF P!Space, P!SharedPuds
<1>3. l = <<"dir", 0, 0>> \/ \E v \in P!VPN :
        \/ l = <<"pud", P!Space(0, v), v \div NPAGE>>
        \/ l = <<"pmd", P!Space(0, v), v \div PTES>>
        \/ l = <<"pte", P!Space(0, v), v>>
  BY <1>1 DEF P!Loc, P!DirLocs, P!PudLocs, P!PmdLocs, P!PteLocs, P!DirLoc, P!PudLoc, P!PmdLoc, P!PteLoc
<1> QED BY <1>2, <1>3

\* What PMap starts with at each of them.
LEMMA Boots ==
    ASSUME Kernel /= 0, NEW l \in P!Loc
    PROVE  /\ \A k \in {"dir", "pud", "pmd", "pte"} : \A x : l = <<k, 0, x>> => P!BootWord[l] = Nil
           /\ \A x \in {0, 1} : l = <<"pud", Kernel, x>> => P!BootWord[l] = Boot
           /\ \A x : l = <<"pmd", Kernel, x>> =>
                P!BootWord[l] = IF \E f \in 0..(NPAGE - 1) : x = f \div PTES THEN Boot ELSE Nil
           /\ \A x : l = <<"pte", Kernel, x>> =>
                P!BootWord[l] = IF x \in 0..(NPAGE - 1) /\ x < FirstDevice THEN x ELSE Nil
<1>1. P!BootWord[l] = IF l \in P!IdLocs /\ l[3] < FirstDevice THEN l[3]
                      ELSE IF l \in P!BootTables THEN Boot ELSE Nil
  BY DEF P!BootWord
<1>2. \A k, a, x : <<k, a, x>> \in P!IdLocs <=> k = "pte" /\ a = Kernel /\ x \in 0..(NPAGE - 1)
  BY DEF P!IdLocs, P!IdLoc, P!Frame
<1>3. \A k, a, x : <<k, a, x>> \in P!BootTables <=>
        /\ a = Kernel
        /\ \/ k = "pud" /\ x \in {0, 1}
           \/ k = "pmd" /\ \E f \in 0..(NPAGE - 1) : x = f \div PTES
  BY DEF P!BootTables, P!SharedPuds, P!PmdOf, P!Frame
<1>4. \A k \in {"dir", "pud", "pmd", "pte"} : \A x : l = <<k, 0, x>> => P!BootWord[l] = Nil
  BY <1>1, <1>2, <1>3
<1>5. \A x \in {0, 1} : l = <<"pud", Kernel, x>> => P!BootWord[l] = Boot
  BY <1>1, <1>2, <1>3
<1>6. ASSUME NEW x, l = <<"pmd", Kernel, x>>
      PROVE  P!BootWord[l] = IF \E f \in 0..(NPAGE - 1) : x = f \div PTES THEN Boot ELSE Nil
  BY <1>1, <1>2, <1>3, <1>6
<1>7. ASSUME NEW x, l = <<"pte", Kernel, x>>
      PROVE  P!BootWord[l] = IF x \in 0..(NPAGE - 1) /\ x < FirstDevice THEN x ELSE Nil
  BY <1>1, <1>2, <1>3, <1>7
<1> QED BY <1>4, <1>5, <1>6, <1>7

\* What boot has written there.
LEMMA Words ==
    /\ \A k \in {"dir", "pud", "pmd", "pte"} : \A x : Kernel /= 0 => Word(<<k, 0, x>>) = Nil
    /\ \A x : Word(<<"pud", Kernel, x>>) =
                IF PudEntry(x * NPAGE).kind = "invalid" THEN Nil ELSE Boot
    /\ \A x : Word(<<"pmd", Kernel, x>>) =
                IF PmdEntry(x * PTES).kind = "invalid" THEN Nil ELSE Boot
    /\ \A x : Word(<<"pte", Kernel, x>>) =
                IF PteEntry(x).kind = "page" THEN PteEntry(x).to ELSE Nil
<1>1. ASSUME NEW k \in {"dir", "pud", "pmd", "pte"}, NEW x, Kernel /= 0 PROVE Word(<<k, 0, x>>) = Nil
  BY <1>1 DEF Word
<1>2. ASSUME NEW x
      PROVE  Word(<<"pud", Kernel, x>>) = IF PudEntry(x * NPAGE).kind = "invalid" THEN Nil ELSE Boot
  BY DEF Word
<1>3. ASSUME NEW x
      PROVE  Word(<<"pmd", Kernel, x>>) = IF PmdEntry(x * PTES).kind = "invalid" THEN Nil ELSE Boot
  BY DEF Word
<1>4. ASSUME NEW x
      PROVE  Word(<<"pte", Kernel, x>>) = IF PteEntry(x).kind = "page" THEN PteEntry(x).to ELSE Nil
  BY DEF Word
<1> QED BY <1>1, <1>2, <1>3, <1>4

\* The tables and the free list with which the first environment is created are the initial
\* memory of PMap, for every size of the image and of the arrays: the entries that boot wrote
\* are its BootWord, the frames below freemem are counted once, and the others are free.
THEOREM BootEndsAsPageInit ==
    ASSUME PagesOutsideSegments
    PROVE  BootSpec => []BootEndsInPageInit
<1>1. ASSUME BootInv, bootPc = "done", NEW l \in P!Loc PROVE Word(l) = P!BootWord[l]
  <2>1. /\ Done /\ IsSize(size) /\ Identity(image, pt) /\ Kernel /= 0
        /\ image \in Nat /\ P!VPN = 0..(NPAGE - 1) \union UserVPN
    BY <1>1 DEF BootInv, Done, Mapping, Built, PagesOutsideSegments, P!VPN, P!Frame
  <2>2. CASE \E k \in {"dir", "pud", "pmd", "pte"} : \E x : l = <<k, 0, x>>
    BY ONLY <2>1, <2>2, Words, Boots, l \in P!Loc
  <2>3. ASSUME NEW v \in P!VPN, v \div NPAGE \in {0, 1}
        PROVE  /\ v \in Nat
               /\ \/ v \in 0..(NPAGE - 1)
                  \/ v \div NPAGE = 1 /\ v \div PTES > (TIMESTACK - 1) \div PTES
    <3>1. v \in Nat
      BY ONLY <2>1, v \in P!VPN, PagesOutsideSegments, Sizes DEF PagesOutsideSegments
    <3>2. CASE v < NPAGE
      BY ONLY <3>1, <3>2, Sizes
    <3>3. CASE ~(v < NPAGE)
      <4>1. v \div PTES > (TIMESTACK - 1) \div PTES
        BY ONLY <2>1, <3>1, <3>3, v \in P!VPN, PagesOutsideSegments, Sizes DEF PagesOutsideSegments
      <4>2. v \div NPAGE /= 0
        <5>1. v \div NPAGE = 0 => v = 0 * NPAGE + Mid(v) * PTES + (v % PTES)
          BY ONLY <3>1, Indices DEF Mid
        <5>2. v \div NPAGE = 0 => v % NPAGE = v
          BY ONLY <3>1, Sizes
        <5>3. v % NPAGE \in 0..(NPAGE - 1)
          BY ONLY <3>1, Sizes
        <5> QED BY ONLY <3>1, <3>3, <5>2, <5>3, Sizes
      <4> QED BY <2>3, <3>1, <4>1, <4>2
    <3> QED BY <3>2, <3>3
  <2>4. ASSUME NEW v \in P!VPN, v \div NPAGE \in {0, 1}, l = <<"pud", Kernel, v \div NPAGE>>
        PROVE  Word(l) = P!BootWord[l]
    <3>1. PICK p \in {0, 1} : p = v \div NPAGE
      BY <2>4
    <3>2. PudEntry(p * NPAGE) = Entry(pt, image, p)
      <4>1. PICK z : z = p * NPAGE
        OBVIOUS
      <4>2. z \in Nat /\ z = p * NPAGE + 0 /\ 0 \in 0..(NPAGE - 1) /\ NPAGE >= 1
        BY ONLY <4>1, p \in {0, 1}, Sizes
      <4>3. z \div NPAGE = p
        BY ONLY <4>2, p \in {0, 1}, Sizes, Division
      <4> QED BY ONLY <4>1, <4>3 DEF PudEntry
    <3>3. Entry(pt, image, p).kind = "table"
      BY ONLY <2>1, p \in {0, 1}, Kinds DEF Identity
    <3>4. Word(<<"pud", Kernel, p>>) = Boot
      BY ONLY <3>2, <3>3, Words
    <3> QED BY ONLY <2>1, <2>4, <3>1, <3>4, Boots, l \in P!Loc
  <2>5. ASSUME NEW v \in P!VPN, v \div NPAGE \in {0, 1}, l = <<"pmd", Kernel, v \div PTES>>
        PROVE  Word(l) = P!BootWord[l]
    <3>1. PICK q, w : q = v \div PTES /\ w = q * PTES
      OBVIOUS
    <3>2. v \in Nat
      BY ONLY <2>3, <2>5
    <3>3. w \in Nat /\ w \div PTES = q /\ w \div NPAGE = v \div NPAGE
      BY ONLY <3>1, <3>2, FirstOfTable
    <3>4. PmdEntry(w) = PmdEntry(v)
      BY ONLY <3>1, <3>3 DEF PmdEntry, PudEntry
    <3>5. CASE v \in 0..(NPAGE - 1)
      <4>1. PmdEntry(v).kind /= "invalid"
        BY ONLY <2>1, <3>5, LowEntries
      <4>2. Word(<<"pmd", Kernel, q>>) = Boot
        BY ONLY <3>1, <3>4, <4>1, Words
      <4>3. P!BootWord[l] = Boot
        BY ONLY <2>1, <2>5, <3>1, <3>5, Boots, l \in P!Loc
      <4> QED BY <2>5, <3>1, <4>2, <4>3
    <3>6. CASE v \div NPAGE = 1 /\ v \div PTES > (TIMESTACK - 1) \div PTES
      <4>1. PmdEntry(v).kind = "invalid" /\ q >= PMDS
        BY ONLY <2>1, <3>1, <3>2, <3>6, HighEntries
      <4>2. Word(<<"pmd", Kernel, q>>) = Nil
        BY ONLY <3>1, <3>4, <4>1, Words
      <4>3. ASSUME NEW f \in 0..(NPAGE - 1) PROVE q /= f \div PTES
        <5>1. f \in Nat /\ f = (f \div PTES) * PTES + (f % PTES) /\ f % PTES \in Nat /\ f \div PTES \in Nat
          BY ONLY f \in 0..(NPAGE - 1), Sizes, Indices
        <5>2. SUFFICES ASSUME f \div PTES >= PMDS PROVE FALSE
          BY <4>1
        <5>3. PICK g \in Nat : f \div PTES = PMDS + g
          <6>1. f \div PTES - PMDS \in Nat /\ f \div PTES = PMDS + (f \div PTES - PMDS)
            BY <5>1, <5>2, Sizes
          <6> QED BY <6>1
        <5>4. f = (PMDS + g) * PTES + (f % PTES)
          BY <5>1, <5>3
        <5>5. (PMDS + g) * PTES = PMDS * PTES + g * PTES /\ g * PTES \in Nat
          BY ONLY g \in Nat, Sizes
        <5>6. PICK y, z : y = g * PTES /\ z = (PMDS + g) * PTES
          OBVIOUS
        <5> QED BY ONLY <5>1, <5>4, <5>5, <5>6, f \in 0..(NPAGE - 1), Sizes
      <4>4. P!BootWord[l] = Nil
        BY ONLY <2>1, <2>5, <3>1, <4>3, Boots, l \in P!Loc
      <4> QED BY <2>5, <3>1, <4>2, <4>4
    <3> QED BY <2>3, <2>5, <3>5, <3>6
  <2>6. ASSUME NEW v \in P!VPN, v \div NPAGE \in {0, 1}, l = <<"pte", Kernel, v>>
        PROVE  Word(l) = P!BootWord[l]
    <3>1. CASE v \in 0..(NPAGE - 1)
      <4>1. /\ v < FirstDevice => PteEntry(v) = Leaf(v)
            /\ v >= FirstDevice => PteEntry(v).kind /= "page"
        BY ONLY <2>1, <3>1, LowEntries
      <4>2. CASE v < FirstDevice
        <5>1. Word(<<"pte", Kernel, v>>) = v
          BY ONLY <4>1, <4>2, Words, Kinds
        <5>2. P!BootWord[l] = v
          BY ONLY <2>1, <2>6, <3>1, <4>2, Boots, l \in P!Loc
        <5> QED BY <2>6, <5>1, <5>2
      <4>3. CASE ~(v < FirstDevice)
        <5>1. v >= FirstDevice
          BY ONLY <3>1, <4>3, BlocksFit, Sizes
        <5>2. Word(<<"pte", Kernel, v>>) = Nil
          BY ONLY <4>1, <5>1, Words
        <5>3. P!BootWord[l] = Nil
          BY ONLY <2>1, <2>6, <4>3, Boots, l \in P!Loc
        <5> QED BY <2>6, <5>2, <5>3
      <4> QED BY <4>2, <4>3
    <3>2. CASE v \div NPAGE = 1 /\ v \div PTES > (TIMESTACK - 1) \div PTES
      <4>1. v \in Nat
        BY ONLY <2>3, <2>6
      <4>2. PteEntry(v).kind = "invalid"
        BY ONLY <2>1, <3>2, <4>1, HighEntries
      <4>3. v \notin 0..(NPAGE - 1)
        BY ONLY <3>2, <4>1, LowEntries, <2>1
      <4>4. Word(<<"pte", Kernel, v>>) = Nil
        BY ONLY <4>2, Words
      <4>5. P!BootWord[l] = Nil
        BY ONLY <2>1, <2>6, <4>3, Boots, l \in P!Loc
      <4> QED BY <2>6, <4>4, <4>5
    <3> QED BY <2>3, <2>6, <3>1, <3>2
  <2> QED BY ONLY <2>2, <2>4, <2>5, <2>6, Places, l \in P!Loc
<1>2. ASSUME BootInv PROVE BootEndsInPageInit
  <2> SUFFICES ASSUME bootPc = "done"
               PROVE  [free |-> pages.free, ref |-> pages.ref, word |-> [l \in P!Loc |-> Word(l)],
                       panic |-> FALSE, wrapped |-> FALSE] = P!PageInit
    BY DEF BootEndsInPageInit
  <2>1. /\ pages.free = [k \in 1..(NPAGE - Page(freemem)) |-> NPAGE - k]
        /\ pages.ref = [f \in P!Frame |-> IF f < Page(freemem) THEN 1 ELSE 0]
    BY <1>2 DEF BootInv, Done, P!Frame
  <2>2. \A l \in P!Loc : Word(l) = P!BootWord[l]
    BY <1>1, <1>2
  <2>3. P!BootWord = [l \in P!Loc |-> P!BootWord[l]]
    BY DEF P!BootWord
  <2>4. [l \in P!Loc |-> Word(l)] = [l \in P!Loc |-> P!BootWord[l]]
    BY ONLY <2>2
  <2> QED BY <2>1, <2>3, <2>4 DEF P!PageInit
<1> QED BY <1>1, <1>2, BootKeepsInv, PTL
=============================================================================
