---------------------------- MODULE AddressSpaces ----------------------------
(***************************************************************************)
(* What the memory system calls promise, without frame counts, tables or a *)
(* free list: every environment sees a frame or nothing at each page, and  *)
(* a call changes what is seen at the one page it names, or nothing.  Only *)
(* sys_env_destroy changes more: the environment's own pages go away.  It  *)
(* may also follow a stray entry, and then nothing is promised.            *)
(***************************************************************************)
CONSTANTS
    Owner, Page, Frame,
    Shared,  \* pages that all environments see alike
    StackPage,  \* the page an environment created at boot starts with
    Nil      \* nothing is mapped

VARIABLES
    live,    \* the environments that have an address space
    view,    \* what each environment sees at each page
    call,    \* the last call and its result
    wrapped  \* a reference count has overflowed: frames may be handed out twice
vars == <<live, view, call, wrapped>>

Init ==
    /\ live = {} /\ view = [p \in Owner \X Page |-> Nil]
    /\ call = [op |-> "boot", ret |-> "ok"] /\ wrapped = FALSE

Shown == {view[p] : p \in Owner \X Page}

\* e sees f at v from now on, and so does everybody if v is shared.
Show(e, v, f) ==
    view' = [p \in Owner \X Page |->
                IF p[2] = v /\ (p[1] = e \/ v \in Shared) THEN f ELSE view[p]]

\* The same with a frame that no environment sees anywhere.
ShowFresh(e, v) == \E f \in Frame : (f \in Shown => wrapped) /\ Show(e, v, f)

Succeeds(op) == call'.op = op /\ call'.ret = "ok"

-----------------------------------------------------------------------------
\* A new environment has nothing of its own but its stack.
New(e) ==
    /\ e \notin live /\ live' = live \union {e}
    /\ \A v \in Page \ Shared : view[e, v] = Nil

\* env_create at boot, where no call is made.
Create(e) == call.op = "boot" /\ UNCHANGED call /\ New(e) /\ ShowFresh(e, StackPage)

\* From now on e sees frames that nobody saw, all different, at some pages of its own
\* where c sees something.
ShowCopies(c, e) ==
    LET Own == Page \ Shared
        Copied == {v \in Own : view'[e, v] /= Nil}
    IN  /\ view' = [p \in Owner \X Page |->
                        IF p[1] = e /\ p[2] \in Own THEN view'[p] ELSE view[p]]
        /\ \A v \in Copied : view'[e, v] \in Frame /\ view[c, v] /= Nil
        /\ wrapped' \/ \A v \in Copied :
                        /\ view'[e, v] \notin Shown
                        /\ \A w \in Copied : view'[e, w] = view'[e, v] => w = v

\* sys_env_alloc: the stack is copied page by page.  It may stop in the middle, which
\* it reports, and leave out a page, which it does not.
Fork(c, e) == c \in live /\ call'.op = "fork" /\ New(e) /\ ShowCopies(c, e)

Alloc(e, v) ==
    /\ e \in live /\ Succeeds("alloc")
    /\ ShowFresh(e, v)
    /\ UNCHANGED live

Map(s, sv, d, dv) ==
    /\ s \in live /\ d \in live /\ Succeeds("map")
    /\ view[s, sv] /= Nil /\ Show(d, dv, view[s, sv])
    /\ UNCHANGED live

Unmap(e, v) == e \in live /\ Succeeds("unmap") /\ Show(e, v, Nil) /\ UNCHANGED live

Destroy(e) ==
    /\ e \in live /\ live' = live \ {e}
    /\ Succeeds("destroy")
    /\ view' = [p \in Owner \X Page |->
                    IF p[1] = e /\ p[2] \notin Shared THEN Nil ELSE view[p]]

\* env_free may find anything behind a block entry: no promise is left after that.
Stray == call.op /= "stray" /\ call'.op = "stray"

\* Any other call that fails changes nothing that is seen.
Fail == call'.ret /= "ok" /\ UNCHANGED <<live, view>>

Next ==
    \/ Stray
    \/ /\ wrapped => wrapped'
       /\ \/ \E e \in Owner : Create(e) \/ Destroy(e)
          \/ \E c, e \in Owner : Fork(c, e)
          \/ \E e \in Owner, v \in Page : Alloc(e, v) \/ Unmap(e, v)
          \/ \E s, d \in Owner, sv, dv \in Page : Map(s, sv, d, dv)
          \/ Fail

Spec == Init /\ [][Next]_vars
=============================================================================
