------------------------------- MODULE Close --------------------------------
(***************************************************************************)
(* One thread with its frames, its to-be-closed variables and its errors:  *)
(* lj_close.c, err_unwind of lj_err.c, the landing pads and continuations  *)
(* of the interpreter (vm_x64.dasc), and what the coroutine library and    *)
(* the C API do to the thread from outside.                                *)
(*                                                                         *)
(* Three machines run __close handlers: bytecode at the end of a scope,    *)
(* continuation frames of the interpreter, which let a handler yield, and  *)
(* a loop in C around lua_pcall, which does not.  Which one it is depends  *)
(* on the frames the error finds on its way.                               *)
(***************************************************************************)
EXTENDS Integers, Sequences, SequencesExt, FiniteSetsExt

CONSTANTS Vals,       \* values with a __close metamethod
          Errs,       \* error objects
          Nil, Junk,  \* no error; a stack slot that holds something else
          MaxFrames,  \* bound: depth of the stack at a call by the program
          Callers,    \* bound: what calls pcall where it could yield, out of
                      \* {"lua", "meta", "pcall"}
          OwnTbc,     \* bound: handlers run by a coroutine have variables to close too
          By          \* bound: what resumes it, out of {"resume", "api", "wrap"}

ASSUME CloseAssumption ==
  /\ IsFiniteSet(Vals)
  /\ Nil # Junk /\ {Nil, Junk} \cap Errs = {}
  /\ MaxFrames \in Nat /\ OwnTbc \in BOOLEAN
  /\ Callers \subseteq {"lua", "meta", "pcall"}
  /\ By \subseteq {"resume", "api", "wrap"}

VARIABLES
  main,     \* is it the main thread?
  frames,   \* the stack of frames, innermost last
  list,     \* closelist: the marked slots, newest last
  throw,    \* the error that is being thrown, or Nil
  status,   \* L->status: "ok", "yield", "error"
  cframe,   \* L->cframe: the thread runs, or runs another one
  fresh,    \* not running, status ok, and an initial function is on the stack
  errobj,   \* L->top-1 of a thread that died from an error
  by,       \* who resumed it last
  life      \* history: every value "new", "open" or "closed"

vars == <<main, frames, list, throw, status, cframe, fresh, errobj, by, life>>
outside == <<main, status, cframe, fresh, errobj, by>>

\* Kinds of frames.  A Lua function, or a C function with marked slots; pcall
\* around the frame above it, or after it has caught an error; a metamethod
\* continuation; a C function inside lua_call or lua_pcall.
Plain == {"lua", "pcall", "caught", "meta", "call", "cpcall", "dead"}
\* Frames that close variables: continuations after an error (LJ_CONT_CLOSE)
\* and on return (LJ_CONT_CLOSE_RETURN, LJ_CONT_CLOSE_CFRAME), bytecode at the
\* end of a scope, and close_unwind.
Closers == {"after_error", "on_return", "scope", "unwind"}

\* err: the error a closer hands on.  low: the lowest slot it closes.  to: the
\* frame where close_unwind ends, 0 for the whole thread.
Frame(k) == [k |-> k, err |-> Nil, low |-> <<0, 0>>, to |-> 0]
Closer(k, err, low, to) ==
  [Frame(k) EXCEPT !.err = err, !.low = low, !.to = to]

Top == Len(frames)
Running == frames # <<>> /\ throw = Nil /\ cframe /\ frames[Top].k = "lua"
IsCloser == frames # <<>> /\ throw = Nil /\ frames[Top].k \in Closers

Cut(fs, n) == SubSeq(fs, 1, n)

\* Slots of frames that are gone stay below the frames of the handlers.
Deaden(fs, n) == [i \in DOMAIN fs |-> IF i > n THEN Frame("dead") ELSE fs[i]]

AtOrAbove_Strict(slot, low) ==
  \/ slot[1] > low[1]
  \/ slot[1] = low[1] /\ slot[2] > low[2]

\* A slot is a frame and a variable of it.
AtOrAbove(slot, low) ==
  \/ slot[1] > low[1]
  \/ slot[1] = low[1] /\ slot[2] >= low[2]

\* close_findunwind
Marked(low) == {i \in DOMAIN list : AtOrAbove(list[i].slot, low)}

\* cframe_canyield of the C frame below frame n: no C code between it and
\* the resume.
CanYield(n) ==
  ~main /\ \A i \in 1 .. n - 1 : frames[i].k \notin {"call", "cpcall", "unwind"}

-----------------------------------------------------------------------------
(* Returning and delivering.                                                *)

\* The frame that gets the results of pcall in frame n, when pcalls that were
\* called by pcall have returned too.
Receiver(n) == Max({i \in 0 .. n - 1 : i = 0 \/ frames[i].k \notin {"pcall", "caught"}})

\* The thread's function has returned.
Ended == /\ frames' = <<>>
         /\ cframe' = FALSE
         /\ UNCHANGED <<main, status, fresh, errobj, by>>

PcallReturns_ErrorAlways(n, ok, e) ==
  LET i == Receiver(n) IN
  IF i = 0 THEN Ended
  ELSE /\ UNCHANGED outside
       /\ frames' =
            IF frames[i].k = "meta" THEN Cut(frames, i - 1)
            ELSE IF frames[i].k \in Closers /\ i = n - 1
            THEN [Cut(frames, i) EXCEPT ![i].err = e]
            ELSE Cut(frames, i)

\* pcall in frame n returns true, or false and e.
PcallReturns(n, ok, e) ==
  LET i == Receiver(n) IN
  IF i = 0 THEN Ended
  ELSE /\ UNCHANGED outside
       /\ frames' =
            IF frames[i].k = "meta" THEN Cut(frames, i - 1)
            ELSE IF frames[i].k \in Closers /\ ~ok /\ i = n - 1
            THEN [Cut(frames, i) EXCEPT ![i].err = e]
            ELSE Cut(frames, i)

\* The function in frame n, with nothing left to close, returns.
Returns(n) ==
  IF n = 1 THEN Ended
  ELSE IF frames[n - 1].k = "pcall" THEN PcallReturns(n - 1, TRUE, Nil)
  ELSE /\ frames' = Cut(frames, IF frames[n - 1].k \in {"call", "cpcall"}
                                THEN n - 2 ELSE n - 1)
       /\ UNCHANGED outside

\* An error e, with nothing left to close above it, arrives at frame n.
Arrives(n, e) ==
  CASE n = 0 -> /\ Ended /\ throw' = Nil
    [] n > 0 /\ frames[n].k = "call" ->
         /\ throw' = e
         /\ frames' = Cut(frames, n - 1)
         /\ UNCHANGED outside
    [] n > 0 /\ frames[n].k = "cpcall" ->
         /\ throw' = Nil
         /\ frames' = Cut(frames, n - 1)
         /\ UNCHANGED outside
    [] n > 0 /\ frames[n].k = "unwind" ->
         /\ throw' = Nil
         /\ frames' = [Cut(frames, n) EXCEPT ![n].err = e]
         /\ UNCHANGED outside
    [] OTHER ->            \* "pcall", "caught"
         throw' = Nil /\ PcallReturns(n, FALSE, e)

-----------------------------------------------------------------------------
(* What a running function does.                                            *)

Init == /\ main \in BOOLEAN
        /\ frames = IF main THEN <<Frame("lua")>> ELSE <<>>
        /\ cframe = main
        /\ fresh = ~main
        /\ list = <<>> /\ throw = Nil /\ status = "ok" /\ errobj = Nil
        /\ by = "none"
        /\ life = [v \in Vals |-> "new"]

Push(fs) == /\ Running /\ Top + Len(fs) <= MaxFrames
            /\ frames' = frames \o fs
            /\ UNCHANGED <<list, throw, life>> /\ UNCHANGED outside

Call == Push(<<Frame("lua")>>)
CCall == Push(<<Frame("call"), Frame("lua")>>)
CPcall == Push(<<Frame("cpcall"), Frame("lua")>>)
Pcall == Push(<<Frame("pcall"), Frame("lua")>>)
PcallPcall == /\ "pcall" \in Callers \/ ~CanYield(Top)
              /\ Push(<<Frame("pcall"), Frame("pcall"), Frame("lua")>>)
MetaPcall == /\ "meta" \in Callers \/ ~CanYield(Top)
             /\ Push(<<Frame("meta"), Frame("pcall"), Frame("lua")>>)

Mark_SlotAhead(v) ==
  LET own == {i \in DOMAIN list : list[i].slot[1] = Top}
      slot == <<Top, 2 + Cardinality(own)>>
  IN  /\ Running /\ life[v] = "new"
      /\ list' = Append(list, [slot |-> slot, val |-> v])
      /\ life' = [life EXCEPT ![v] = "open"]
      /\ UNCHANGED <<frames, throw>> /\ UNCHANGED outside

\* lj_close_unmark: a stale record of the same slot is dropped.
Unmarked(slot) ==
  LET stale == {i \in DOMAIN list : list[i].slot = slot}
  IN IF stale = {} THEN list ELSE RemoveAt(list, Max(stale))

\* lj_close_mark, for a local variable or lua_toclose
Mark(v) ==
  LET own == {i \in DOMAIN list : list[i].slot[1] = Top}
      slot == <<Top, 1 + Cardinality(own)>>
  IN  /\ Running /\ life[v] = "new"
      /\ OwnTbc \/ ~CanYield(Top) \/ \A f \in ToSet(frames) : f.k \notin Closers
      /\ list' = Append(Unmarked(slot), [slot |-> slot, val |-> v])
      /\ life' = [life EXCEPT ![v] = "open"]
      /\ UNCHANGED <<frames, throw>> /\ UNCHANGED outside

\* The end of scopes that declare the variables of the function from n on: the bytecode
\* that fscope_closeactive_range emits starts here; CloseNext and CloseDone are what it does.
EndScope(n) ==
  /\ Running
  /\ \E i \in DOMAIN list : list[i].slot = <<Top, n>>
  /\ frames' = Append(frames, Closer("scope", Nil, <<Top, n>>, 0))
  /\ UNCHANGED <<list, throw, life>> /\ UNCHANGED outside

\* BC_RET and vm_returnc: lj_close_prepare_return_pcall.
Return ==
  /\ Running
  /\ IF Marked(<<Top, 1>>) = {} THEN Returns(Top)
     ELSE /\ frames' = Append(frames, Closer("on_return", Nil, <<Top, 1>>, 0))
          /\ UNCHANGED outside
  /\ UNCHANGED <<list, throw, life>>

\* lua_error, lj_err_run: also a yield where it is not allowed.
Raise(e) == /\ Running
            /\ throw' = e
            /\ UNCHANGED <<frames, list, life>> /\ UNCHANGED outside

\* lua_close, called by os.exit in the main thread: what is left on the stack
\* is closed.
StateClose ==
  /\ main /\ Running
  /\ \A f \in ToSet(frames) : ~(f.k = "unwind" /\ f.to = 0)   \* gc.closing
  /\ frames' = Append(frames, Closer("unwind", Nil, <<1, 1>>, 0))
  /\ UNCHANGED <<list, throw, life>> /\ UNCHANGED outside

-----------------------------------------------------------------------------
(* Unwinding.                                                               *)

\* Where an error stops, or has something to do.
Landing == Max({i \in 1 .. Top : frames[i].k \in {"pcall", "call", "cpcall", "unwind"}}
               \cup {0})

\* unwindstack with lj_close_unwind.
CloseInC(n, e) ==
  /\ throw' = Nil
  /\ frames' = Append(Deaden(frames, n), Closer("unwind", e, <<n + 1, 1>>, n))
  /\ UNCHANGED outside

\* The landing pad vm_unwind_ff after err_unwind has left the closing to it
\* (close_defer): it looks at what called pcall.
Deferred(n, e) ==
  LET caller == IF n = 1 THEN "c" ELSE frames[n - 1].k IN
  CASE caller \in {"lua", "scope"} ->           \* lj_close_prepare_pcall
         /\ throw' = Nil
         /\ frames' = Append([Deaden(frames, n) EXCEPT ![n].k = "caught"],
                             Closer("after_error", e, <<n + 1, 1>>, n))
         /\ UNCHANGED outside
    [] caller = "c" -> CloseInC(n, e)           \* lj_close_unwind_pcall
    [] OTHER -> Arrives(n, Junk)                \* a continuation, or a pcall

ErrorLeft_WrapPops(e) == {e} \cup (IF by # "api" THEN {Junk} ELSE {})

\* What is at L->top-1 after the error e has ended a coroutine, once who
\* resumed it has looked at it: coroutine.resume pops it.
ErrorLeft(e) == {e} \cup (IF by = "resume" THEN {Junk} ELSE {})

\* err_unwind, up to the next frame that stops the error or closes variables.
Unwind ==
  LET n == Landing
      open == Marked(<<n + 1, 1>>) # {}
  IN  /\ throw # Nil
      /\ UNCHANGED <<list, life>>
      /\ IF n = 0 /\ ~main
         THEN /\ throw' = Nil               \* FRAME_CP with cframe_canyield
              /\ frames' = Deaden(frames, 0)
              /\ cframe' = FALSE /\ status' = "error"
              /\ errobj' \in ErrorLeft(throw)
              /\ UNCHANGED <<main, fresh, by>>
         ELSE IF ~open THEN Arrives(n, throw)
         ELSE IF n > 0 /\ frames[n].k = "pcall" /\ CanYield(n)
         THEN Deferred(n, throw)
         ELSE CloseInC(n, throw)

-----------------------------------------------------------------------------
(* Closing.                                                                 *)

CloseNext_OldestFirst ==
  LET f == frames[Top]
      n == Min(Marked(f.low))
  IN  /\ IsCloser /\ Marked(f.low) # {}
      /\ list' = RemoveAt(list, n)
      /\ life' = [life EXCEPT ![list[n].val] = "closed"]
      /\ frames' = frames \o IF f.k = "unwind" THEN <<Frame("lua")>>
                             ELSE <<Frame("pcall"), Frame("lua")>>
      /\ UNCHANGED throw /\ UNCHANGED outside

CloseNext_RecordStays ==
  LET f == frames[Top]
      n == Max(Marked(f.low))
  IN  /\ IsCloser /\ Marked(f.low) # {}
      /\ Top < MaxFrames
      /\ life' = [life EXCEPT ![list[n].val] = "closed"]
      /\ frames' = frames \o IF f.k = "unwind" THEN <<Frame("lua")>>
                             ELSE <<Frame("pcall"), Frame("lua")>>
      /\ UNCHANGED <<list, throw>> /\ UNCHANGED outside

\* The loops of close_unwind, of the lj_close_prepare_* and of the bytecode at
\* the end of a scope: the record goes first, then the handler is called.
CloseNext ==
  LET f == frames[Top]
      n == Max(Marked(f.low))
  IN  /\ IsCloser /\ Marked(f.low) # {}
      /\ list' = RemoveAt(list, n)
      /\ life' = [life EXCEPT ![list[n].val] = "closed"]
      /\ \/ frames' = frames \o IF f.k = "unwind" THEN <<Frame("lua")>>
                                ELSE <<Frame("pcall"), Frame("lua")>>
         \/ \E e \in Errs :          \* the metamethod is gone
              frames' = [frames EXCEPT ![Top].err = e]
      /\ UNCHANGED throw /\ UNCHANGED outside

CloseDone ==
  LET f == frames[Top]
      below == Top - 1
  IN  /\ IsCloser /\ Marked(f.low) = {}
      /\ UNCHANGED <<list, life>>
      /\ CASE f.k = "after_error" -> Arrives(f.to, f.err)
           [] f.k = "unwind" -> Arrives(f.to, f.err)
           [] f.k = "scope" -> /\ frames' = Cut(frames, below)
                               /\ throw' = f.err
                               /\ UNCHANGED outside
           [] f.k = "on_return" /\ f.err # Nil ->
                /\ frames' = Cut(frames, below)
                /\ throw' = f.err
                /\ UNCHANGED outside
           [] f.k = "on_return" /\ f.err = Nil ->
                Returns(below) /\ UNCHANGED throw

-----------------------------------------------------------------------------
(* Coroutines.                                                              *)

\* coroutine_status, asked by another thread.
Status ==
  CASE status = "yield" -> "suspended"
    [] status = "error" -> "dead"
    [] status = "ok" /\ frames # <<>> -> "normal"
    [] status = "ok" /\ frames = <<>> /\ ~fresh -> "dead"
    [] OTHER -> "suspended"

CanResume_NoInitialCheck == ~cframe /\ status \in {"ok", "yield"}

\* The checks of coroutine_resume_wrap and lua_resume.
CanResume == /\ ~cframe
             /\ status \in {"ok", "yield"}
             /\ status = "ok" => fresh

\* coroutine.resume, lua_resume, and the function coroutine.wrap makes; the
\* initial function may be pcall.
Resume(b) ==
  /\ ~main /\ CanResume
  /\ cframe' = TRUE /\ status' = "ok" /\ fresh' = FALSE /\ by' = b
  /\ IF fresh THEN \/ frames' = <<Frame("lua")>>
                   \/ frames' = <<Frame("pcall"), Frame("lua")>>
     ELSE UNCHANGED frames
  /\ UNCHANGED <<main, list, throw, errobj, life>>

Yield == /\ Running /\ CanYield(Top)
         /\ cframe' = FALSE /\ status' = "yield"
         /\ UNCHANGED <<main, frames, list, throw, fresh, errobj, by, life>>

\* lua_closethread, called by coroutine.close, by a wrap function after an
\* error, and by lua_resetthread.  The handlers run as C frames of the thread.
CloseThread ==
  /\ ~main /\ ~cframe
  /\ cframe' = TRUE /\ status' = "ok" /\ fresh' = FALSE
  /\ frames' = Append(Deaden(frames, 0),
                      Closer("unwind", IF status = "error" THEN errobj ELSE Nil,
                             <<1, 1>>, 0))
  /\ errobj' = Nil
  /\ UNCHANGED <<main, list, throw, by, life>>

Step == \/ Call \/ CCall \/ CPcall \/ Pcall \/ PcallPcall \/ MetaPcall
        \/ \E v \in Vals : Mark(v)
        \/ \E n \in 1 .. Cardinality(Vals) : EndScope(n)
        \/ Return \/ Yield \/ StateClose
        \/ \E e \in Errs : Raise(e)

Next == \/ Step \/ Unwind \/ CloseNext \/ CloseDone \/ CloseThread
        \/ \E b \in By : Resume(b)

Spec == Init /\ [][Next]_vars

-----------------------------------------------------------------------------
(* Properties.                                                              *)

TypeOK ==
  /\ main \in BOOLEAN /\ cframe \in BOOLEAN /\ fresh \in BOOLEAN
  /\ \A f \in ToSet(frames) :
       f.k \in Plain \cup Closers /\ f.err \in Errs \cup {Nil, Junk}
  /\ \A r \in ToSet(list) : r.slot \in Nat \X (1 .. Cardinality(Vals))
  /\ throw \in Errs \cup {Nil, Junk} /\ errobj \in Errs \cup {Nil, Junk}
  /\ status \in {"ok", "yield", "error"} /\ by \in By \cup {"none"}
  /\ life \in [Vals -> {"new", "open", "closed"}]

\* The frame of every marked slot is there, or a closer above it is going to
\* close it, or the thread died and waits for lua_closethread: no way out of a
\* function leaves a variable behind that nobody closes, or somebody later does.
NoneOutlives ==
  \A r \in ToSet(list) :
    LET n == r.slot[1] IN
    /\ n <= Top
    /\ \/ frames[n].k = "lua"
       \/ status = "error"
       \/ \E i \in n + 1 .. Top : /\ frames[i].k \in Closers
                                  /\ AtOrAbove(r.slot, frames[i].low)

\* Every value is closed once: it is on the list until its handler runs, and
\* not again.
ClosedOnce == \A v \in Vals :
  Cardinality({i \in DOMAIN list : list[i].val = v}) = IF life[v] = "open" THEN 1 ELSE 0

\* The value to close is always the one marked last, whichever machine closes.
LastMarkedFirst ==
  [][Len(list') < Len(list) => list' = Front(list)]_list

\* A handler, and who catches the error in the end, get an error object and
\* not some other slot of the stack ("an errored coroutine passes its current
\* error object").
ErrorsAreErrors == throw # Junk /\ \A f \in ToSet(frames) : f.err # Junk

\* coroutine.status looks at other fields of the thread than the checks of
\* coroutine.resume and lua_resume do, and they agree all the same: whoever is
\* called suspended can be resumed, and no one else.
StatusAgrees == ~main /\ ~cframe => (Status = "suspended" <=> CanResume)

\* An error under way is not lost while variables are closed: a closer that has
\* one keeps one, until it is thrown on or handed to who catches it.
ErrorKept ==
  [][\A i \in DOMAIN frames \cap DOMAIN frames' :
       (frames[i].k \in Closers /\ frames[i].err # Nil /\ frames'[i].k = frames[i].k)
         => frames'[i].err # Nil]_vars

=============================================================================
