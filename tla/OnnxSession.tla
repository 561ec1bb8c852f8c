---------------------------- MODULE OnnxSession ----------------------------
(***************************************************************************)
(* The ONNX session (detail/onnx_session_impl.hpp).  The class is a thin   *)
(* layer over the C API of ONNX Runtime: every operation is a straight     *)
(* line of calls that make objects (options, tensors, outputs, type        *)
(* infos), use them, and release them.  Every call is wrapped in           *)
(* ort_check, which throws; nothing on the way out releases what the calls *)
(* before it have made.  An operation is modelled as the sequence of its   *)
(* steps, so that what a failure at any step leaves behind is computed     *)
(* from the order of the code.                                             *)
(***************************************************************************)
EXTENDS Naturals, SequencesExt

Make(objects) == [op |-> "make", objects |-> objects]
Use           == [op |-> "use", objects |-> {}]
Drop(objects) == [op |-> "drop", objects |-> objects]

Obj(name)     == <<name, 0>>
Nth(name, i)  == <<name, i>>

\* The objects made by the first k steps and not released by them.
Alive(steps, k) ==
  {o \in UNION {steps[i].objects : i \in 1..k} :
     ~\E i \in 1..k : steps[i].op = "drop" /\ o \in steps[i].objects}

\* The steps at which ort_check can throw (a release returns no status), and
\* what is left behind when step k does.
ThrowPoints(steps)  == {k \in 1..Len(steps) : steps[k].op # "drop"}
Orphans(steps, k)   == Alive(steps, k - 1)
LeftBehind(steps)   == Alive(steps, Len(steps))

SESSION == Obj("session")

\* The options: created, then set up by four or six checked calls.  A provider
\* that cannot be appended falls back to the CPU without a word.
session_options(num_threads) ==
  <<Make({Obj("options")}), Use>> \o (IF num_threads > 0 THEN <<Use, Use>> ELSE <<>>)

\* Names are copied one by one; each is freed before the next is asked for.
query_io_names(inputs, num_outputs) ==
  <<Use>> \o FlattenSeq([i \in 1..inputs |->
               <<Make({Nth("input name", i)}), Drop({Nth("input name", i)})>>])
  \o <<Use>> \o FlattenSeq([i \in 1..num_outputs |->
               <<Make({Nth("output name", i)}), Drop({Nth("output name", i)})>>])

load_from_file(num_threads, inputs, num_outputs) ==
  session_options(num_threads)
  \o <<Make({SESSION}), Drop({Obj("options")}), Use>>
  \o query_io_names(inputs, num_outputs)

\* CreateSessionFromArray instead of CreateSession, and otherwise the same.
load_from_memory(num_threads, inputs, num_outputs) ==
  session_options(num_threads)
  \o <<Make({SESSION}), Drop({Obj("options")}), Use>>
  \o query_io_names(inputs, num_outputs)

\* Copying one output out of the runtime and releasing it.
extract(i) ==
  <<Make({Nth("info", i)}), Use, Use, Use,
    Drop({Nth("info", i)}), Drop({Nth("output", i)})>>

\* Mutant: the input tensors are not released.
run_keeps_inputs(has_mask, has_type, num_outputs) ==
  <<Make({Obj("memory")}), Make({Obj("ids")})>>
  \o <<Make({Nth("output", i) : i \in 1..num_outputs})>>
  \o FlattenSeq([i \in 1..num_outputs |-> extract(i)])
  \o <<Drop({Obj("memory")})>>

\* One inference over token ids: the memory info, the tensors the model has an
\* input for, the outputs all at once, their copies, and the clean-up.
run(has_mask, has_type, num_outputs) ==
  LET inputs == {Obj("ids")} \union (IF has_mask THEN {Obj("mask")} ELSE {})
                             \union (IF has_type THEN {Obj("type")} ELSE {})
  IN  <<Make({Obj("memory")}), Make({Obj("ids")})>>
      \o (IF has_mask THEN <<Make({Obj("mask")})>> ELSE <<>>)
      \o (IF has_type THEN <<Make({Obj("type")})>> ELSE <<>>)
      \o <<Make({Nth("output", i) : i \in 1..num_outputs})>>
      \o FlattenSeq([i \in 1..num_outputs |-> extract(i)])
      \o <<Drop(inputs), Drop({Obj("memory")})>>

\* One inference over one float tensor, for images.
run_float(num_outputs) ==
  <<Make({Obj("memory")}), Make({Obj("input")})>>
  \o <<Make({Nth("output", i) : i \in 1..num_outputs})>>
  \o FlattenSeq([i \in 1..num_outputs |-> extract(i)])
  \o <<Drop({Obj("input")}), Drop({Obj("memory")})>>
=============================================================================
