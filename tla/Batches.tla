------------------------------ MODULE Batches ------------------------------
(***************************************************************************)
(* detail/batch.hpp: how a call splits its texts, documents or images into *)
(* batches.  Batches are numbered from 0, the items of a call from 1.      *)
(***************************************************************************)
EXTENDS Integers

BatchSize(total, batch_size) == IF batch_size <= 0 THEN total ELSE batch_size

batch_count(total, batch_size) ==
  (total + BatchSize(total, batch_size) - 1) \div BatchSize(total, batch_size)

get_batch(index, total, batch_size) ==
  {i \in 1..total : /\ i > index * BatchSize(total, batch_size)
                    /\ i <= (index + 1) * BatchSize(total, batch_size)}

\* The batch item i falls into.
BatchOf(i, total, batch_size) ==
  get_batch((i - 1) \div BatchSize(total, batch_size), total, batch_size)
=============================================================================
