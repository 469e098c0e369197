------------------------- MODULE OblectamentaState -------------------------
(***************************************************************************)
(* The memory of the Oblectamenta machine before and after a run: the data *)
(* section that fills it (vm_ceps_core_helper.cpp, vm_base.hpp) and the    *)
(* AST a machine is saved to and restored from (oblectamenta-assembler.cpp *)
(* and the copy functions of vm_base.cpp).                                 *)
(***************************************************************************)
EXTENDS OblectamentaMessage, TLC

(***************************************************************************)
(* mem: what lies below heap, and the size of the whole memory.            *)
(***************************************************************************)
Memory(size) == [heap |-> <<>>, size |-> size, labels |-> <<>>, payload |-> -1, ok |-> TRUE]

\* store<T>: no check of the room that is left.
Store(m, c) == [m EXCEPT !.heap = @ \o c]

\* reserve and store(string): a memory that is too small is enlarged, but
\* its heap pointer stays where it was, so the next item overwrites this one.
Reserve(m, c) ==
  IF m.size - Len(m.heap) > Len(c) THEN Store(m, c)
  ELSE [m EXCEPT !.size = @ + Len(c)]

Item(kind, val) == [kind |-> kind, val |-> val]

\* One child of a data section: handle_oblectamenta_blocks and, without msg
\* and the payload mark, fetch<ser_wrapper_data>.
DataItem(m, e) ==
  CASE e.kind = "int" -> Store(m, Cells(e.val, I32))
    [] e.kind = "float" -> Store(m, Cells(e.val, Dbl))
    [] e.kind = "uint8" -> Store(m, <<e.val>>)
    [] e.kind = "string" -> IF e.val = <<>> THEN m ELSE Reserve(m, e.val)
    [] e.kind = "label" -> [m EXCEPT !.labels = (e.val :> Len(m.heap)) @@ @]
    [] e.kind = "msg" -> Reserve(m, Serialize(e.val))
    [] e.kind = "payload" -> [m EXCEPT !.payload = Len(m.heap)]

\* The children one after the other (by halves, as in Steps).
RECURSIVE DataItems(_, _, _, _)
DataItems(m, items, lo, hi) ==
  IF lo > hi THEN m
  ELSE IF lo = hi THEN DataItem(m, items[lo])
  ELSE LET mid == (lo + hi) \div 2
           more(half) == IF half.ok THEN DataItems(half, items, mid + 1, hi) ELSE half
       IN  more(DataItems(m, items, lo, mid))

DataSection(items, size) == DataItems(Memory(size), items, 1, Len(items))

(***************************************************************************)
(* ast_rep: the machine as a tree. Labels are written in front of the byte *)
(* they stand for; one behind the last byte is not written.                *)
(***************************************************************************)
\* Mutant of SaveData: labels are written behind their byte.
SaveDataLabelsBehind(heap, labels) ==
  LET at(i) == SetToSeq({l \in DOMAIN labels : labels[l] = i})
      cell(i) == <<Item("uint8", heap[i + 1])>>
                   \o [k \in DOMAIN at(i) |-> Item("label", at(i)[k])]
  IN  Flat([i \in 1 .. Len(heap) |-> cell(i - 1)])

SaveData(heap, labels) ==
  LET at(i) == SetToSeq({l \in DOMAIN labels : labels[l] = i})
      cell(i) == [k \in DOMAIN at(i) |-> Item("label", at(i)[k])]
                   \o <<Item("uint8", heap[i + 1])>>
  IN  Flat([i \in 1 .. Len(heap) |-> cell(i - 1)])

Save(vm) ==
  [stack |-> SubSeq(vm.mem, vm.sp + 1, Len(vm.mem)),
   data |-> SaveData(SubSeq(vm.mem, 1, vm.heap), vm.labels),
   cstack |-> vm.cs,
   registers |-> vm.registers]

\* fetch<VMEnv>: the stack grows down from the end of the new memory, the
\* data up from its start; copy_stack and copy_data refuse what does not fit
\* and copy nothing else; the registers are not read.
Restore(ast, size) ==
  LET n == Len(ast.stack)
      sp == IF n <= size THEN size - n ELSE size
      from(below, labels) ==
        [mem |-> [i \in 1 .. size |->
                    IF i <= Len(below) THEN below[i]
                    ELSE IF i > sp THEN ast.stack[i - sp] ELSE 0],
         heap |-> Len(below), labels |-> labels, sp |-> sp, cs |-> ast.cstack]
      copied(d) == IF Len(d.heap) <= size THEN from(d.heap, d.labels) ELSE from(<<>>, <<>>)
  IN  copied(DataSection(ast.data, size))
=============================================================================
