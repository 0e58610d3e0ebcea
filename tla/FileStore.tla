----------------------------- MODULE FileStore -----------------------------
(***************************************************************************)
(* What the file system calls promise a program: files are byte sequences, *)
(* and a descriptor is a place in one of them.  Nothing is said of nodes,  *)
(* handles, clusters or directory slots.  Module Vfs implements it as long *)
(* as the storage device carries out its writes and no file is changed     *)
(* while it has a node under another spelling of its name; after that the  *)
(* store is damaged, and nothing is promised.                              *)
(***************************************************************************)
EXTENDS Integers, Sequences, TLC

CONSTANTS Descriptors, Capacity, Fixed   \* of a process; of the memory file; files that stay

VARIABLES content, open, reply, damaged

vars == <<content, open, reply, damaged>>

(* content: a function from the files that exist to their bytes.           *)
(* open: a function from the <<process, descriptor>> pairs in use.         *)

Least(a, b) == IF a < b THEN a ELSE b

Drop(f, S) == [x \in DOMAIN f \ S |-> f[x]]

(* The pairs that are open on one of the files. *)
On(files) == {x \in DOMAIN open : open[x].file \in files}

Start == /\ open = << >> /\ ~damaged

(* The lowest descriptor that the process does not use; a missing file may *)
(* appear, empty, even when the call then fails for want of a descriptor.  *)
Open(p, file) ==
  LET free == {fd \in Descriptors : <<p, fd>> \notin DOMAIN open}
      fd == CHOOSE n \in free : \A m \in free : n <= m
  IN /\ content' \in {content, content @@ (file :> <<>>)}
     /\ \/ /\ reply'.ok /\ free # {} /\ reply'.value = <<fd>>
           /\ file \in DOMAIN content'
           /\ \E flags \in {"rdonly", "wronly", "rdwr"} :
                open' = (<<p, fd>> :> [file |-> file, offset |-> 0, flags |-> flags]) @@ open
        \/ ~reply'.ok /\ open' = open

(* Exactly the bytes from the descriptor's place on, as many as there are. *)
Read(x, length) ==
  LET d == open[x]
      bytes == SubSeq(content[d.file], d.offset + 1, Least(d.offset + length, Len(content[d.file])))
      ok == x \in DOMAIN open /\ d.flags # "wronly" /\ d.offset <= Len(content[d.file])
  IN /\ reply'.ok = ok
     /\ reply'.value = IF ok THEN bytes ELSE <<>>
     /\ open' = IF ok THEN [open EXCEPT ![x].offset = @ + Len(bytes)] ELSE open
     /\ content' = content

Overlay(old, offset, bytes) ==
  [i \in 1 .. (IF offset + Len(bytes) > Len(old) THEN offset + Len(bytes) ELSE Len(old)) |->
     IF i > offset /\ i <= offset + Len(bytes) THEN bytes[i - offset] ELSE old[i]]

(* A file on the volume ends after the bytes that were accepted; the       *)
(* memory file keeps its tail.  A write that fails for want of space may   *)
(* have changed bytes of the file, never its length.                       *)
Write(x, bytes) ==
  LET d == open[x]
      old == content[d.file]
  IN IF x \notin DOMAIN open \/ (d.flags = "rdonly" \/ d.offset > Len(old))
     THEN ~reply'.ok /\ UNCHANGED <<content, open>>
     ELSE \/ \E n \in 0 .. Len(bytes) :
               /\ reply'.ok /\ reply'.value = <<n>>
               /\ d.file \in Fixed => n = Least(Len(bytes), Capacity - d.offset)
               /\ n = 0 => d.file \in Fixed \/ bytes = <<>>
               /\ content' = [content EXCEPT ![d.file] =
                    IF d.file \in Fixed THEN Overlay(old, d.offset, SubSeq(bytes, 1, n))
                    ELSE SubSeq(old, 1, d.offset) \o SubSeq(bytes, 1, n)]
               /\ open' = [open EXCEPT ![x].offset = @ + n]
          \/ /\ ~reply'.ok /\ d.file \notin Fixed /\ bytes # <<>>
             /\ open' = open
             /\ \E n \in 0 .. Len(bytes) :
                  content' = [content EXCEPT ![d.file] =
                    SubSeq(Overlay(old, d.offset, SubSeq(bytes, 1, n)), 1, Len(old))]

Seek(x, offset) ==
  LET ok == x \in DOMAIN open /\ offset <= Len(content[open[x].file])
  IN /\ reply'.ok = ok
     /\ open' = IF ok THEN [open EXCEPT ![x].offset = offset] ELSE open
     /\ content' = content

Close(x) ==
  /\ reply'.ok = (x \in DOMAIN open)
  /\ open' = Drop(open, {x})
  /\ content' = content

(* Every descriptor on the file goes with it, whoever holds it. *)
Unlink(file) ==
  \/ /\ reply'.ok /\ file \in DOMAIN content \ Fixed
     /\ content' = Drop(content, {file})
     /\ open' = Drop(open, On({file}))
  \/ ~reply'.ok /\ UNCHANGED <<content, open>>

Rename(old, new) ==
  \/ /\ reply'.ok /\ old \in DOMAIN content \ Fixed /\ new \notin DOMAIN content
     /\ content' = (new :> content[old]) @@ Drop(content, {old})
     /\ open' = Drop(open, On({old}))
  \/ ~reply'.ok /\ UNCHANGED <<content, open>>

Exit(p) ==
  /\ open' = Drop(open, {x \in DOMAIN open : x[1] = p})
  /\ content' = content

Next ==
  LET c == reply'
      x == <<c.pid, c.args[1]>>
  IN \/ /\ ~damaged'
        /\ CASE c.op = "open" -> Open(c.pid, c.paths[1])
             [] c.op = "read" -> Read(x, c.args[2])
             [] c.op = "write" -> Write(x, Tail(c.args))
             [] c.op = "seek" -> Seek(x, c.args[2])
             [] c.op = "close" -> Close(x)
             [] c.op = "unlink" -> Unlink(c.paths[1])
             [] c.op = "rename" -> Rename(c.paths[1], c.paths[2])
             [] c.op = "exit" -> Exit(c.pid)
             [] OTHER -> UNCHANGED <<content, open>>
     \/ damaged'

Spec == Start /\ [][Next]_vars
=============================================================================
