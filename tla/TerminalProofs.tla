--------------------------- MODULE TerminalProofs ---------------------------
(***************************************************************************)
(* Proofs about kernel_main, the terminal and the interrupts.              *)
(***************************************************************************)
EXTENDS Terminal, NatLemmas

-----------------------------------------------------------------------------
(***************************************************************************)
(* The inductive invariant.                                                *)
(***************************************************************************)

Frame == [handler : Handlers, left : Seq(KeyChars), acked : BOOLEAN]

\* The column is behind the end of its row only between its increment and the
\* wrap; the column that is loaded for the increment is one of the row.
ColumnInRow ==
    /\ at \notin {"check", "wrap"} => terminal_col < Width
    /\ at = "inc_store" => r < Width

\* kernel_main is inside print only at a call of print.
AtPrint == at # "call" => Statement \in DOMAIN Texts

\* The table is loaded before interrupts are enabled.
TableFirst ==
    /\ step > 6 => "idt_init" \in ready
    /\ interrupts \/ frames # <<>> => step > 9

\* One frame at most, with interrupts off, and its level is the only one in
\* service until the handler tells the PIC.
OneFrame ==
    \/ frames = <<>> /\ isr = {}
    \/ \E f \in Frame :
          /\ frames = <<f>> /\ ~interrupts
          /\ f.handler # "fault"
          /\ IF f.acked THEN isr = {} ELSE \E l \in 0..7 : isr = {l}

IInv == TypeOK /\ ColumnInRow /\ AtPrint /\ TableFirst /\ OneFrame

\* The two halves of the invariant: what the terminal reads and writes, and what
\* kernel_main, the processor and the PIC do.
CursorInv ==
    /\ at \in Labels
    /\ x \in 0..Width \cup {None} /\ y \in 0..(UINT16 - 1) \cup {None}
    /\ r \in 0..(UINT16 - 1)
    /\ terminal_row \in 0..(UINT16 - 1) /\ terminal_col \in 0..Width
    /\ torn \in BOOLEAN
    /\ ColumnInRow

MachineInv ==
    /\ step \in 1..Len(kernel_main)
    /\ ready \subseteq Silent /\ interrupts \in BOOLEAN
    /\ \A k \in DOMAIN frames : frames[k].handler \in Handlers /\ frames[k].acked \in BOOLEAN
    /\ irr \subseteq Lines /\ isr \subseteq 0..7 /\ slave_isr \in BOOLEAN
    /\ TableFirst /\ OneFrame

LEMMA Word16 ==
    /\ UINT16 \in Nat /\ UINT16 > 1
    /\ \A n \in Nat : /\ n % UINT16 \in 0..(UINT16 - 1)
                      /\ n < UINT16 => n % UINT16 = n
<1>1. UINT16 \in Nat /\ UINT16 > 1
  BY SMT DEF UINT16
<1>2. QED
  BY <1>1, SMT

LEMMA Statements ==
    ASSUME NEW s \in 1..17
    PROVE  /\ kernel_main[s] \in Silent => s \in {1, 3, 4, 5, 6, 7, 8}
           /\ kernel_main[s] = "enable_interrupts" => s = 9
           /\ kernel_main[s] = "fopen" => s = 10
           /\ kernel_main[s] \in DOMAIN Texts => s \in {2, 11, 12, 13, 14, 15, 16}
           /\ s = 6 => kernel_main[s] = "idt_init"
           /\ Len(kernel_main) = 17
<1>1. /\ kernel_main[1] = "gdt_load" /\ kernel_main[2] = "hello" /\ kernel_main[3] = "kheap_init"
      /\ kernel_main[4] = "fs_init" /\ kernel_main[5] = "disk_search_and_init"
      /\ kernel_main[6] = "idt_init" /\ kernel_main[7] = "tss_load" /\ kernel_main[8] = "paging"
      /\ kernel_main[9] = "enable_interrupts" /\ kernel_main[10] = "fopen"
      /\ kernel_main[11] = "opened" /\ kernel_main[12] = "buf" /\ kernel_main[13] = "fseek"
      /\ kernel_main[14] = "buf" /\ kernel_main[15] = "blank" /\ kernel_main[16] = "closed"
      /\ kernel_main[17] = "loop" /\ Len(kernel_main) = 17
  BY SMT DEF kernel_main
<1>2. \/ s = 1 \/ s = 2 \/ s = 3 \/ s = 4 \/ s = 5 \/ s = 6 \/ s = 7 \/ s = 8 \/ s = 9
      \/ s = 10 \/ s = 11 \/ s = 12 \/ s = 13 \/ s = 14 \/ s = 15 \/ s = 16 \/ s = 17
  BY SMT
<1>3. DOMAIN Texts = {"hello", "opened", "buf", "fseek", "blank", "closed"}
  BY TerminalAssumption
<1>4. QED
  BY <1>1, <1>2, <1>3, SMT DEF Silent

LEMMA InvInit == Init => IInv
<1> SUFFICES ASSUME Init PROVE IInv
  OBVIOUS
<1>1. TypeOK
  <2>1. 1 \in 1..Len(kernel_main)
    BY Statements, SMT
  <2>2. 0 \in 0..(UINT16 - 1) /\ 0 \in 0..Width
    BY TerminalAssumption, Word16, SMT
  <2>3. \A k \in DOMAIN frames : frames[k].handler \in Handlers /\ frames[k].acked \in BOOLEAN
    BY SMT DEF Init
  <2>4. QED
    BY <2>1, <2>2, <2>3 DEF Init, TypeOK, Labels
<1>2. ColumnInRow /\ AtPrint /\ TableFirst /\ OneFrame
  BY TerminalAssumption, SMT DEF Init, ColumnInRow, AtPrint, TableFirst, OneFrame
<1>3. QED
  BY <1>1, <1>2 DEF IInv

LEMMA Halves == IInv <=> CursorInv /\ MachineInv /\ AtPrint
BY DEF IInv, TypeOK, CursorInv, MachineInv

LEMMA HalvesNext == IInv' <=> CursorInv' /\ MachineInv' /\ AtPrint'
BY DEF IInv, TypeOK, CursorInv, MachineInv

-----------------------------------------------------------------------------
(***************************************************************************)
(* terminal_writechar, called by kernel_main.                              *)
(***************************************************************************)
LEMMA MachineUnchanged ==
    ASSUME MachineInv, UNCHANGED mainFixed
    PROVE  MachineInv'
BY DEF MachineInv, TableFirst, OneFrame, mainFixed, picVars, cpuVars

LEMMA WriteCharStep ==
    ASSUME IInv, terminal_writechar
    PROVE  IInv'
<1>a. /\ Width \in Nat /\ 1 <= Width /\ Width < UINT16 /\ UINT16 \in Nat
      /\ CursorInv /\ MachineInv /\ AtPrint
  BY TerminalAssumption, Word16, Halves
<1>b. /\ (r + 1) % UINT16 \in 0..(UINT16 - 1)
      /\ r < Width => (r + 1) % UINT16 = r + 1
  BY <1>a, Word16 DEF CursorInv
<1> USE <1>a
<1> DEFINE Goal == CursorInv' /\ at # "call" /\ UNCHANGED mainFixed
<1>1. ASSUME NewlineLoad PROVE Goal
  BY <1>1, SMT DEF NewlineLoad, At, CursorInv, ColumnInRow, Labels, screenVars, history
<1>2. ASSUME NewlineRow PROVE Goal
  BY <1>2, <1>b, SMT DEF NewlineRow, At, CursorInv, ColumnInRow, Labels, screenVars, history
<1>3. ASSUME NewlineCol PROVE Goal
  BY <1>3, SMT DEF NewlineCol, CharDone, At, CursorInv, ColumnInRow, Labels, screenVars, history
<1>4. ASSUME LoadArguments PROVE Goal
  <2>1. terminal_col \in 0..Width /\ terminal_row \in 0..(UINT16 - 1)
    BY DEF CursorInv
  <2>2. QED
    BY <1>4, <2>1, SMT DEF LoadArguments, At, CursorInv, ColumnInRow, Labels, screenVars, history
<1>5. ASSUME terminal_putchar PROVE Goal
  BY <1>5, SMT DEF terminal_putchar, At, CursorInv, ColumnInRow, Labels, screenVars, history
<1>6. ASSUME ColLoad PROVE Goal
  BY <1>6, SMT DEF ColLoad, At, CursorInv, ColumnInRow, Labels, screenVars, history
<1>7. ASSUME ColStore PROVE Goal
  BY <1>7, <1>b, SMT DEF ColStore, At, CursorInv, ColumnInRow, Labels, screenVars, history
<1>8. ASSUME Check PROVE Goal
  <2>1. CASE terminal_col >= Width
    BY <1>8, <2>1, SMT DEF Check, At, CursorInv, ColumnInRow, Labels, screenVars, history
  <2>2. CASE ~(terminal_col >= Width)
    BY <1>8, <2>2, SMT DEF Check, CharDone, At, CursorInv, ColumnInRow, Labels, screenVars
  <2>3. QED
    BY <2>1, <2>2
<1>9. ASSUME WrapCol PROVE Goal
  BY <1>9, SMT DEF WrapCol, At, CursorInv, ColumnInRow, Labels, screenVars, history
<1>10. ASSUME WrapLoad PROVE Goal
  BY <1>10, SMT DEF WrapLoad, At, CursorInv, ColumnInRow, Labels, screenVars, history
<1>11. ASSUME WrapRow PROVE Goal
  BY <1>11, <1>b, SMT DEF WrapRow, CharDone, At, CursorInv, ColumnInRow, Labels, screenVars, history
<1>12. Goal
  BY <1>1, <1>2, <1>3, <1>4, <1>5, <1>6, <1>7, <1>8, <1>9, <1>10, <1>11 DEF terminal_writechar
<1>13. AtPrint'
  BY <1>12 DEF AtPrint, Statement, mainFixed
<1>14. QED
  BY <1>12, <1>13, MachineUnchanged, HalvesNext

-----------------------------------------------------------------------------
(***************************************************************************)
(* The other steps of kernel_main.                                         *)
(***************************************************************************)
LEMMA CursorUnchanged ==
    ASSUME CursorInv, at' \in Labels, UNCHANGED <<x, y, r, screenVars, history>>,
           at \in {"call", "char"}, at' \in {"call", "char"}
    PROVE  CursorInv'
BY SMT DEF CursorInv, ColumnInRow, Labels, screenVars, history

LEMMA MainStep ==
    ASSUME IInv, SetUp \/ enable_interrupts \/ fopen \/ print \/ PrintReturns
    PROVE  IInv'
<1> USE HalvesNext
<1>a. CursorInv /\ MachineInv /\ AtPrint
  BY Halves
<1>b. step \in 1..17 /\ Len(kernel_main) = 17
  BY <1>a, SMT DEF MachineInv, kernel_main
<1>c. /\ Statement \in Silent => step \in {1, 3, 4, 5, 6, 7, 8}
      /\ Statement = "enable_interrupts" => step = 9
      /\ Statement = "fopen" => step = 10
      /\ Statement \in DOMAIN Texts => step \in {2, 11, 12, 13, 14, 15, 16}
      /\ step = 6 => Statement = "idt_init"
  BY <1>b, Statements DEF Statement
<1>d. TableFirst /\ OneFrame
  BY <1>a DEF MachineInv
<1>e. frames = <<>>
  BY DEF SetUp, enable_interrupts, fopen, print, PrintReturns
<1>1. CASE SetUp
  <2>1. at = "call" /\ at' = "call"
    BY <1>1, <1>a, <1>c, SMT DEF SetUp, AtPrint
  <2>2. step' \in 1..Len(kernel_main) /\ TableFirst'
    BY <1>1, <1>b, <1>c, <1>d, <1>e, SMT DEF SetUp, TableFirst, cpuVars
  <2>3. OneFrame'
    BY <1>1, <1>d DEF SetUp, OneFrame, picVars, cpuVars
  <2>4. MachineInv'
    BY <1>1, <1>a, <2>2, <2>3 DEF SetUp, MachineInv, picVars, cpuVars
  <2>5. CursorInv' /\ AtPrint'
    BY <1>1, <1>a, <2>1, CursorUnchanged DEF SetUp, Labels, AtPrint
  <2>6. QED
    BY <2>4, <2>5
<1>2. CASE enable_interrupts
  <2>1. at = "call" /\ at' = "call"
    BY <1>2, <1>a, <1>c, SMT DEF enable_interrupts, AtPrint
  <2>2. step' \in 1..Len(kernel_main) /\ TableFirst'
    BY <1>2, <1>b, <1>c, <1>d, <1>e, SMT DEF enable_interrupts, TableFirst
  <2>3. OneFrame'
    BY <1>2, <1>d, <1>e DEF enable_interrupts, OneFrame, picVars
  <2>4. MachineInv'
    BY <1>2, <1>a, <2>2, <2>3 DEF enable_interrupts, MachineInv, picVars
  <2>5. CursorInv' /\ AtPrint'
    BY <1>2, <1>a, <2>1, CursorUnchanged DEF enable_interrupts, Labels, AtPrint
  <2>6. QED
    BY <2>4, <2>5
<1>3. CASE fopen
  <2>1. at = "call" /\ at' = "call"
    BY <1>3, <1>a, <1>c, SMT DEF fopen, AtPrint
  <2>2. step' \in 1..Len(kernel_main) /\ TableFirst'
    BY <1>3, <1>b, <1>c, <1>d, <1>e, SMT DEF fopen, TableFirst, cpuVars
  <2>3. OneFrame'
    BY <1>3, <1>d DEF fopen, OneFrame, picVars, cpuVars
  <2>4. MachineInv'
    BY <1>3, <1>a, <2>2, <2>3 DEF fopen, MachineInv, picVars, cpuVars
  <2>5. CursorInv' /\ AtPrint'
    BY <1>3, <1>a, <2>1, CursorUnchanged DEF fopen, Labels, AtPrint
  <2>6. QED
    BY <2>4, <2>5
<1>4. CASE print
  <2>1. MachineInv'
    BY <1>4, <1>a, MachineUnchanged DEF print, mainFixed
  <2>2. CursorInv'
    BY <1>4, <1>a, CursorUnchanged DEF print, Labels
  <2>3. AtPrint'
    BY <1>4 DEF print, AtPrint, Statement
  <2>4. QED
    BY <2>1, <2>2, <2>3
<1>5. CASE PrintReturns
  <2>1. Statement \in DOMAIN Texts
    BY <1>5, <1>a DEF PrintReturns, AtPrint
  <2>2. step' \in 1..Len(kernel_main) /\ TableFirst'
    BY <1>5, <1>b, <1>c, <1>d, <1>e, <2>1, SMT DEF PrintReturns, TableFirst, cpuVars
  <2>3. OneFrame'
    BY <1>5, <1>d DEF PrintReturns, OneFrame, picVars, cpuVars
  <2>4. MachineInv'
    BY <1>5, <1>a, <2>2, <2>3 DEF PrintReturns, MachineInv, picVars, cpuVars
  <2>5. CursorInv' /\ AtPrint'
    BY <1>5, <1>a, CursorUnchanged DEF PrintReturns, Labels, AtPrint
  <2>6. QED
    BY <2>4, <2>5
<1>6. QED
  BY <1>1, <1>2, <1>3, <1>4, <1>5

-----------------------------------------------------------------------------
(***************************************************************************)
(* Interrupts.                                                             *)
(***************************************************************************)
\* What the handlers leave alone of kernel_main and of the cursor's bounds.
LEMMA MainUnchanged ==
    ASSUME CursorInv, AtPrint, UNCHANGED <<mainVars, screenVars>>, torn' \in BOOLEAN
    PROVE  CursorInv' /\ AtPrint'
BY DEF CursorInv, ColumnInRow, AtPrint, Statement, mainVars, screenVars

\* What the type invariant says of the only frame.
LEMMA OneFrameTyped ==
    ASSUME NEW g \in Frame, NEW s, s = <<g>>
    PROVE  \A k \in DOMAIN s : s[k].handler \in Handlers /\ s[k].acked \in BOOLEAN
<1>1. g.handler \in Handlers /\ g.acked \in BOOLEAN
  BY DEF Frame
<1>2. ASSUME NEW k \in DOMAIN s PROVE s[k] = g
  BY <1>2, SMT
<1>3. QED
  BY <1>1, <1>2

LEMMA RaiseStep ==
    ASSUME IInv, NEW q \in Lines, Raise(q)
    PROVE  IInv'
<1>1. CursorInv /\ MachineInv /\ AtPrint
  BY Halves
<1>2. CursorInv' /\ AtPrint'
  BY <1>1, MainUnchanged DEF Raise, history, CursorInv
<1>3. MachineInv'
  BY <1>1 DEF Raise, MachineInv, TableFirst, OneFrame, mainVars, cpuVars
<1>4. QED
  BY <1>2, <1>3, HalvesNext

LEMMA DeliverStep ==
    ASSUME IInv, NEW q \in Lines, Deliver(q)
    PROVE  IInv'
<1>1. CursorInv /\ MachineInv /\ AtPrint
  BY Halves
<1>2. CursorInv' /\ AtPrint'
  <2>1. torn' \in BOOLEAN
    BY <1>1 DEF Deliver, CursorInv
  <2>2. QED
    BY <1>1, <2>1, MainUnchanged DEF Deliver
<1>3. Level(q) \in 0..7
  BY TerminalAssumption, SMT DEF Level, Cascade
<1>4. interrupts /\ frames = <<>> /\ isr = {} /\ "idt_init" \in ready
  BY <1>1, SMT DEF Deliver, MachineInv, OneFrame, TableFirst
<1> DEFINE f == [handler |-> idt_init(q), left |-> IF q = Keyboard THEN KeyText ELSE <<>>,
                 acked |-> FALSE]
<1>5. f \in Frame /\ f.handler # "fault" /\ ~f.acked
  BY TerminalAssumption, SMT DEF Frame, idt_init, Handlers
<1>6. frames' = <<f>> /\ isr' = {Level(q)} /\ interrupts' = FALSE
  BY <1>4, SMT DEF Deliver, idt_set
<1>7. OneFrame'
  BY <1>3, <1>5, <1>6 DEF OneFrame
<1>8. TableFirst'
  BY <1>1, <1>4 DEF Deliver, MachineInv, TableFirst, mainVars
<1>9. MachineInv'
  <2>1. \A k \in DOMAIN frames' : frames'[k].handler \in Handlers /\ frames'[k].acked \in BOOLEAN
    <3> HIDE DEF f
    <3> QED
      BY <1>5, <1>6, OneFrameTyped
  <2>2. irr' \subseteq Lines /\ isr' \subseteq 0..7 /\ slave_isr' \in BOOLEAN
    BY <1>1, <1>3, <1>6 DEF Deliver, MachineInv
  <2>3. QED
    BY <1>1, <1>6, <1>7, <1>8, <2>1, <2>2 DEF Deliver, MachineInv, mainVars
<1>10. QED
  BY <1>2, <1>9, HalvesNext

\* terminal_writechar of a handler leaves the column within its row, wherever
\* it interrupted kernel_main.
LEMMA HandlerWrites ==
    ASSUME CursorInv, NEW c, WriteChar(c)
    PROVE  terminal_row' \in 0..(UINT16 - 1) /\ terminal_col' \in 0..Width /\ terminal_col' < Width
<1>a. /\ Width \in Nat /\ 1 <= Width /\ Width < UINT16 /\ UINT16 \in Nat
      /\ terminal_row \in 0..(UINT16 - 1) /\ terminal_col \in 0..Width
  BY TerminalAssumption, Word16 DEF CursorInv
<1>b. (terminal_row + 1) % UINT16 \in 0..(UINT16 - 1)
  BY <1>a, Word16
<1>c. (terminal_col + 1) % UINT16 \in 0..(UINT16 - 1)
  BY <1>a, Word16
<1>1. CASE c = Newline
  BY <1>1, <1>a, <1>b DEF WriteChar
<1>2. CASE c # Newline /\ (terminal_col + 1) % UINT16 >= Width
  BY <1>2, <1>a, <1>b, <1>c DEF WriteChar
<1>3. CASE c # Newline /\ ~((terminal_col + 1) % UINT16 >= Width)
  BY <1>3, <1>a, <1>b, <1>c DEF WriteChar
<1>4. QED
  BY <1>1, <1>2, <1>3

LEMMA HandlerStep ==
    ASSUME IInv, Handler
    PROVE  IInv'
<1>1. CursorInv /\ MachineInv /\ AtPrint
  BY Halves
<1>2. frames # <<>>
  BY DEF Handler, int21h_handler, Acknowledge, Iret
<1>3. PICK f \in Frame :
        /\ frames = <<f>> /\ ~interrupts /\ f.handler # "fault"
        /\ IF f.acked THEN isr = {} ELSE \E l \in 0..7 : isr = {l}
  BY <1>1, <1>2 DEF MachineInv, OneFrame
<1>4. Len(frames) = 1 /\ Top = f
  BY <1>3, SMT DEF Top
<1>5. step > 9 /\ TableFirst
  BY <1>1, <1>2 DEF MachineInv, TableFirst
<1>6. CASE int21h_handler
  <2> DEFINE g == [f EXCEPT !.left = Tail(@)]
  <2>1. f.left # <<>> /\ frames' = [frames EXCEPT ![1].left = Tail(@)]
    BY <1>4, <1>6 DEF int21h_handler
  <2>2. g \in Frame /\ g.handler = f.handler /\ g.acked = f.acked
    <3>1. f.left \in Seq(KeyChars) /\ Tail(f.left) \in Seq(KeyChars)
      BY <2>1, SMT DEF Frame
    <3>2. QED
      BY <3>1, Zenon DEF Frame
  <2>3. frames' = <<g>>
    BY <1>3, <2>1, SMT
  <2>4. OneFrame' /\ TableFirst'
    <3> HIDE DEF g
    <3> QED
      BY <1>3, <1>5, <1>6, <2>2, <2>3 DEF int21h_handler, OneFrame, TableFirst, picVars, mainVars
  <2>5. \A k \in DOMAIN frames' : frames'[k].handler \in Handlers /\ frames'[k].acked \in BOOLEAN
    <3> HIDE DEF g
    <3> QED
      BY <2>2, <2>3, OneFrameTyped
  <2>6. MachineInv'
    BY <1>1, <1>6, <2>4, <2>5 DEF int21h_handler, MachineInv, picVars, mainVars
  <2>7. terminal_row' \in 0..(UINT16 - 1) /\ terminal_col' \in 0..Width /\ terminal_col' < Width
    BY <1>1, <1>6, HandlerWrites DEF int21h_handler
  <2>8. CursorInv'
    BY <1>1, <1>6, <2>7 DEF int21h_handler, CursorInv, ColumnInRow, mainVars
  <2>9. AtPrint'
    BY <1>1, <1>6 DEF int21h_handler, AtPrint, Statement, mainVars
  <2>10. QED
    BY <2>6, <2>8, <2>9, HalvesNext
<1>7. CASE Acknowledge
  <2> DEFINE g == [f EXCEPT !.acked = TRUE]
  <2>1. ~f.acked /\ frames' = [frames EXCEPT ![1].acked = TRUE]
    BY <1>4, <1>7 DEF Acknowledge
  <2>2. g \in Frame /\ g.handler = f.handler /\ g.acked
    BY Zenon DEF Frame
  <2>3. frames' = <<g>>
    <3>1. frames' = [<<f>> EXCEPT ![1] = g]
      BY <1>3, <2>1
    <3> HIDE DEF g
    <3>2. QED
      BY <3>1, SMT
  <2>4. isr' = {}
    <3>1. PICK l \in 0..7 : isr = {l}
      BY <1>3, <2>1
    <3>2. Min(isr) = l
      BY <3>1, SMT DEF Min
    <3>3. QED
      BY <1>7, <3>1, <3>2 DEF Acknowledge
  <2>5. OneFrame' /\ TableFirst'
    <3> HIDE DEF g
    <3> QED
      BY <1>3, <1>5, <1>7, <2>2, <2>3, <2>4 DEF Acknowledge, OneFrame, TableFirst, mainVars
  <2>6. \A k \in DOMAIN frames' : frames'[k].handler \in Handlers /\ frames'[k].acked \in BOOLEAN
    <3> HIDE DEF g
    <3> QED
      BY <2>2, <2>3, OneFrameTyped
  <2>7. MachineInv'
    BY <1>1, <1>7, <2>4, <2>5, <2>6 DEF Acknowledge, MachineInv, mainVars
  <2>8. CursorInv' /\ AtPrint'
    BY <1>1, <1>7, MainUnchanged DEF Acknowledge, history, CursorInv
  <2>9. QED
    BY <2>7, <2>8, HalvesNext
<1>8. CASE Iret
  <2>1. f.acked /\ isr = {}
    BY <1>3, <1>4, <1>8 DEF Iret
  <2>2. frames' = <<>>
    BY <1>4, <1>3, <1>8, SMT DEF Iret
  <2>3. OneFrame' /\ TableFirst'
    BY <1>5, <1>8, <2>1, <2>2 DEF Iret, OneFrame, TableFirst, picVars, mainVars
  <2>4. \A k \in DOMAIN frames' : frames'[k].handler \in Handlers /\ frames'[k].acked \in BOOLEAN
    BY <2>2, SMT
  <2>5. MachineInv'
    BY <1>1, <1>8, <2>3, <2>4 DEF Iret, MachineInv, picVars, mainVars
  <2>6. CursorInv' /\ AtPrint'
    BY <1>1, <1>8, MainUnchanged DEF Iret, history, CursorInv
  <2>7. QED
    BY <2>5, <2>6, HalvesNext
<1>9. QED
  BY <1>6, <1>7, <1>8 DEF Handler

-----------------------------------------------------------------------------
LEMMA InvNext == IInv /\ [Next]_vars => IInv'
<1> SUFFICES ASSUME IInv, [Next]_vars PROVE IInv'
  OBVIOUS
<1>1. ASSUME NEW q \in Lines, Raise(q) PROVE IInv'
  BY <1>1, RaiseStep
<1>2. ASSUME NEW q \in Lines, Deliver(q) PROVE IInv'
  BY <1>2, DeliverStep
<1>3. CASE UNCHANGED vars
  <2>1. CursorInv /\ MachineInv /\ AtPrint
    BY Halves
  <2>2. MachineInv'
    BY <1>3, <2>1, MachineUnchanged DEF vars, mainFixed, mainVars
  <2>3. CursorInv' /\ AtPrint'
    BY <1>3, <2>1, MainUnchanged DEF vars, history, CursorInv
  <2>4. QED
    BY <2>2, <2>3, HalvesNext
<1>4. QED
  BY <1>1, <1>2, <1>3, WriteCharStep, MainStep, HandlerStep DEF Next, Main, Interrupt

(***************************************************************************)
(* Whatever the screen's size, the texts and the order of the interrupts:  *)
(* every variable keeps its type.  In particular the column that           *)
(* terminal_writechar uses is one of the row or the one behind its end.    *)
(***************************************************************************)
THEOREM TypeCorrect == Spec => []TypeOK
<1>1. IInv => TypeOK
  BY DEF IInv
<1>2. QED
  BY <1>1, InvInit, InvNext, PTL DEF Spec

(***************************************************************************)
(* For any number of requests of any lines: the handlers of idt.c do not   *)
(* nest, none is called before idt_init, and no level of the master is in  *)
(* service when the processor can take an interrupt.                       *)
(***************************************************************************)
THEOREM InterruptsAlwaysSound == Spec => []InterruptsSound
<1>1. IInv => InterruptsSound
  <2> SUFFICES ASSUME IInv PROVE InterruptsSound
    OBVIOUS
  <2>1. CASE frames = <<>> /\ isr = {}
    BY <2>1, SMT DEF InterruptsSound
  <2>2. ASSUME NEW f \in Frame, frames = <<f>>, ~interrupts, f.handler # "fault"
        PROVE  InterruptsSound
    <3>1. Len(frames) = 1 /\ \A k \in DOMAIN frames : frames[k] = f
      BY <2>2, SMT
    <3>2. QED
      BY <2>2, <3>1 DEF InterruptsSound
  <2>3. QED
    BY <2>1, <2>2 DEF IInv, OneFrame
<1>2. QED
  BY <1>1, InvInit, InvNext, PTL DEF Spec

-----------------------------------------------------------------------------
(***************************************************************************)
(* The layout of a text w, as Terminal has it for what was written.        *)
(***************************************************************************)
Start(w, k) == Max({0} \cup {j \in 1..(k - 1) : w[j] = Newline})
Col(w, k) == (k - 1 - Start(w, k)) % Width
Breaks(w, k) == {j \in 1..(k - 1) : w[j] = Newline \/ (j - Start(w, j)) % Width = 0}
Row(w, k) == Cardinality(Breaks(w, k))
Cell(w, k) == Row(w, k) * Width + Col(w, k)

\* m shows the text w and nothing else; every cell of w comes before the one
\* of the next character.
Drawn(w, m) ==
    /\ \A k \in 1..Len(w) : Cell(w, k) < Cell(w, Len(w) + 1)
    /\ \A k \in 1..Len(w) : w[k] # Newline => Cell(w, k) \in DOMAIN m /\ m[Cell(w, k)] = w[k]
    /\ \A cell \in DOMAIN m :
          (\A k \in 1..Len(w) : w[k] # Newline => Cell(w, k) # cell) => m[cell] = Blank

\* Where the next character belongs.
NextRow == Row(written, Len(written) + 1)
NextCol == Col(written, Len(written) + 1)
WithChar == Append(written, Head(text))

\* The arguments that kernel_main has loaded are for a character that is not a
\* newline, and a newline is what it takes the steps of a newline for.
RightBranch ==
    /\ x # None \/ y # None => at = "char" /\ text # <<>> /\ Head(text) # Newline
    /\ at \in {"nl_row", "nl_col"} => Head(text) = Newline
    /\ at \in {"inc", "inc_store", "check", "wrap", "wrap_load", "wrap_row"} => Head(text) # Newline

\* A handler that prints within a terminal_writechar is noticed.
NoneWithin == ~torn /\ Inside => \A k \in DOMAIN frames : frames[k].left = <<>>

\* Screen and cursor at each point of terminal_writechar.
AtChar ==
    /\ Drawn(written, video_mem)
    /\ terminal_row = NextRow /\ terminal_col = NextCol
    /\ x \in {None, NextCol} /\ y \in {None, NextRow}

AtNewline ==
    /\ Drawn(written, video_mem)
    /\ at = "nl_row" => r = NextRow
    /\ at = "nl_col" => terminal_row = (NextRow + 1) % UINT16

AtPut ==
    /\ Drawn(WithChar, video_mem)
    /\ at # "wrap_row" => terminal_row = NextRow
    /\ at = "inc" => terminal_col = NextCol
    /\ at = "inc_store" => r = NextCol
    /\ at = "check" => terminal_col = NextCol + 1
    /\ at \in {"wrap", "wrap_load", "wrap_row"} => NextCol + 1 = Width
    /\ at \in {"wrap_load", "wrap_row"} => terminal_col = 0
    /\ at = "wrap_row" => r = NextRow

Shown ==
    /\ at \in {"call", "char"} => AtChar
    /\ at \in {"nl_row", "nl_col"} => AtNewline
    /\ at \notin {"call", "char", "nl_row", "nl_col"} => AtPut

ScreenInv ==
    /\ \E S : written \in Seq(S)
    /\ RightBranch /\ NoneWithin
    /\ ~torn /\ NextRow < UINT16 => Shown

LEMMA WidthFacts == Width \in Nat \ {0} /\ Width < UINT16 /\ UINT16 \in Nat
BY TerminalAssumption, Word16

LEMMA StartFacts ==
    ASSUME NEW w, NEW k \in Nat \ {0}
    PROVE  /\ Start(w, k) \in 0..(k - 1)
           /\ Start(w, k + 1) = IF w[k] = Newline THEN k ELSE Start(w, k)
<1> DEFINE Ends(m) == {0} \cup {j \in 1..(m - 1) : w[j] = Newline}
<1>1. ASSUME NEW m \in Nat \ {0}
      PROVE  Start(w, m) \in Ends(m) /\ Start(w, m) \in 0..(m - 1) /\ \A j \in Ends(m) : j <= Start(w, m)
  <2>1. Ends(m) \in SUBSET 0..(m - 1) /\ Ends(m) # {} /\ m - 1 \in Nat
    OBVIOUS
  <2>2. Start(w, m) = Max(Ends(m))
    BY DEF Start
  <2>3. QED
    <3> HIDE DEF Ends
    <3> QED
      BY <2>1, <2>2, MaxOf
<1>2. CASE w[k] = Newline
  <2>1. k \in Ends(k + 1)
    BY <1>2
  <2>2. k <= Start(w, k + 1) /\ Start(w, k + 1) <= k /\ Start(w, k + 1) \in Int
    BY <1>1, <2>1
  <2>3. QED
    BY <1>1, <1>2, <2>2
<1>3. CASE w[k] # Newline
  <2>1. Ends(k + 1) = Ends(k)
    BY <1>3
  <2>2. QED
    BY <1>1, <1>3, <2>1 DEF Start
<1>4. QED
  BY <1>2, <1>3

\* The column of the next character.
LEMMA ColFacts ==
    ASSUME NEW w, NEW k \in Nat \ {0}
    PROVE  /\ Col(w, k) \in 0..(Width - 1)
           /\ (k - Start(w, k)) % Width = IF Col(w, k) + 1 = Width THEN 0 ELSE Col(w, k) + 1
           /\ Col(w, k + 1) = IF w[k] = Newline \/ Col(w, k) + 1 = Width THEN 0 ELSE Col(w, k) + 1
<1> DEFINE d == k - 1 - Start(w, k)
<1>a. Width \in Nat \ {0}
  BY WidthFacts
<1>b. Start(w, k) \in 0..(k - 1) /\ d \in Nat
  BY StartFacts
<1>c. Col(w, k) = d % Width /\ d + 1 = k - Start(w, k)
  BY <1>b DEF Col
<1> HIDE DEF d
<1>1. d % Width \in 0..(Width - 1) /\ d = Width * (d \div Width) + (d % Width) /\ d \div Width \in Int
  <2>1. d \in Int
    BY <1>b
  <2>2. QED
    BY <1>a, <2>1, DivMod, Zenon
<1>2. (d + 1) % Width = IF (d % Width) + 1 = Width THEN 0 ELSE (d % Width) + 1
  <2>1. CASE (d % Width) + 1 = Width
    <3>1. d + 1 = Width * ((d \div Width) + 1) + 0
      BY <1>a, <1>1, <2>1, MulLess
    <3>2. (Width * ((d \div Width) + 1) + 0) % Width = 0
      <4>1. (d \div Width) + 1 \in Int /\ 0 \in 0..(Width - 1)
        BY <1>a, <1>1
      <4>2. QED
        BY <1>a, <4>1, DivModUnique, Zenon
    <3>3. QED
      BY <2>1, <3>1, <3>2, Zenon
  <2>2. CASE (d % Width) + 1 # Width
    <3>1. (d % Width) + 1 \in 0..(Width - 1) /\ d + 1 = Width * (d \div Width) + ((d % Width) + 1)
      BY <1>a, <1>b, <1>1, <2>2, MulLess
    <3>2. (Width * (d \div Width) + ((d % Width) + 1)) % Width = (d % Width) + 1
      BY <1>a, <1>1, <3>1, DivModUnique, Zenon
    <3>3. QED
      BY <2>2, <3>1, <3>2, Zenon
  <2>3. QED
    BY <2>1, <2>2
<1>4. CASE w[k] = Newline
  <2>1. Col(w, k + 1) = 0 % Width
    BY <1>4, StartFacts DEF Col
  <2>2. 0 % Width = 0
    BY <1>a, ModSmall
  <2>3. QED
    BY <1>1, <1>2, <1>c, <1>4, <2>1, <2>2
<1>5. CASE w[k] # Newline
  <2>1. Col(w, k + 1) = (d + 1) % Width
    BY <1>b, <1>5, StartFacts DEF Col, d
  <2>2. QED
    BY <1>1, <1>2, <1>c, <1>5, <2>1
<1>6. QED
  BY <1>4, <1>5

\* The row of the next character.
LEMMA RowFacts ==
    ASSUME NEW w, NEW k \in Nat \ {0}
    PROVE  /\ Row(w, k) \in Nat
           /\ Row(w, k + 1) = IF w[k] = Newline \/ Col(w, k) + 1 = Width
                              THEN Row(w, k) + 1 ELSE Row(w, k)
<1>1. IsFiniteSet(Breaks(w, k)) /\ k \notin Breaks(w, k)
  <2>1. Breaks(w, k) \in SUBSET 1..(k - 1) /\ k - 1 \in Int /\ k \notin 1..(k - 1)
    BY DEF Breaks
  <2>2. QED
    BY <2>1, FS_Interval, FS_Subset
<1>2. Row(w, k) \in Nat
  BY <1>1, FS_CardinalityType DEF Row
<1> DEFINE full == w[k] = Newline \/ Col(w, k) + 1 = Width
<1>3. full <=> w[k] = Newline \/ (k - Start(w, k)) % Width = 0
  BY ColFacts
<1>4. CASE full
  <2>1. Breaks(w, k + 1) = Breaks(w, k) \cup {k}
    BY <1>3, <1>4 DEF Breaks
  <2>2. QED
    BY <1>1, <1>2, <1>4, <2>1, FS_AddElement DEF Row
<1>5. CASE ~full
  <2>1. Breaks(w, k + 1) = Breaks(w, k)
    BY <1>3, <1>5 DEF Breaks
  <2>2. QED
    BY <1>2, <1>5, <2>1 DEF Row
<1>6. QED
  BY <1>4, <1>5

\* A character belongs behind the one before it.
LEMMA CellFacts ==
    ASSUME NEW w, NEW k \in Nat \ {0}
    PROVE  Cell(w, k) \in Nat /\ Cell(w, k) < Cell(w, k + 1)
<1>a. Width \in Nat \ {0}
  BY WidthFacts
<1>1. /\ Row(w, k) \in Nat /\ Col(w, k) \in 0..(Width - 1)
      /\ Row(w, k + 1) = IF w[k] = Newline \/ Col(w, k) + 1 = Width THEN Row(w, k) + 1 ELSE Row(w, k)
      /\ Col(w, k + 1) = IF w[k] = Newline \/ Col(w, k) + 1 = Width THEN 0 ELSE Col(w, k) + 1
  BY ColFacts, RowFacts
<1>2. /\ Row(w, k) * Width \in Nat
      /\ (Row(w, k) + 1) * Width = Row(w, k) * Width + Width
  <2> HIDE DEF Row
  <2>1. ASSUME NEW a \in Nat, NEW b \in Nat PROVE a * b \in Nat /\ (a + 1) * b = a * b + b
    BY <2>1, SMT
  <2>2. QED
    BY <1>a, <1>1, <2>1
<1>3. QED
  BY <1>a, <1>1, <1>2 DEF Cell

\* The layout of a character depends only on what comes before it.
LEMMA SamePrefix ==
    ASSUME NEW v, NEW w, NEW n \in Nat, \A j \in 1..n : v[j] = w[j],
           NEW k \in 1..(n + 1)
    PROVE  Row(v, k) = Row(w, k) /\ Col(v, k) = Col(w, k) /\ Cell(v, k) = Cell(w, k)
<1>1. ASSUME NEW m \in 1..(n + 1) PROVE Start(v, m) = Start(w, m)
  <2>1. {j \in 1..(m - 1) : v[j] = Newline} = {j \in 1..(m - 1) : w[j] = Newline}
    <3>1. \A j \in 1..(m - 1) : v[j] = w[j]
      OBVIOUS
    <3>2. QED
      BY <3>1
  <2>2. QED
    BY <2>1 DEF Start
<1>2. Breaks(v, k) = Breaks(w, k)
  <2>1. \A j \in 1..(k - 1) : v[j] = w[j] /\ Start(v, j) = Start(w, j)
    BY <1>1
  <2>2. QED
    BY <2>1 DEF Breaks
<1>3. QED
  BY <1>1, <1>2 DEF Row, Col, Cell

\* The text with one more character.
LEMMA AppendFacts ==
    ASSUME NEW S, NEW w \in Seq(S), NEW c
    PROVE  LET v == Append(w, c)
           IN  /\ Len(w) \in Nat /\ v \in Seq(S \cup {c}) /\ Len(v) = Len(w) + 1
               /\ \A j \in 1..Len(w) : v[j] = w[j]
               /\ v[Len(w) + 1] = c
<1>1. w \in Seq(S \cup {c}) /\ c \in S \cup {c}
  BY SMT
<1> DEFINE T == S \cup {c}
<1> HIDE DEF T
<1>2. w \in Seq(T) /\ c \in T
  BY <1>1 DEF T
<1>3. QED
  BY <1>2, SMT DEF T

LEMMA AppendLayout ==
    ASSUME NEW S, NEW w \in Seq(S), NEW c
    PROVE  LET v == Append(w, c)
               n == Len(w)
               full == c = Newline \/ Col(w, n + 1) + 1 = Width
           IN  /\ n \in Nat /\ Len(v) = n + 1
               /\ \A k \in 1..(n + 1) : Cell(v, k) = Cell(w, k)
               /\ Row(v, n + 2) = IF full THEN Row(w, n + 1) + 1 ELSE Row(w, n + 1)
               /\ Col(v, n + 2) = IF full THEN 0 ELSE Col(w, n + 1) + 1
               /\ Row(w, n + 1) \in Nat /\ Col(w, n + 1) \in 0..(Width - 1)
               /\ Cell(w, n + 1) < Cell(v, n + 2)
               /\ \A k \in 1..(n + 2) : Cell(v, k) \in Nat
<1> DEFINE v == Append(w, c)
           n == Len(w)
<1>1. n \in Nat /\ Len(v) = n + 1 /\ (\A j \in 1..n : v[j] = w[j]) /\ v[n + 1] = c
  BY AppendFacts
<1> HIDE DEF v, n
<1>2. n + 1 \in Nat \ {0} /\ (n + 1) + 1 = n + 2 /\ n + 1 \in 1..(n + 1)
  BY <1>1
<1>3. \A k \in 1..(n + 1) : Row(v, k) = Row(w, k) /\ Col(v, k) = Col(w, k) /\ Cell(v, k) = Cell(w, k)
  BY <1>1, SamePrefix
<1>4. Row(v, n + 1) \in Nat /\ Col(v, n + 1) \in 0..(Width - 1) /\ Cell(v, n + 1) < Cell(v, n + 2)
  BY <1>2, RowFacts, ColFacts, CellFacts
<1>5. /\ Row(v, n + 2) = IF c = Newline \/ Col(v, n + 1) + 1 = Width
                         THEN Row(v, n + 1) + 1 ELSE Row(v, n + 1)
      /\ Col(v, n + 2) = IF c = Newline \/ Col(v, n + 1) + 1 = Width THEN 0 ELSE Col(v, n + 1) + 1
  <2>1. v[n + 1] = c
    BY <1>1
  <2>2. QED
    BY <1>2, <2>1, RowFacts, ColFacts
<1>6. \A k \in 1..(n + 2) : Cell(v, k) \in Nat
  <2>1. \A k \in 1..(n + 2) : k \in Nat \ {0}
    BY <1>1
  <2>2. QED
    BY <2>1, CellFacts
<1>7. Row(v, n + 1) = Row(w, n + 1) /\ Col(v, n + 1) = Col(w, n + 1) /\ Cell(v, n + 1) = Cell(w, n + 1)
  BY <1>2, <1>3
<1>8. QED
  BY <1>1, <1>3, <1>4, <1>5, <1>6, <1>7 DEF v, n

\* A character is drawn where it belongs; a newline is not drawn.
LEMMA DrawnNext ==
    ASSUME NEW S, NEW w \in Seq(S), NEW c, NEW m, Drawn(w, m),
           NEW p, p = [q \in DOMAIN m \cup {Cell(w, Len(w) + 1)} |->
                          IF q = Cell(w, Len(w) + 1) THEN c ELSE m[q]]
    PROVE  /\ c = Newline => Drawn(Append(w, c), m)
           /\ c # Newline => Drawn(Append(w, c), p)
<1> DEFINE v == Append(w, c)
           n == Len(w)
<1>1. n \in Nat /\ Len(v) = n + 1 /\ (\A j \in 1..n : v[j] = w[j]) /\ v[n + 1] = c
  BY AppendFacts
<1>2. /\ \A k \in 1..(n + 1) : Cell(v, k) = Cell(w, k) /\ Cell(v, k) \in Nat
      /\ Cell(v, n + 1) < Cell(v, n + 2) /\ Cell(v, n + 2) \in Nat
  BY <1>1, AppendLayout
<1>3. /\ \A k \in 1..n : Cell(w, k) < Cell(w, n + 1)
      /\ \A k \in 1..n : w[k] # Newline => Cell(w, k) \in DOMAIN m /\ m[Cell(w, k)] = w[k]
      /\ \A cell \in DOMAIN m : (\A k \in 1..n : w[k] # Newline => Cell(w, k) # cell) => m[cell] = Blank
  BY DEF Drawn
<1> HIDE DEF v, n
<1>4. \A k \in 1..(n + 1) : k = n + 1 \/ k \in 1..n
  BY <1>1
<1>5. \A k \in 1..n : k \in 1..(n + 1) /\ Cell(v, k) < Cell(v, n + 1)
  BY <1>1, <1>2, <1>3
<1>6. \A k \in 1..(n + 1) : Cell(v, k) < Cell(v, n + 2)
  <2>1. n + 1 \in 1..(n + 1)
    BY <1>1
  <2>2. QED
    BY <1>2, <1>4, <1>5, <2>1
<1>7. ASSUME c = Newline PROVE Drawn(v, m)
  <2>1. \A k \in 1..(n + 1) : v[k] # Newline => Cell(v, k) \in DOMAIN m /\ m[Cell(v, k)] = v[k]
    BY <1>1, <1>2, <1>3, <1>4, <1>5, <1>7
  <2>2. ASSUME NEW cell \in DOMAIN m, \A k \in 1..(n + 1) : v[k] # Newline => Cell(v, k) # cell
        PROVE  m[cell] = Blank
    BY <1>1, <1>2, <1>3, <1>5, <2>2
  <2>3. QED
    BY <1>1, <1>6, <2>1, <2>2 DEF Drawn
<1>8. ASSUME c # Newline PROVE Drawn(v, p)
  <2>0. Cell(w, n + 1) = Cell(v, n + 1) /\ n + 1 \in 1..(n + 1)
    BY <1>1, <1>2
  <2>1. p = [q \in DOMAIN m \cup {Cell(v, n + 1)} |-> IF q = Cell(v, n + 1) THEN c ELSE m[q]]
    BY <2>0 DEF n
  <2>2. ASSUME NEW cell \in DOMAIN p, \A k \in 1..(n + 1) : v[k] # Newline => Cell(v, k) # cell
        PROVE  p[cell] = Blank
    <3>1. Cell(v, n + 1) # cell
      BY <1>1, <1>8, <2>0, <2>2
    <3>2. cell \in DOMAIN m /\ p[cell] = m[cell]
      BY <2>1, <2>2, <3>1
    <3>3. QED
      BY <1>1, <1>2, <1>3, <1>5, <2>2, <3>2
  <2>3. ASSUME NEW k \in 1..(n + 1), v[k] # Newline PROVE Cell(v, k) \in DOMAIN p /\ p[Cell(v, k)] = v[k]
    <3>1. CASE k = n + 1
      BY <1>1, <2>1, <3>1
    <3>2. CASE k \in 1..n
      <4>1. Cell(v, k) # Cell(v, n + 1) /\ v[k] = w[k] /\ Cell(v, k) = Cell(w, k)
        BY <1>1, <1>2, <1>5, <2>0, <3>2
      <4>2. Cell(v, k) \in DOMAIN m /\ m[Cell(v, k)] = v[k]
        BY <1>3, <2>3, <3>2, <4>1
      <4>3. QED
        BY <2>1, <4>1, <4>2
    <3>3. QED
      BY <1>4, <3>1, <3>2
  <2>4. Len(v) = n + 1 /\ Len(v) + 1 = n + 2
    BY <1>1
  <2>5. QED
    BY <1>6, <2>2, <2>3, <2>4, Zenon DEF Drawn
<1>9. QED
  BY <1>7, <1>8 DEF v

-----------------------------------------------------------------------------
(***************************************************************************)
(* The screen at every point of terminal_writechar.                        *)
(***************************************************************************)
LEMMA NextCharFacts ==
    ASSUME NEW S, written \in Seq(S)
    PROVE  NextRow \in Nat /\ NextCol \in 0..(Width - 1)
<1>1. Len(written) + 1 \in Nat \ {0}
  BY SMT
<1>2. QED
  BY <1>1, RowFacts, ColFacts DEF NextRow, NextCol

LEMMA SameText ==
    ASSUME UNCHANGED written
    PROVE  NextRow' = NextRow /\ NextCol' = NextCol
BY DEF NextRow, NextCol

\* What a character that is done does to the text.
LEMMA CharWritten ==
    ASSUME NEW S, written \in Seq(S), NEW c, ~torn, Written(c)
    PROVE  LET full == c = Newline \/ NextCol + 1 = Width
           IN  /\ NextRow \in Nat /\ NextCol \in 0..(Width - 1)
               /\ NextRow' = IF full THEN NextRow + 1 ELSE NextRow
               /\ NextCol' = IF full THEN 0 ELSE NextCol + 1
               /\ written' = Append(written, c)
<1>1. written' = Append(written, c)
  BY DEF Written
<1>2. Len(written) \in Nat /\ Len(written') = Len(written) + 1 /\ Len(written') + 1 = Len(written) + 2
  BY <1>1, AppendFacts
<1>3. QED
  BY <1>1, <1>2, AppendLayout DEF NextRow, NextCol

\* What was written stays a sequence.
LEMMA WrittenTyped ==
    ASSUME \E S : written \in Seq(S), NEW c, Written(c)
    PROVE  \E S : written' \in Seq(S)
<1>1. PICK S : written \in Seq(S)
  OBVIOUS
<1>2. CASE torn
  <2>1. written' = <<>>
    BY <1>2 DEF Written
  <2>2. <<>> \in Seq(S)
    BY SMT
  <2>3. QED
    BY <2>1, <2>2
<1>3. CASE ~torn
  <2>1. written' = Append(written, c)
    BY <1>3 DEF Written
  <2>2. Append(written, c) \in Seq(S \cup {c})
    BY <1>1, AppendFacts
  <2>3. QED
    BY <2>1, <2>2
<1>4. QED
  BY <1>2, <1>3

LEMMA ScreenInit == Init => ScreenInv
<1> SUFFICES ASSUME Init PROVE ScreenInv
  OBVIOUS
<1>1. written \in Seq({}) /\ Len(written) = 0
  BY SMT DEF Init
<1>2. RightBranch /\ NoneWithin
  BY DEF Init, RightBranch, NoneWithin, Inside
<1>3. NextRow = 0
  <2>1. Breaks(written, 1) = {}
    BY DEF Breaks
  <2>2. QED
    BY <1>1, <2>1, FS_EmptySet DEF NextRow, Row
<1>4. NextCol = 0
  <2>1. Start(written, 1) \in 0..0
    BY StartFacts
  <2>2. Col(written, 1) = 0 % Width
    BY <2>1 DEF Col
  <2>3. QED
    BY <1>1, <2>2, WidthFacts, ModSmall DEF NextCol
<1>5. Drawn(written, video_mem)
  BY <1>1 DEF Init, Drawn
<1>6. Shown
  BY <1>3, <1>4, <1>5 DEF Init, Shown, AtChar
<1>7. QED
  BY <1>1, <1>2, <1>6 DEF ScreenInv

\* The steps that leave the text alone.
LEMMA SilentScreenStep ==
    ASSUME IInv, ScreenInv, frames = <<>>, UNCHANGED <<text, history, frames>>,
           \/ NewlineLoad \/ NewlineRow \/ LoadArguments \/ terminal_putchar
           \/ ColLoad \/ ColStore \/ (Check /\ terminal_col >= Width) \/ WrapCol \/ WrapLoad
    PROVE  ScreenInv'
<1>a. /\ Width \in Nat \ {0} /\ Width < UINT16 /\ UINT16 \in Nat
      /\ CursorInv /\ RightBranch
  BY WidthFacts, Halves DEF ScreenInv
<1>1. PICK S : written \in Seq(S)
  BY DEF ScreenInv
<1>2. NextRow \in Nat /\ NextCol \in 0..(Width - 1)
  BY <1>1, NextCharFacts
<1>3. NextRow' = NextRow /\ NextCol' = NextCol /\ WithChar' = WithChar /\ written' = written /\ torn' = torn
  BY SameText DEF history, WithChar
<1>4. NoneWithin'
  BY SMT DEF NoneWithin
<1> DEFINE Goal == RightBranch' /\ (~torn /\ NextRow < UINT16 => Shown')
<1>5. ~torn /\ NextRow < UINT16 => Shown
  BY DEF ScreenInv
<1> USE <1>3, <1>5
<1>11. ASSUME NewlineLoad PROVE Goal
  BY <1>11, <1>a DEF NewlineLoad, At, RightBranch, Shown, AtChar, AtNewline, screenVars
<1>12. ASSUME NewlineRow PROVE Goal
  BY <1>12, <1>a DEF NewlineRow, At, RightBranch, Shown, AtNewline
<1>13. ASSUME LoadArguments PROVE Goal
  BY <1>13, <1>a DEF LoadArguments, At, RightBranch, Shown, AtChar, screenVars
<1>14. ASSUME terminal_putchar PROVE Goal
  <2>1. RightBranch' /\ at = "char" /\ at' = "inc" /\ Head(text) # Newline
    BY <1>14, <1>a DEF terminal_putchar, At, RightBranch
  <2>2. ASSUME ~torn, NextRow < UINT16 PROVE Shown'
    <3>1. AtChar /\ x = NextCol /\ y = NextRow
      BY <1>14, <2>1, <2>2 DEF terminal_putchar, Shown, AtChar
    <3>2. y * Width + x = Cell(written, Len(written) + 1)
      BY <3>1 DEF Cell, NextRow, NextCol
    <3>3. Drawn(WithChar, video_mem')
      BY <1>1, <1>14, <2>1, <3>1, <3>2, DrawnNext DEF terminal_putchar, Stored, AtChar, WithChar
    <3>4. QED
      BY <1>14, <2>1, <3>1, <3>3 DEF terminal_putchar, Shown, AtPut, AtChar
  <2>3. QED
    BY <2>1, <2>2
<1>15. ASSUME ColLoad PROVE Goal
  BY <1>15, <1>a DEF ColLoad, At, RightBranch, Shown, AtPut, screenVars
<1>16. ASSUME ColStore PROVE Goal
  <2>1. NextCol + 1 \in Nat /\ NextCol + 1 < UINT16
    BY <1>a, <1>2
  <2>2. (NextCol + 1) % UINT16 = NextCol + 1
    BY <2>1, Word16
  <2>3. QED
    BY <1>16, <1>a, <2>2 DEF ColStore, At, RightBranch, Shown, AtPut
<1>17. ASSUME Check, terminal_col >= Width PROVE Goal
  <2>1. at = "check" /\ at' = "wrap" /\ UNCHANGED <<x, y, r, screenVars>>
    BY <1>17 DEF Check, At
  <2>2. QED
    BY <1>17, <1>a, <1>2, <2>1 DEF RightBranch, Shown, AtPut, screenVars
<1>18. ASSUME WrapCol PROVE Goal
  BY <1>18, <1>a DEF WrapCol, At, RightBranch, Shown, AtPut
<1>19. ASSUME WrapLoad PROVE Goal
  BY <1>19, <1>a DEF WrapLoad, At, RightBranch, Shown, AtPut, screenVars
<1>20. QED
  BY <1>1, <1>4, <1>11, <1>12, <1>13, <1>14, <1>15, <1>16, <1>17, <1>18, <1>19 DEF ScreenInv

\* The last step of a character.
LEMMA DoneScreenStep ==
    ASSUME IInv, ScreenInv, frames = <<>>, UNCHANGED <<frames, x, y>>, CharDone,
           NewlineCol \/ (Check /\ ~(terminal_col >= Width)) \/ WrapRow
    PROVE  ScreenInv'
<1>a. Width \in Nat \ {0} /\ Width < UINT16 /\ UINT16 \in Nat /\ CursorInv /\ RightBranch
  BY WidthFacts, Halves DEF ScreenInv
<1>1. PICK S : written \in Seq(S)
  BY DEF ScreenInv
<1>2. at' = "char" /\ at \notin {"call", "char"} /\ torn' = torn /\ Written(Head(text))
  BY DEF CharDone, NewlineCol, Check, WrapRow, At
<1>3. RightBranch' /\ NoneWithin' /\ x = None /\ y = None
  BY <1>a, <1>2, SMT DEF RightBranch, NoneWithin
<1>4. \E T : written' \in Seq(T)
  BY <1>1, <1>2, WrittenTyped
<1>5. ASSUME ~torn, NextRow' < UINT16 PROVE Shown'
  <2> DEFINE full == Head(text) = Newline \/ NextCol + 1 = Width
  <2>1. /\ NextRow \in Nat /\ NextCol \in 0..(Width - 1)
        /\ NextRow' = IF full THEN NextRow + 1 ELSE NextRow
        /\ NextCol' = IF full THEN 0 ELSE NextCol + 1
        /\ written' = WithChar
    BY <1>1, <1>2, <1>5, CharWritten DEF WithChar
  <2>2. NextRow < UINT16 /\ Shown
    BY <1>a, <1>5, <2>1 DEF ScreenInv
  <2>3. (NextRow + 1) % UINT16 = NextRow + 1 \/ ~full
    BY <1>a, <1>5, <2>1, Word16
  <2>4. CASE NewlineCol
    <3>1. at = "nl_col" /\ Head(text) = Newline /\ terminal_col' = 0
          /\ terminal_row' = terminal_row /\ video_mem' = video_mem
      BY <1>a, <2>4 DEF NewlineCol, At, RightBranch
    <3>2. Drawn(written, video_mem) /\ terminal_row = (NextRow + 1) % UINT16
      BY <2>2, <3>1 DEF Shown, AtNewline
    <3>3. Drawn(WithChar, video_mem)
      BY <1>1, <3>1, <3>2, DrawnNext DEF WithChar
    <3>4. QED
      BY <1>2, <1>3, <2>1, <2>3, <3>1, <3>2, <3>3 DEF Shown, AtChar
  <2>5. CASE Check /\ ~(terminal_col >= Width)
    <3>1. at = "check" /\ UNCHANGED screenVars /\ Head(text) # Newline
      BY <1>a, <2>5 DEF Check, At, RightBranch
    <3>2. Drawn(WithChar, video_mem) /\ terminal_row = NextRow /\ terminal_col = NextCol + 1
      BY <2>2, <3>1 DEF Shown, AtPut
    <3>3. ~full
      BY <2>5, <3>1, <3>2, <1>a, <2>1
    <3>4. QED
      BY <1>2, <1>3, <2>1, <3>1, <3>2, <3>3 DEF Shown, AtChar, screenVars
  <2>6. CASE WrapRow
    <3>1. at = "wrap_row" /\ terminal_row' = (r + 1) % UINT16
          /\ terminal_col' = terminal_col /\ video_mem' = video_mem
      BY <2>6 DEF WrapRow, At
    <3>2. Drawn(WithChar, video_mem) /\ full /\ r = NextRow /\ terminal_col = 0
      BY <2>2, <3>1 DEF Shown, AtPut
    <3>3. QED
      BY <1>2, <1>3, <2>1, <2>3, <3>1, <3>2 DEF Shown, AtChar
  <2>7. QED
    BY <2>4, <2>5, <2>6
<1>6. QED
  BY <1>2, <1>3, <1>4, <1>5 DEF ScreenInv

LEMMA ScreenWriteChar ==
    ASSUME IInv, ScreenInv, terminal_writechar
    PROVE  ScreenInv'
<1>1. frames = <<>> /\ UNCHANGED frames
  BY DEF terminal_writechar, NewlineLoad, NewlineRow, NewlineCol, LoadArguments, terminal_putchar,
         ColLoad, ColStore, Check, WrapCol, WrapLoad, WrapRow, At, mainFixed, cpuVars
<1>2. ASSUME NewlineCol \/ (Check /\ ~(terminal_col >= Width)) \/ WrapRow PROVE ScreenInv'
  <2>1. CharDone /\ UNCHANGED <<x, y>>
    BY <1>2 DEF NewlineCol, Check, WrapRow
  <2>2. QED
    BY <1>1, <1>2, <2>1, DoneScreenStep
<1>3. ASSUME \/ NewlineLoad \/ NewlineRow \/ LoadArguments \/ terminal_putchar
             \/ ColLoad \/ ColStore \/ (Check /\ terminal_col >= Width) \/ WrapCol \/ WrapLoad
      PROVE  ScreenInv'
  <2>1. UNCHANGED <<text, history>>
    BY <1>3 DEF NewlineLoad, NewlineRow, LoadArguments, terminal_putchar, ColLoad, ColStore, Check,
                WrapCol, WrapLoad
  <2>2. QED
    BY <1>1, <1>3, <2>1, SilentScreenStep
<1>4. QED
  BY <1>2, <1>3 DEF terminal_writechar

\* The steps of kernel_main between two characters.
LEMMA ScreenMain ==
    ASSUME IInv, ScreenInv, SetUp \/ enable_interrupts \/ fopen \/ print \/ PrintReturns
    PROVE  ScreenInv'
<1>1. /\ frames = <<>> /\ UNCHANGED <<x, y, r, screenVars, history>> /\ UNCHANGED frames
      /\ \/ at' = at /\ text' = text
         \/ at \in {"call", "char"} /\ at' \in {"call", "char"}
  BY DEF SetUp, enable_interrupts, fopen, print, PrintReturns, cpuVars
<1>2. RightBranch'
  <2>1. CASE at' = at /\ text' = text
    BY <1>1, <2>1 DEF ScreenInv, RightBranch
  <2>2. CASE print \/ PrintReturns
    <3>1. x = None /\ y = None
      BY <2>2 DEF ScreenInv, RightBranch, print, PrintReturns
    <3>2. at' \in {"call", "char"}
      BY <2>2 DEF print, PrintReturns
    <3>3. QED
      BY <1>1, <3>1, <3>2 DEF RightBranch
  <2>3. QED
    BY <2>1, <2>2 DEF SetUp, enable_interrupts, fopen
<1>3. NoneWithin'
  BY <1>1, SMT DEF NoneWithin
<1>4. UNCHANGED <<written, torn>> /\ NextRow' = NextRow /\ NextCol' = NextCol
  BY <1>1, SameText DEF history
<1>5. ASSUME Shown PROVE Shown'
  <2>1. CASE at' = at /\ text' = text
    <3>1. WithChar' = WithChar
      BY <1>4, <2>1 DEF WithChar
    <3>2. QED
      BY <1>1, <1>4, <1>5, <2>1, <3>1 DEF Shown, AtChar, AtNewline, AtPut, screenVars
  <2>2. CASE at \in {"call", "char"} /\ at' \in {"call", "char"}
    BY <1>1, <1>4, <1>5, <2>2 DEF Shown, AtChar, screenVars
  <2>3. QED
    BY <1>1, <2>1, <2>2
<1>6. QED
  BY <1>2, <1>3, <1>4, <1>5 DEF ScreenInv

\* What leaves kernel_main, the screen and the text alone.
LEMMA ScreenSame ==
    ASSUME ScreenInv, UNCHANGED <<mainVars, screenVars, written>>, NoneWithin', torn' = torn
    PROVE  ScreenInv'
<1>1. NextRow' = NextRow /\ NextCol' = NextCol /\ WithChar' = WithChar
  BY SameText DEF WithChar, mainVars
<1>2. RightBranch'
  BY DEF ScreenInv, RightBranch, mainVars
<1>3. ASSUME Shown PROVE Shown'
  BY <1>1, <1>3 DEF Shown, AtChar, AtNewline, AtPut, mainVars, screenVars
<1>4. QED
  BY <1>1, <1>2, <1>3 DEF ScreenInv

LEMMA ScreenDeliver ==
    ASSUME IInv, ScreenInv, NEW q \in Lines, Deliver(q)
    PROVE  ScreenInv'
<1>1. interrupts /\ frames = <<>>
  BY SMT DEF Deliver, IInv, OneFrame
<1>2. torn \in BOOLEAN /\ torn' = (torn \/ (q = Keyboard /\ Inside)) /\ (Inside' <=> Inside)
  BY DEF IInv, TypeOK, Deliver, Inside, mainVars
<1>3. NoneWithin'
  <2> SUFFICES ASSUME ~torn', Inside' PROVE \A k \in DOMAIN frames' : frames'[k].left = <<>>
    BY DEF NoneWithin
  <2>1. q # Keyboard
    BY <1>2
  <2> DEFINE f == [handler |-> IF "idt_init" \in ready THEN idt_init(q) ELSE "fault",
                   left |-> IF q = Keyboard THEN KeyText ELSE <<>>, acked |-> FALSE]
  <2>2. frames' = <<f>>
    BY <1>1, SMT DEF Deliver
  <2>3. f.left = <<>>
    BY <2>1
  <2> HIDE DEF f
  <2>4. QED
    BY <2>2, <2>3, SMT
<1>4. CASE torn'
  <2>1. written' = <<>> /\ <<>> \in Seq({})
    BY <1>4, SMT DEF Deliver
  <2>2. RightBranch'
    BY DEF ScreenInv, RightBranch, Deliver, mainVars
  <2>3. QED
    BY <1>3, <1>4, <2>1, <2>2 DEF ScreenInv
<1>5. CASE ~torn'
  <2>1. torn' = torn /\ written' = written
    BY <1>2, <1>5 DEF Deliver
  <2>2. QED
    BY <1>3, <2>1, ScreenSame DEF Deliver
<1>6. QED
  BY <1>4, <1>5

\* A handler that prints between two characters of kernel_main.
LEMMA ScreenHandlerPrints ==
    ASSUME IInv, ScreenInv, int21h_handler
    PROVE  ScreenInv'
<1>a. /\ Width \in Nat \ {0} /\ Width < UINT16 /\ UINT16 \in Nat
  BY WidthFacts
<1>1. PICK S : written \in Seq(S)
  BY DEF ScreenInv
<1> DEFINE c == Head(Top.left)
<1> HIDE DEF c
<1>2. WriteChar(c) /\ Written(c) /\ torn' = torn /\ UNCHANGED mainVars
  BY DEF int21h_handler, c
<1>3. \E T : written' \in Seq(T)
  BY <1>1, <1>2, WrittenTyped
<1>4. RightBranch'
  BY <1>2 DEF ScreenInv, RightBranch, mainVars
<1>5. torn \/ ~Inside
  <2>1. frames # <<>> /\ Top.left # <<>>
    BY DEF int21h_handler
  <2>2. PICK f \in Frame : frames = <<f>>
    BY <2>1 DEF IInv, OneFrame
  <2>3. Len(frames) = 1 /\ 1 \in DOMAIN frames /\ frames[1].left = Top.left
    BY <2>2, SMT DEF Top
  <2>4. QED
    BY <2>1, <2>3 DEF ScreenInv, NoneWithin
<1>6. NoneWithin'
  BY <1>2, <1>5 DEF NoneWithin, Inside, mainVars
<1>7. ASSUME ~torn, NextRow' < UINT16 PROVE Shown'
  <2> DEFINE full == c = Newline \/ NextCol + 1 = Width
  <2>1. /\ NextRow \in Nat /\ NextCol \in 0..(Width - 1)
        /\ NextRow' = IF full THEN NextRow + 1 ELSE NextRow
        /\ NextCol' = IF full THEN 0 ELSE NextCol + 1
        /\ written' = Append(written, c)
    BY <1>1, <1>2, <1>7, CharWritten
  <2>2. NextRow < UINT16 /\ Shown
    BY <1>a, <1>7, <2>1 DEF ScreenInv
  <2>3. (NextRow + 1) % UINT16 = NextRow + 1 \/ ~full
    BY <1>a, <1>7, <2>1, Word16
  <2>4. (NextCol + 1) % UINT16 = NextCol + 1
    <3>1. NextCol + 1 \in Nat /\ NextCol + 1 < UINT16
      BY <1>a, <2>1
    <3>2. QED
      BY <3>1, Word16
  <2>5. at \in {"call", "char"} /\ x = None /\ y = None
    BY <1>5, <1>7 DEF Inside
  <2>6. AtChar
    BY <2>2, <2>5 DEF Shown
  <2>7. terminal_row * Width + terminal_col = Cell(written, Len(written) + 1)
    BY <2>6 DEF AtChar, Cell, NextRow, NextCol
  <2>8. Drawn(written', video_mem') /\ terminal_row' = NextRow' /\ terminal_col' = NextCol'
    <3>1. CASE c = Newline
      <4>1. Drawn(Append(written, c), video_mem)
        BY <1>1, <2>6, <3>1, DrawnNext DEF AtChar
      <4>2. QED
        BY <1>2, <2>1, <2>3, <2>6, <3>1, <4>1 DEF WriteChar, AtChar
    <3>2. CASE c # Newline
      <4>1. /\ video_mem' = Stored(terminal_row * Width + terminal_col, c)
            /\ terminal_col' = IF NextCol + 1 >= Width THEN 0 ELSE NextCol + 1
            /\ terminal_row' = IF NextCol + 1 >= Width THEN (NextRow + 1) % UINT16 ELSE NextRow
        BY <1>2, <2>4, <2>6, <3>2 DEF WriteChar, AtChar
      <4>2. Drawn(Append(written, c), video_mem')
        BY <1>1, <2>6, <2>7, <3>2, <4>1, DrawnNext DEF Stored, AtChar
      <4>3. NextCol + 1 >= Width <=> full
        BY <1>a, <2>1, <3>2
      <4>4. QED
        BY <2>1, <2>3, <4>1, <4>2, <4>3
    <3>3. QED
      BY <3>1, <3>2
  <2>9. QED
    BY <1>2, <2>5, <2>8 DEF Shown, AtChar, mainVars
<1>8. QED
  BY <1>2, <1>3, <1>4, <1>6, <1>7 DEF ScreenInv

LEMMA ScreenHandler ==
    ASSUME IInv, ScreenInv, Acknowledge \/ Iret
    PROVE  ScreenInv'
<1>1. frames # <<>> /\ UNCHANGED <<mainVars, screenVars, history>>
  BY DEF Acknowledge, Iret
<1>2. PICK f \in Frame : frames = <<f>>
  BY <1>1 DEF IInv, OneFrame
<1>3. Len(frames) = 1
  BY <1>2, SMT
<1>4. NoneWithin'
  <2>1. CASE Iret
    <3>1. frames' = <<>>
      BY <1>2, <1>3, <2>1, SMT DEF Iret
    <3>2. QED
      BY <3>1, SMT DEF NoneWithin
  <2>2. CASE Acknowledge
    <3>1. frames' = [frames EXCEPT ![1].acked = TRUE]
      BY <1>3, <2>2 DEF Acknowledge
    <3>2. frames' = [frames EXCEPT ![1] = [f EXCEPT !.acked = TRUE]]
      BY <1>2, <3>1
    <3>3. [f EXCEPT !.acked = TRUE].left = f.left
      BY Zenon DEF Frame
    <3> DEFINE g == [f EXCEPT !.acked = TRUE]
    <3> HIDE DEF g
    <3>4. g.left = f.left /\ frames' = [frames EXCEPT ![1] = g]
      BY <3>2, <3>3 DEF g
    <3>5. DOMAIN frames = {1} /\ frames[1] = f
      BY <1>2, SMT
    <3>6. DOMAIN frames' = {1} /\ frames'[1].left = f.left
      BY <3>4, <3>5
    <3>7. QED
      BY <1>1, <3>5, <3>6 DEF ScreenInv, NoneWithin, Inside, mainVars, history
  <2>3. QED
    BY <2>1, <2>2
<1>5. QED
  BY <1>1, <1>4, ScreenSame DEF history

LEMMA ScreenNext == IInv /\ ScreenInv /\ [Next]_vars => ScreenInv'
<1> SUFFICES ASSUME IInv, ScreenInv, [Next]_vars PROVE ScreenInv'
  OBVIOUS
<1>1. ASSUME NEW q \in Lines, Raise(q) PROVE ScreenInv'
  <2>1. UNCHANGED <<mainVars, screenVars, history, frames>>
    BY <1>1 DEF Raise, cpuVars
  <2>2. NoneWithin'
    BY <2>1 DEF ScreenInv, NoneWithin, Inside, mainVars, history
  <2>3. QED
    BY <2>1, <2>2, ScreenSame DEF history
<1>2. ASSUME NEW q \in Lines, Deliver(q) PROVE ScreenInv'
  BY <1>2, ScreenDeliver
<1>3. CASE UNCHANGED vars
  <2>1. UNCHANGED <<mainVars, screenVars, history, frames>>
    BY <1>3 DEF vars, cpuVars
  <2>2. NoneWithin'
    BY <2>1 DEF ScreenInv, NoneWithin, Inside, mainVars, history
  <2>3. QED
    BY <2>1, <2>2, ScreenSame DEF history
<1>4. QED
  BY <1>1, <1>2, <1>3, ScreenWriteChar, ScreenMain, ScreenHandlerPrints, ScreenHandler
     DEF Next, Main, Interrupt, Handler

(***************************************************************************)
(* For every size of the screen, all texts and any number of keys, pressed *)
(* at any moment: as long as no key interrupts a terminal_writechar, the   *)
(* cursor and the screen are those of the text, and no character has       *)
(* overwritten another.                                                    *)
(***************************************************************************)
THEOREM ScreenAlwaysLayout == Spec => []ScreenIsLayout
<1>1. ScreenInv => ScreenIsLayout
  <2> SUFFICES ASSUME ScreenInv, ~torn, ~Inside, RowOf(Len(written) + 1) < UINT16
               PROVE  LET n == Len(written)
                          visible == {k \in 1..n : written[k] # Newline}
                      IN  /\ terminal_row = RowOf(n + 1) /\ terminal_col = ColumnOf(n + 1)
                          /\ \A k \in visible : video_mem[CellOf(k)] = written[k]
                          /\ \A cell \in DOMAIN video_mem \ {CellOf(k) : k \in visible} :
                                video_mem[cell] = Blank
    BY DEF ScreenIsLayout
  <2>1. \A k : LineStart(k) = Start(written, k)
    BY DEF LineStart, Start
  <2>2. \A k : RowOf(k) = Row(written, k) /\ ColumnOf(k) = Col(written, k)
    BY <2>1 DEF RowOf, ColumnOf, Row, Col, Breaks
  <2>3. \A k : CellOf(k) = Cell(written, k)
    BY <2>2 DEF CellOf, Cell
  <2>4. AtChar
    BY <2>2 DEF ScreenInv, Shown, Inside, NextRow
  <2>5. QED
    BY <2>2, <2>3, <2>4 DEF AtChar, Drawn, NextRow, NextCol
<1>2. QED
  BY <1>1, InvInit, InvNext, ScreenInit, ScreenNext, PTL DEF Spec

-----------------------------------------------------------------------------
(***************************************************************************)
(* The bytes of the processor's tables, for every address.                 *)
(***************************************************************************)
D == INSTANCE Descriptors

(***************************************************************************)
(* Every byte fits its field, and the processor finds the base and the     *)
(* limit that encode_gdt_entry was given, whenever its guard lets them     *)
(* pass: no bit is lost at any of the boundaries between the bytes.        *)
(***************************************************************************)
THEOREM SegmentRoundTrip ==
    ASSUME NEW base \in D!UINT32, NEW limit \in D!UINT32, NEW type \in D!Byte, D!Encodable(limit)
    PROVE  LET d == D!encode_gdt_entry(base, limit, type)
           IN  /\ d \in [b0 : D!Byte, b1 : D!Byte, b2 : D!Byte, b3 : D!Byte,
                         b4 : D!Byte, b5 : D!Byte, b6 : D!Byte, b7 : D!Byte]
               /\ D!SegmentBase(d) = base
               /\ D!SegmentLimit(d) = limit
<1> DEFINE d == D!encode_gdt_entry(base, limit, type)
           s == D!Scaled(limit)
<1>1. base \in Int /\ limit \in Int /\ 0 <= base /\ base < 4294967296 /\ 0 <= limit /\ limit < 4294967296
  BY SMT DEF D!UINT32
<1>2. s \in Int /\ 0 <= s /\ s < 1048576
  BY <1>1, SMT DEF D!Scaled, D!Granular
<1>3. d \in [b0 : D!Byte, b1 : D!Byte, b2 : D!Byte, b3 : D!Byte, b4 : D!Byte, b5 : D!Byte, b6 : D!Byte, b7 : D!Byte]
  <2> HIDE DEF s
  <2>1. s % 256 \in D!Byte /\ (s \div 256) % 256 \in D!Byte
    BY <1>2, SMT DEF D!Byte
  <2>2. base % 256 \in D!Byte /\ (base \div 256) % 256 \in D!Byte
        /\ (base \div 65536) % 256 \in D!Byte /\ (base \div 16777216) % 256 \in D!Byte
    BY <1>1, SMT DEF D!Byte
  <2>3. (IF D!Granular(limit) THEN 192 ELSE 64) + ((s \div 65536) % 16) \in D!Byte
    BY <1>2, SMT DEF D!Byte
  <2>4. QED
    BY <2>1, <2>2, <2>3, SMT DEF D!encode_gdt_entry, s
<1>4. D!SegmentBase(d) = base
  BY <1>1, SMT DEF D!SegmentBase, D!encode_gdt_entry
<1>5. D!SegmentField(d) = s
  <2>1. d.b6 % 16 = s \div 65536
    <3> HIDE DEF s
    <3>1. (s \div 65536) \in 0..15
      BY <1>2, SMT
    <3>2. d.b6 = (IF D!Granular(limit) THEN 192 ELSE 64) + ((s \div 65536) % 16)
      BY SMT DEF D!encode_gdt_entry, s
    <3>3. QED
      BY <3>1, <3>2, SMT
  <2>2. d.b0 = s % 256 /\ d.b1 = (s \div 256) % 256
    BY SMT DEF D!encode_gdt_entry
  <2>3. s = (s % 256) + 256 * ((s \div 256) % 256) + 65536 * (s \div 65536)
    <3> HIDE DEF s
    <3>1. QED BY <1>2, SMT
  <2>4. QED
    <3> HIDE DEF s, d
    <3>1. QED BY <2>1, <2>2, <2>3, SMT DEF D!SegmentField
<1>6. D!SegmentLimit(d) = limit
  <2>1. CASE D!Granular(limit)
    <3>1. d.b6 >= 128
      BY <1>2, <2>1, SMT DEF D!encode_gdt_entry
    <3>2. s = limit \div 4096 /\ limit % 4096 = 4095
      BY <2>1, SMT DEF D!Scaled, D!Granular, D!Encodable
    <3>3. QED
      <4> HIDE DEF s, d
      <4>1. QED BY <1>1, <1>5, <3>1, <3>2, SMT DEF D!SegmentLimit
  <2>2. CASE ~D!Granular(limit)
    <3>1. d.b6 < 128 /\ d.b6 \in Int
      BY <1>2, <2>2, SMT DEF D!encode_gdt_entry
    <3>2. s = limit
      BY <2>2, SMT DEF D!Scaled
    <3>3. QED
      <4> HIDE DEF s, d
      <4>1. QED BY <1>5, <3>1, <3>2, SMT DEF D!SegmentLimit
  <2>3. QED
    BY <2>1, <2>2, SMT
<1>7. QED
  BY <1>3, <1>4, <1>6, SMT

(***************************************************************************)
(* kernel_main does not panic in gdt_structured_to_gdt: the guard lets     *)
(* every segment of its table pass, wherever the linker puts the TSS.      *)
(***************************************************************************)
THEOREM KernelSegmentsEncode ==
    ASSUME NEW tss \in D!UINT32, NEW size \in D!UINT16
    PROVE  \A s \in D!gdt_structured(tss, size) :
               s.base \in D!UINT32 /\ s.limit \in D!UINT32 /\ s.type \in D!Byte /\ D!Encodable(s.limit)
<1>1. 0 \in D!UINT32 /\ 4294967295 \in D!UINT32 /\ tss \in D!UINT32 /\ size \in D!UINT32
  BY SMT DEF D!UINT32, D!UINT16
<1>2. \A t \in {0, 154, 146, 248, 242, 233} : t \in D!Byte
  BY SMT DEF D!Byte
<1>3. D!Encodable(0) /\ D!Encodable(4294967295) /\ D!Encodable(size)
  BY SMT DEF D!Encodable, D!UINT16
<1>4. QED
  BY <1>1, <1>2, <1>3, SMT DEF D!gdt_structured

\* The handler's address survives its two halves, each of which fits 16 bits.
THEOREM GateRoundTrip ==
    ASSUME NEW address \in D!UINT32
    PROVE  LET g == D!idt_set(address)
           IN  /\ g.offset_1 \in D!UINT16 /\ g.offset_2 \in D!UINT16
               /\ D!GateOffset(g) = address
<1>1. address % 65536 \in D!UINT16 /\ address \div 65536 \in D!UINT16
  BY SMT DEF D!UINT32, D!UINT16
<1>2. (address % 65536) + 65536 * (address \div 65536) = address
  BY SMT DEF D!UINT32
<1>3. QED
  BY <1>1, <1>2, SMT DEF D!idt_set, D!GateOffset
=============================================================================
