------------------------------ MODULE Terminal ------------------------------
(***************************************************************************)
(* kernel_main and the terminal (kernel.c) with interrupts as the second   *)
(* actor: the interrupt table and its two handlers (idt/idt.c, idt.asm)    *)
(* and the PIC that kernel.asm remaps.                                     *)
(*                                                                         *)
(* kernel_main prints with interrupts on.  The keyboard's handler prints   *)
(* too, so terminal_writechar is cut at every access of kernel_main to     *)
(* terminal_row and terminal_col: the build is -O0, ++ is a load and a     *)
(* store, and the two arguments of terminal_putchar are loaded in either   *)
(* order.  A handler runs with interrupts off and writes a character in    *)
(* one step.                                                               *)
(*                                                                         *)
(* The PIC is external: a line that is requested is delivered if no line   *)
(* of its level or of a higher one (a lower number) is in service; the     *)
(* command 0x20 to port 0x20 ends the highest level of the master only.    *)
(***************************************************************************)
EXTENDS Integers, Sequences, FiniteSets, FiniteSetsExt

CONSTANTS
    Width, Height,  \* VGA_WIDTH (80), VGA_HEIGHT (20)
    Newline, Blank, \* the characters '\n' and ' '
    Texts,          \* Texts[m]: what the call of print named m may print
    KeyText,        \* "Keyboard pressed.\n"
    None,           \* an argument that is not loaded yet
    Requests        \* Requests[q]: bound on the requests of line q

UINT16 == 65536
Lines == DOMAIN Requests
KeyChars == {KeyText[k] : k \in DOMAIN KeyText}
Timer == 0
Keyboard == 1
Cascade == 2        \* the slave's lines 8 to 15 arrive at this level

ASSUME TerminalAssumption ==
    /\ Width \in 1..(UINT16 - 1) /\ Height \in 1..(UINT16 - 1)
    /\ Lines \subseteq 0..15 \ {Cascade}
    /\ \A q \in Lines : Requests[q] \in Nat
    /\ DOMAIN Texts = {"hello", "opened", "buf", "fseek", "blank", "closed"}
    /\ KeyText \in Seq(KeyChars)

VARIABLES
    step,           \* kernel_main: its next statement
    at,             \* where it is inside print and terminal_writechar
    text,           \* the characters that print has left
    x, y, r,        \* what it has loaded: two arguments, and the value of ++
    terminal_row, terminal_col,
    video_mem,
    ready,          \* the services that are set up
    interrupts,     \* the interrupt flag of the processor
    frames,         \* the handlers that are active, the innermost one last
    irr,            \* the PIC: lines requested,
    isr,            \*   levels of the master in service,
    slave_isr,      \*   a line of the slave is in service
    requests,       \* requests that are left
    written, torn   \* for the properties: the characters written, in order,
                    \* until a handler prints within a terminal_writechar

mainVars == <<step, at, text, x, y, r>>
screenVars == <<terminal_row, terminal_col, video_mem>>
picVars == <<irr, isr, slave_isr, requests>>
cpuVars == <<interrupts, frames>>
history == <<written, torn>>
vars == <<mainVars, screenVars, ready, picVars, cpuVars, history>>

\* Mutant: interrupts are enabled before the table is there.
EnabledEarly ==
    <<"gdt_load", "hello", "kheap_init", "fs_init", "disk_search_and_init", "enable_interrupts",
      "idt_init", "tss_load", "paging", "fopen", "opened", "buf", "fseek", "buf",
      "blank", "closed", "loop">>

\* The statements of kernel_main after terminal_initialize.  Those in DOMAIN
\* Texts are calls of print.  The second fopen is for writing and returns 0.
kernel_main ==
    <<"gdt_load", "hello", "kheap_init", "fs_init", "disk_search_and_init", "idt_init",
      "tss_load", "paging", "enable_interrupts", "fopen", "opened", "buf", "fseek", "buf",
      "blank", "closed", "loop">>

Statement == kernel_main[step]

\* terminal_initialize
Init ==
    /\ step = 1 /\ at = "call" /\ text = <<>>
    /\ x = None /\ y = None /\ r = 0
    /\ terminal_row = 0 /\ terminal_col = 0
    /\ video_mem = [cell \in 0..(Height * Width - 1) |-> Blank]
    /\ ready = {} /\ interrupts = FALSE /\ frames = <<>>
    /\ irr = {} /\ isr = {} /\ slave_isr = FALSE /\ requests = Requests
    /\ written = <<>> /\ torn = FALSE

-----------------------------------------------------------------------------
(***************************************************************************)
(* kernel_main.  It runs only while no handler does.                       *)
(***************************************************************************)
Silent == {"gdt_load", "kheap_init", "fs_init", "disk_search_and_init", "idt_init", "tss_load", "paging"}

SetUp ==
    /\ frames = <<>> /\ Statement \in Silent
    /\ ready' = ready \cup {Statement}
    /\ step' = step + 1
    /\ UNCHANGED <<at, text, x, y, r, screenVars, picVars, cpuVars, history>>

enable_interrupts ==
    /\ frames = <<>> /\ Statement = "enable_interrupts"
    /\ interrupts' = TRUE
    /\ step' = step + 1
    /\ UNCHANGED <<at, text, x, y, r, screenVars, ready, picVars, frames, history>>

\* Without the file message.txt nothing more is printed.
fopen ==
    /\ frames = <<>> /\ Statement = "fopen"
    /\ step' \in {step + 1, Len(kernel_main)}
    /\ UNCHANGED <<at, text, x, y, r, screenVars, ready, picVars, cpuVars, history>>

\* print(buf) goes on behind the 7 bytes that fread put into buf, up to the
\* next zero byte of the stack, so a call has several possible texts.
print ==
    /\ frames = <<>> /\ Statement \in DOMAIN Texts /\ at = "call"
    /\ text' \in Texts[Statement]
    /\ at' = "char"
    /\ UNCHANGED <<step, x, y, r, screenVars, ready, picVars, cpuVars, history>>

PrintReturns ==
    /\ frames = <<>> /\ at = "char" /\ text = <<>>
    /\ at' = "call"
    /\ step' = step + 1
    /\ UNCHANGED <<text, x, y, r, screenVars, ready, picVars, cpuVars, history>>

-----------------------------------------------------------------------------
(***************************************************************************)
(* terminal_writechar, called by kernel_main.                              *)
(***************************************************************************)
At(label) == frames = <<>> /\ at = label

Written(c) == written' = IF torn THEN <<>> ELSE Append(written, c)

\* The call returns to the loop of print.
CharDone ==
    /\ at' = "char"
    /\ Written(Head(text))
    /\ text' = Tail(text)
    /\ UNCHANGED torn

mainFixed == <<step, ready, picVars, cpuVars>>

\* if (c == '\n'): ++terminal_row in two steps, then terminal_col.
NewlineLoad ==
    /\ At("char") /\ text # <<>> /\ Head(text) = Newline
    /\ r' = terminal_row /\ at' = "nl_row"
    /\ UNCHANGED <<mainFixed, text, x, y, screenVars, history>>

NewlineRow ==
    /\ At("nl_row")
    /\ terminal_row' = (r + 1) % UINT16 /\ at' = "nl_col"
    /\ UNCHANGED <<mainFixed, text, x, y, r, terminal_col, video_mem, history>>

NewlineCol ==
    /\ At("nl_col")
    /\ terminal_col' = 0
    /\ CharDone
    /\ UNCHANGED <<mainFixed, x, y, r, terminal_row, video_mem>>

\* The screen once c is at its cell, which may lie behind the last row.
Stored(cell, c) == [p \in DOMAIN video_mem \cup {cell} |-> IF p = cell THEN c ELSE video_mem[p]]

\* The arguments of terminal_putchar.
LoadArguments ==
    /\ At("char") /\ text # <<>> /\ Head(text) # Newline
    /\ \/ x = None /\ x' = terminal_col /\ UNCHANGED y
       \/ y = None /\ y' = terminal_row /\ UNCHANGED x
    /\ UNCHANGED <<mainFixed, at, text, r, screenVars, history>>

terminal_putchar ==
    /\ At("char") /\ x # None /\ y # None
    /\ video_mem' = Stored(y * Width + x, Head(text))
    /\ x' = None /\ y' = None /\ at' = "inc"
    /\ UNCHANGED <<mainFixed, text, r, terminal_row, terminal_col, history>>

\* ++terminal_col
ColLoad ==
    /\ At("inc")
    /\ r' = terminal_col /\ at' = "inc_store"
    /\ UNCHANGED <<mainFixed, text, x, y, screenVars, history>>

ColStore ==
    /\ At("inc_store")
    /\ terminal_col' = (r + 1) % UINT16 /\ at' = "check"
    /\ UNCHANGED <<mainFixed, text, x, y, r, terminal_row, video_mem, history>>

\* Mutant: the row is full one character later.
CheckLate ==
    /\ At("check")
    /\ IF terminal_col > Width THEN at' = "wrap" /\ UNCHANGED <<text, history>> ELSE CharDone
    /\ UNCHANGED <<mainFixed, x, y, r, screenVars>>

\* if (terminal_col >= VGA_WIDTH)
Check ==
    /\ At("check")
    /\ IF terminal_col >= Width THEN at' = "wrap" /\ UNCHANGED <<text, history>> ELSE CharDone
    /\ UNCHANGED <<mainFixed, x, y, r, screenVars>>

WrapCol ==
    /\ At("wrap")
    /\ terminal_col' = 0 /\ at' = "wrap_load"
    /\ UNCHANGED <<mainFixed, text, x, y, r, terminal_row, video_mem, history>>

WrapLoad ==
    /\ At("wrap_load")
    /\ r' = terminal_row /\ at' = "wrap_row"
    /\ UNCHANGED <<mainFixed, text, x, y, screenVars, history>>

\* Mutant: the row stays.
WrapRowStays ==
    /\ At("wrap_row")
    /\ CharDone
    /\ UNCHANGED <<mainFixed, x, y, r, screenVars>>

WrapRow ==
    /\ At("wrap_row")
    /\ terminal_row' = (r + 1) % UINT16
    /\ CharDone
    /\ UNCHANGED <<mainFixed, x, y, r, terminal_col, video_mem>>

terminal_writechar ==
    \/ NewlineLoad \/ NewlineRow \/ NewlineCol
    \/ LoadArguments \/ terminal_putchar
    \/ ColLoad \/ ColStore \/ Check
    \/ WrapCol \/ WrapLoad \/ WrapRow

\* kernel_main has loaded or stored something of a character, not everything.
Inside == at \notin {"call", "char"} \/ x # None \/ y # None

-----------------------------------------------------------------------------
(***************************************************************************)
(* Interrupts.                                                             *)
(***************************************************************************)
Raise(q) ==
    /\ requests[q] > 0 /\ q \notin irr
    /\ irr' = irr \cup {q}
    /\ requests' = [requests EXCEPT ![q] = @ - 1]
    /\ UNCHANGED <<mainVars, screenVars, ready, cpuVars, isr, slave_isr, history>>

Level(q) == IF q < 8 THEN q ELSE Cascade

Unblocked == {q \in irr : (\A l \in isr : Level(q) < l) /\ (q >= 8 => ~slave_isr)}

\* idt_init: every vector has no_interrupt except that of the keyboard.
idt_init(q) == IF q = Keyboard THEN "int21h" ELSE "no_interrupt"

\* Mutant: a gate that leaves the interrupt flag alone (type 0xEF).
TrapGate == TRUE

\* idt_set: type_attr 0xEE is a 32-bit interrupt gate, which clears the flag;
\* the stubs' cli comes after that.
idt_set == FALSE

\* The processor takes the interrupt of the most urgent line.
Deliver(q) ==
    /\ interrupts /\ q \in Unblocked
    /\ \A p \in Unblocked : Level(q) <= Level(p)
    /\ irr' = irr \ {q}
    /\ isr' = isr \cup {Level(q)}
    /\ slave_isr' = (slave_isr \/ q >= 8)
    /\ interrupts' = idt_set
    /\ frames' = Append(frames, [handler |-> IF "idt_init" \in ready THEN idt_init(q) ELSE "fault",
                                 left |-> IF q = Keyboard THEN KeyText ELSE <<>>,
                                 acked |-> FALSE])
    /\ torn' = (torn \/ (q = Keyboard /\ Inside))
    /\ written' = IF torn' THEN <<>> ELSE written
    /\ UNCHANGED <<mainVars, screenVars, ready, requests>>

Top == frames[Len(frames)]

\* terminal_writechar, called by a handler.
WriteChar(c) ==
    IF c = Newline
    THEN /\ terminal_row' = (terminal_row + 1) % UINT16
         /\ terminal_col' = 0
         /\ UNCHANGED video_mem
    ELSE LET col == (terminal_col + 1) % UINT16
         IN  /\ video_mem' = Stored(terminal_row * Width + terminal_col, c)
             /\ terminal_col' = IF col >= Width THEN 0 ELSE col
             /\ terminal_row' = IF col >= Width THEN (terminal_row + 1) % UINT16 ELSE terminal_row

\* int21h_handler prints, one character at a time.
int21h_handler ==
    /\ frames # <<>> /\ Top.handler = "int21h" /\ Top.left # <<>>
    /\ WriteChar(Head(Top.left))
    /\ Written(Head(Top.left))
    /\ frames' = [frames EXCEPT ![Len(frames)].left = Tail(@)]
    /\ UNCHANGED <<mainVars, ready, picVars, interrupts, torn>>

\* Mutant: the handler of the keyboard does not tell the PIC.
AcknowledgeOthers ==
    /\ frames # <<>> /\ Top.handler # "fault" /\ Top.left = <<>> /\ ~Top.acked
    /\ isr' = IF Top.handler = "int21h" THEN isr ELSE isr \ {Min(isr)}
    /\ frames' = [frames EXCEPT ![Len(frames)].acked = TRUE]
    /\ UNCHANGED <<mainVars, screenVars, ready, irr, slave_isr, requests, interrupts, history>>

\* outb(0x20, 0x20), at the end of both handlers.
Acknowledge ==
    /\ frames # <<>> /\ Top.handler # "fault" /\ Top.left = <<>> /\ ~Top.acked
    /\ isr' = isr \ {Min(isr)}
    /\ frames' = [frames EXCEPT ![Len(frames)].acked = TRUE]
    /\ UNCHANGED <<mainVars, screenVars, ready, irr, slave_isr, requests, interrupts, history>>

\* popad, sti, iret: no interrupt is taken between the last two.
Iret ==
    /\ frames # <<>> /\ Top.acked
    /\ frames' = SubSeq(frames, 1, Len(frames) - 1)
    /\ interrupts' = TRUE
    /\ UNCHANGED <<mainVars, screenVars, ready, picVars, history>>

-----------------------------------------------------------------------------
Main == SetUp \/ enable_interrupts \/ fopen \/ print \/ PrintReturns \/ terminal_writechar
Handler == int21h_handler \/ Acknowledge \/ Iret
Interrupt == \E q \in Lines : Deliver(q)

Next ==
    \/ Main \/ Handler \/ Interrupt
    \/ \E q \in Lines : Raise(q)

Spec == Init /\ [][Next]_vars

\* The processor goes on executing, and takes an interrupt that it can take.
FairSpec == Spec /\ WF_vars(Main) /\ WF_vars(Handler) /\ WF_vars(Interrupt)

-----------------------------------------------------------------------------
Labels == {"call", "char", "nl_row", "nl_col", "inc", "inc_store", "check",
           "wrap", "wrap_load", "wrap_row"}
Handlers == {"int21h", "no_interrupt", "fault"}

\* The type invariant.  The column is one of the row or, for as long as the
\* row is not wrapped, the one behind its end.
TypeOK ==
    /\ step \in 1..Len(kernel_main) /\ at \in Labels
    /\ x \in 0..Width \cup {None} /\ y \in 0..(UINT16 - 1) \cup {None}
    /\ r \in 0..(UINT16 - 1)
    /\ terminal_row \in 0..(UINT16 - 1) /\ terminal_col \in 0..Width
    /\ ready \subseteq Silent /\ interrupts \in BOOLEAN
    /\ \A k \in DOMAIN frames : frames[k].handler \in Handlers /\ frames[k].acked \in BOOLEAN
    /\ irr \subseteq Lines /\ isr \subseteq 0..7
    /\ slave_isr \in BOOLEAN /\ torn \in BOOLEAN

(***************************************************************************)
(* Handlers do not nest, whatever is requested when: an interrupt is only  *)
(* taken when no handler is active, so the kernel's stack holds one frame  *)
(* at most; no interrupt comes before the table is loaded; and when the    *)
(* processor can take interrupts, the master has been told of every one.   *)
(***************************************************************************)
InterruptsSound ==
    /\ Len(frames) <= 1
    /\ interrupts => frames = <<>> /\ isr = {}
    /\ \A k \in DOMAIN frames : frames[k].handler # "fault"

\* The last line break before the k-th character that was written.
LineStart(k) == Max({0} \cup {j \in 1..(k - 1) : written[j] = Newline})

\* Where the k-th character belongs: a row ends with a newline or when full.
ColumnOf(k) == (k - 1 - LineStart(k)) % Width
RowOf(k) == Cardinality({j \in 1..(k - 1) : \/ written[j] = Newline
                                            \/ (j - LineStart(j)) % Width = 0})
CellOf(k) == RowOf(k) * Width + ColumnOf(k)

(***************************************************************************)
(* As long as no handler has printed within a terminal_writechar of        *)
(* kernel_main, and there are no more rows than terminal_row can count,    *)
(* the screen and the cursor are those of the text written so far, also of *)
(* text that handlers printed between two characters of kernel_main: no    *)
(* character is lost, doubled or out of place.                             *)
(***************************************************************************)
ScreenIsLayout ==
    ~torn /\ ~Inside /\ RowOf(Len(written) + 1) < UINT16 =>
        LET n == Len(written)
            visible == {k \in 1..n : written[k] # Newline}
        IN  /\ terminal_row = RowOf(n + 1) /\ terminal_col = ColumnOf(n + 1)
            /\ \A k \in visible : video_mem[CellOf(k)] = written[k]
            /\ \A cell \in DOMAIN video_mem \ {CellOf(k) : k \in visible} :
                  video_mem[cell] = Blank

\* Every request of a line of the master gets its handler, also one made while
\* another is served and whatever kernel_main is doing.
EveryRequestServed == \A q \in Lines \cap 0..7 : q \in irr ~> q \notin irr

(***************************************************************************)
(* What the code does not do.                                              *)
(***************************************************************************)

\* Characters go to the screen: there is no scrolling.
WritesOnScreen == DOMAIN video_mem = 0..(Height * Width - 1)

\* The cursor stays at its row or moves down: a row that kernel_main loaded
\* before a handler printed takes it up again.
CursorNeverBack == [][terminal_row' >= terminal_row]_vars

\* README.md: "If you don`t acknowledge it, the PIC will no longer interrupt".
\* The slave is not told, so a second request of its line waits for ever.
SlaveServed == \A q \in Lines \ 0..7 : q \in irr ~> q \notin irr
=============================================================================
