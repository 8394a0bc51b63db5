# A TLA+ verification of the Raspberry Pi 3 teaching kernel

The repository is a small AArch64 kernel: three-level page tables, a physical
page allocator with reference counts, environments (processes) scheduled round
robin by a timer interrupt, about a dozen system calls (among them a `fork`
that copies the pages of the stack), and synchronous message passing. One core runs;
exceptions are taken to EL1 with interrupts masked, so every system call and
every interrupt handler is atomic with respect to the others. What is hard is
therefore not locking, but the order in which user programs and interrupts make
those atomic steps happen, and the state each step leaves to the next one.

## 1. Inventory

| Component | Source | State | Operations | What is hard | What makes it correct |
|---|---|---|---|---|---|
| Physical pages | `mm/pmap.c` | `page_free_list`, `pages[].pp_ref` (16 bits) | `page_init`, `page_alloc`, `page_free`, `page_decref` | a frame freed while mapped; a count that wraps; frames lost on error paths; the device window on the free list | a free frame is never reachable; the count covers the entries |
| Page tables | `mm/pmap.c` | the tables, 3 levels, entries 0 and 1 of the top level shared by all environments | `pgdir_walk`, `page_insert`, `page_lookup`, `page_remove` | a walk that fails half-way; tables shared between address spaces; the kernel reaches pages only through the identity map; a walk does not know a block entry from a table | a table has one pointer; calls on one space leave others alone |
| Boot page tables | `init/mmu.c`, `mm/pmap.c` | `freemem`, the first tables | `boot_mmu_setup`, `alloc`, `boot_pgdir_walk`, `boot_map_segment`, `aarch64_vm_init`, `page_init` | page tables and arrays come from one pointer, alternately; memory nobody clears | the frames handed out are disjoint; the tables are those the rest relies on |
| Environments | `lib/env.c` | `envs[]`, `env_free_list`, `next_env_id`, `curenv` | `mkenvid`, `envid2env`, `env_alloc`, `env_create_priority`, `env_free`, `env_destroy` | ids kept after their environment ended; fields left by the last owner of a slot; failure in the middle of a fork | an id names one environment for ever; its slot is given back only by itself or its parent (anybody may stop it by `sys_set_env_status`) |
| The lists through `envs` | `include/queue.h`, `lib/env.c`, `lib/syscall_all.c` | `env_link`, `env_sched_link`, two list heads | `LIST_INSERT_HEAD`, `LIST_REMOVE` | an element removed twice, or never inserted, is written through stale pointers | the pointers are those of a list of the right elements |
| Scheduler | `lib/sched.c`, `lib/handleirq.c`, `lib/timer.S` | the static `pos`, the timer | `sched_yield`, `handle_irq` | starvation; nobody runnable; an environment that dies while it runs | every runnable environment runs |
| Traps and context switch | `lib/entry.S`, `lib/irq.S`, `env_run` | the registers, `env_tf`, the frames below `TIMESTACK` and `KERNEL_SP` | `saveall`, `el0_irq`, `el1_irq`, `el0_sync`, `env_run`, `env_pop_tf` | two frames in fixed places, copied in the right order; who owns the frame when `curenv` has gone | a program finds its registers again |
| Dispatch | `lib/entry.S`, `user/syscall_lib.c`, `user/msyscall.S` | the table of handlers | the wrappers, the bound check on the number | three tables kept in step by hand; a bound (20) above the table's length (14) | a call reaches its handler with its arguments in place |
| System calls | `lib/syscall_all.c` | none of their own | memory (`sys_mem_*`), environments (`sys_env_*`, `sys_yield`, `sys_set_env_status`), IPC | results ignored; statuses any program may set on any other | errors change no mapping; slots and pages are not lost |
| IPC | `lib/syscall_all.c`, `user/ipc.c` | `env_ipc_*` fields | `sys_ipc_recv`, `sys_ipc_can_send`, `ipc_send` (polling), `ipc_recv` | several senders and one receiver, interrupted anywhere; fields read after the call returned; a page sent along that cannot be mapped | each message once, in order; a receiver wakes with a message, and with the page |
| Programs | `user/userfunct.c`, `user/fork.c` | their locals | `user_main_pingpong`, fork tests | termination: who leaves first | turns are kept, the game ends |
| Formatted output | `lib/print.c` | the position in the format, a buffer | `lp_Print`, `PrintNum`, `PrintString`, `PrintChar` | a format that ends inside a directive; the smallest `long`; padding and sign in one buffer | nothing of the format is lost or read twice; the field shows the number |
| UART, start-up code, `usr_tmp` | `drivers/`, `boot/`, `init/el.S`, `usr_tmp/` | device registers | | | not modelled (section 9) |

How they interact: `main` calls `aarch64_vm_init`, `page_init`, `env_init`,
creates environments and starts the timer. From then on the only entries are the
timer interrupt (`el1_irq` once, `el0_irq` afterwards → `handle_irq` →
`sched_yield` → `env_run`) and `svc` (`el0_sync` → `sys_*`, which either returns
to its caller or enters `sched_yield`). Environments act on each other through
`envs[]` (IPC fields, status), through mappings put in each other's tables, and
through tables that all of them share.

## 2. Modules

| Module | Models | State |
|---|---|---|
| `PMap` | `mm/pmap.c` as operators on a memory record | the record `free`, `ref`, `word`, `panic`, `wrapped` |
| `Memory` | the address spaces through creation, fork, destruction and the memory calls; implements `AddressSpaces` | `mem` (such a record), `phase`, `last` (the last call and its result) |
| `EnvTable` | what the environment table promises (abstract) | `alive`, `refused`, `limit`, `running` |
| `AddressSpaces` | what the memory calls promise (abstract) | `live`, `view`, `call`, `wrapped` |
| `Mailbox` | what `ipc_send` and `ipc_recv` promise (abstract) | `sent`, `box`, `received` |
| `Env` | the table, ids, scheduler, statuses and kernel IPC; implements `EnvTable` | `envs`, `freeList`, `nextId`, `curenv`, `pos`, `mode` |
| `System` | `Env` and `Memory` composed, and pages sent with messages; implements `Memory` and `AddressSpaces` | adds `mem`, `dstva`, `last` to `Env` |
| `Links` | `env_free_list` and `env_sched_list` at the level of pointers, over `Env` | adds `free`, `sched` and the histories `queued`, `misused` |
| `IpcLib` | `ipc_send` and `ipc_recv` as steps of user code over `Env` | `lib` per slot |
| `Ipc` | several senders, one receiver; implements `Mailbox` | adds the history `received` |
| `PingPong` | `user_main_pingpong` | adds `at` per slot |
| `Context` | registers and frames across traps | `regs`, `curenv`, `tf`, `timestack`, `status`, the history `seen` |
| `Boot` | construction of the page tables and of the free list | `bootPc`, `freemem`, `pt`, `array`, `i`, `pages` |
| `LpPrint` | the scanner of `lp_Print` and the layout of its fields | `fmt`, `at`, `printPc`, `shown`, `field` |
| `Dispatch` | the way from a wrapper to a handler | `caller`, `regs`, `landed` |
| `ListFacts` | lemmas about a list without repetition, and the induction the proofs share | |
| `EnvProofs` | invariant of `Env`, the bound on waiting, and the proof that `Env` implements `EnvTable` | |
| `LinksProofs` | invariant of `Links` and its proof; two properties of `Env` | |
| `ContextProofs` | invariant of `Context` and its proof | |
| `MemoryProofs` | invariant of `Memory`, its action properties, and the proof that it implements `AddressSpaces` | |
| `SystemProofs` | invariant of `System`, and the proof that it implements `Env`, `Memory` and `AddressSpaces` | |
| `ProgramProofs` | invariants of `Ipc` and `PingPong`, the proof that `Ipc` implements `Mailbox` and that both are programs on `Env` | |
| `SequentialProofs` | invariants of `Boot`, `LpPrint` and `Dispatch` | |
| `MCMemory`, `MCEnv`, `MCSystem`, `MCLinks`, `MCSequential`, `MCIpc`, `MCPingPong`, `MCContext` | values for TLC | |

### How the state and actions correspond to the code

**PMap / Memory.** A frame is its page number, `mem.free` is `page_free_list`
with its head first (`LIST_INSERT_HEAD`, `LIST_FIRST`), `mem.ref[f]` is
`pages[f].pp_ref` modulo `RefMod` = 2^16. A table entry is named by level, owner
and index: `<<"pud", a, 3>>` is the entry of the directory of `a` for
`PUDX = 3`. Entries below the directory entries 0 and 1 have the owner `Kernel`,
because `env_setup_vm` copies all of `_pg_dir` and so every environment walks the
same tables there. The identity map of RAM, built at boot, is a set of those
shared entries; `page_alloc` clears a page through it, and if the entry is
missing the fault at EL1 ends in `panic` (`mem.panic`). `mem.wrapped` is a history: some
count has gone past its largest value.

`ForkEnv` is the loop of `sys_env_alloc` over the `n` pages from that of the stack pointer
to `USTACKTOP` (none when the stack is empty). A round that finds no page ends the call
with an error, and the child keeps what was copied before; a round whose `page_insert`
fails loses its page and goes on (`CopyPage`).

`env_free` follows the code and not its intention: the page *tables* are released by
calling `page_remove` on their physical addresses, while user pages and the directory page
are left counted. What `page_remove` finds there depends on where the table lies
(`Found`):

* A table in RAM is found through the identity map, freed, and its identity entry cleared.
* For a table in the device window, which is where the first 4096 frames handed out lie, the
  walk meets the block entry of `boot_mmu_setup` (`mmu.c:38`). `pgdir_walk` tests only the
  valid bit and takes the block for a page table: the table with frame number `f` is looked
  up as word `f % PTES` of the frame `Base(f)`. If a table lies there, the model knows the
  word (`Behind`, `WordsBehind`); if it is a page with contents, the word may be anything in
  the constant `PageWord`, zero and a frame beyond `npage` (where `pa2page` panics) included.

While all these words are zero (`StaysOnTrack`), `EnvFree` is the whole effect in one formula;
`ReleaseOrders` gives the order in which the tables come back, the last one released at the
head. `EnvFreeLoop` is the function loop by loop, with the words it finds; `DestroyAstray` is
a destruction in which one of them is not zero. It may drop the count of any frame, free
it and clear the word it found, so that no promise of this module holds afterwards: the model
makes that step and stops (`Astray`), and every property says "until an `env_free` has gone
astray". Programs name no page below a block entry (`WindowAssumption`).

`AddressSpaces` says what remains when frames, counts and tables are taken away: each
environment sees a frame or nothing at each page, pages of directory entries 0 and 1 are seen
alike by all, and a call changes what is seen at the page it names (`Alloc` shows a frame
nobody saw, `Map` one that its source shows) or nothing at all (`Fail`). `Fork` shows the child
frames of its own at some pages its parent has, all of the stack or not; `Stray` is the
destruction after which nothing is promised. In the mapping `live` are the environments with a
directory and `view[e, v]` is what `page_lookup` finds.

**Env.** One action per system call that acts on environments (`SysYield`,
`SysEnvAlloc`, `SysEnvDestroy`, `SysSetEnvStatus`, `SysIpcRecv`,
`SysIpcCanSend`), `HandleIrq` for the timer and `EnvCreate` for `main`. Where a
call ends in `sched_yield` the choice of the next environment is part of the same
action (`SchedYield`). `mode = "spin"` is `sched_yield` looping with interrupts
masked because nobody is runnable: the machine stops there, and so does the
model. `SysSetEnvStatus` accepts any environment `envid2env` finds, the caller included,
and any status. In the mapping to `EnvTable` the environments alive are those with a slot, and
`refused` are the ids `envid2env` does not accept though the slot is not on the free list: those
of environments somebody has set to `ENV_FREE` (`Refuse`). Memory enters only through the
outcome of a call (`"ok"`, `"no_mem"`, `"panic"`); `Memory` shows when each occurs. A user
program may name any id handed out so far, stale ids included, and one not yet handed out.

**System.** Each action is one of `Env` together with what the same call does in
`Memory`, instantiated with the slots as environments: a slot *is* an address space,
since `env_pgdir` is a field of `struct Env`. The space a memory call acts on is the
result of `envid2env`, and the outcome of a fork is computed instead of chosen.
`SendPageCall` is `sys_ipc_can_send` with a page: the page of the sender at `srcva`
is mapped at `dstva` of the receiver before anything is delivered. In the mapping to
`Memory` such a send is a `map` call. A destruction is `DestroyCall`, or `DestroyAstrayCall`
when a word behind a block entry is not zero. Once the kernel has panicked (`mem.panic`) or
an `env_free` has gone astray nothing happens any more.

**Links.** A list is `lh_first`, and `le_next` and `le_prev` of every slot; `le_prev`
points to a `le_next` field or to `lh_first`, so it is modelled by the slot that holds
the field, or `AtHead`. `InsertHead` and `Remove` are the two macros the code uses,
with what they do to fields that are stale or null. `Remove` through a null `le_prev`
writes to address zero, which is no field of either list. `queued` remembers what
should be in `env_sched_list` and `misused` the first element that was removed while
absent or inserted while present.

**Context.** Registers are `x0`, `x16`, `x17`, `sp`, `spsr`, `pc` and `xs` for all
the others, which every path treats alike. `SaveAll` is the frame of `saveall`
after the entry code has put the stack pointer in `x16`; `EnvRun` is `env_run` with
`env_pop_tf`; `KernelSp` is the frame of `el0_sync`, which `sys_yield`,
`sys_ipc_recv` and self-destruction copy below `TIMESTACK` first. A status is `"ready"`,
`"blocked"`, `"lost"` (set to `ENV_FREE`, the slot on no list) or `"free"`. `SysReturn` stands
for the calls that return to their caller: they may wake, block or lose any environment, the
caller included, because `sys_set_env_status` may. A fork that runs out of memory leaves a
blocked child with the caller's frame. `seen` is a history variable: the registers each
environment expects to find.

**IpcLib, Ipc, PingPong.** Each statement of the C code that reads or writes state
others can change is one step of the environment that `curenv` names, and a timer
interrupt may come between any two. The history `received` is the sequence of
messages that `ipc_recv` has returned; `From(c)` are the places in it of those of `c`.
`Mailbox` is one place for a message, which a sender fills (`Put`) and the receiver empties
(`Take`). In the mapping `sent` are the calls of `ipc_send` that have been told of success,
and `box` is what the fields of the receiver hold between that system call and the return of
`ipc_recv`.

**Boot.** `freemem` counts half pages, so that an array can end inside a page, as
`pages` and `envs` do; `alloc` rounds it up. `pt` holds the entries written so far,
by frame and index. Every loop iteration that moves `freemem` is a step. `Word`
translates the result into the entries of `PMap`.

Like `LpPrint` and `Dispatch` it has a specification of its own (`BootSpec`, `PrintSpec`,
`DispatchSpec`), which the theorems are about; the run checks them side by side.

**LpPrint.** A format is a C string, given without its terminator. The scanner's steps are the
run of text up to the next `%`, and one directive with its prefixes (`l`, `-`, `0`, width,
precision) and its conversion. `Layout` computes a field in the order `PrintNum` writes it:
digits from the right, then padding and sign, then the reversal of the part that must be
reversed. The digits come from repeated division (`Rest`), as recursive functions (`Rest`,
`Power`), and `FieldsReadable` reads them back with the `Power` of their places (`PlacesOf`).
`int` and `long` have `IntBits` and `LongBits` bits and `va_arg` sign-extends the first.

**Dispatch.** The wrappers with their numbers and argument names, the comparison of
`el0_sync` (signed, against 20), and the handlers in table order with theirs. A jump
beyond the table lands in `"stray"`.

## 3. Runs

| Run | Question | Instance |
|---|---|---|
| `memory` | Can any mixture of create, fork, map, unmap, destroy, with memory running out at every point, free a frame in use, free or share a table, lose a kernel frame, or show an environment anything but what the abstract address spaces say, until an `env_free` goes astray? Does the loop of `env_free` do what one formula says? | 2 environments, 9 frames (2 kernel, 2 RAM, 5 device), 3 virtual pages, counts modulo 5 |
| `free_leak` (violation) | Is a counted page always pointed to (`pmap.h:15`)? | 10 frames |
| `free_identity` (violation) | Does the kernel keep its mapping of all pages (`mmu.c:17`)? | 10 frames, all RAM |
| `free_stray` (violation) | Is a mapped page always counted (`pmap.h:15`), even when `env_free` finds words behind a block entry? | the frames of `memory` |
| `env` | Every call on environments in any order and with any status: is the free list sound, are ids unique, is the abstract table implemented, does every runnable environment run, and how long does it wait? | 3 slots, 3 ids |
| `system` | The same calls with their memory: do address spaces follow the table, is every step one of `Memory` and of the abstract address spaces, does nobody reach into another's pages, does a receiver that wakes from a page transfer have the page? | 2 slots, 3 ids, 14 frames (7 kernel, 1 RAM, 6 device), 2 virtual pages, one of them in tables all environments share |
| `links` | Are `env_free_list` and `env_sched_list` lists of the right slots through every call, who breaks the second one, is no slot lost, does a receiver wake only with a message? | 3 slots, 4 ids |
| `sequential` | Does the boot code end in the state `PMap` starts from, does `lp_Print` account for every format and number, does each call reach its handler? | tables of 4 and 12 entries; formats of up to 4 characters; 3-bit `int`, 5-bit `long` |
| `ipc` | Two senders, one receiver, interrupted anywhere: is it a mailbox for one message, does each message arrive once, in order, and all of them in the end? | 3 messages from each sender |
| `pingpong` | The program as it stands: turns, no message to a player that has left, and an end? | `Last` = 10, as in the code |
| `context` | Does a program find its registers again? | 2 slots, 2 values |
| `x16_x17` (violation) | Do *all* saved registers survive (`trapframe.h:4`)? | 2 slots, 2 values |

### Bounds, and why they are enough

* *Memory.* A page table has 2 entries, a middle directory 8, so that the pages
  33 (directory entry 2, which `env_free` skips), 50 and 51 (one table of entry 3,
  where the stack is) reach every kind of walk: a second page in an existing table,
  a new middle directory, a new table. Seven frames above the kernel's are fewer than two
  environments need, so `page_alloc` fails at every point of every call. Five device frames
  come first from the list, as in the code; the RAM frames are reached after
  them, so that `env_free` meets tables it releases and tables it looks up behind a block
  entry, where it finds itself, another table or a page. `PageWord` is zero, a frame of RAM
  in use, or one beyond `npage`. `RefMod = 5` stands for the 65536 of the code: a page counted
  five times wraps, which the run reaches.
* *Env.* With three slots the cyclic search of `sched_yield` has a slot before, at
  and after `pos`. `NamedId` always contains every id handed out so far, and a
  future one. `BootEnvs` bounds what `main` creates before the first interrupt.
* *System.* Three ids for two slots: a slot, its address space and its `dstva` are reused under
  a new id. Seven frames above the kernel's are room for one whole environment and part of
  another, so that forks fail in the middle; the boot environment lies in the device window and
  a child partly in RAM. Pages name nothing or one device frame (`PageWord`). `SetStatus` is
  `{ENV_FREE}`, the status that parts the table from the spaces; `env` passes the others. The
  `VIEW` leaves out of `last` all but what the next step depends on, whether it is still boot
  and whether an `env_free` has gone astray; the properties read `last` after a step only. Page
  20 lies below directory entry 1, whose tables all environments share; page 51 is the stack.
  Programs pass the ids that some slot carries, its present owner's or its last; any other id
  is refused by the same test as the second kind. Receivers wait with the stack page only (see
  section 7 for zero).
* *Links.* Three slots are a list with a head, a middle and an end; four ids reuse a
  slot. Programs pass `ENV_NOT_RUNNABLE` only, the one status under which something
  can be said of `env_sched_list` (`ENV_RUNNABLE` for a linked environment is a misuse by
  itself). The `VIEW` merges states that differ only in `sched` and `queued` after the
  first misuse: no guard reads them, and no property does from then on.
* *Sequential.* The three parts have no variable in common and only one moves in a
  behaviour. Boot: arrays of half a page, a whole page and more than a page table
  covers, and an image of either parity. Formats: all of up to four characters over the
  prefixes, two conversions, `%` and a plain character, and some longer ones. Numbers:
  every value of a 5-bit `long`, for every base, width up to 7 and flag. Call numbers:
  those on both sides of the base, of the end of the table and of the bound.
* *Ipc.* The receiver's slot lies between the two senders' in scheduling order.
  Three messages each are enough for a fast sender to overtake a slow one twice.
* *Context.* Two values per environment tell a fresh register from a stale one, and
  two environments a right frame from the other's.

Deadlock checking is off in all runs because the modelled system really stops: with
nobody runnable the kernel loops with interrupts masked, and after `panic` as well;
the bounds on ids and messages stop the rest.

### Properties worth explaining

`Memory`: `FreeListSound` and `RefCovers` together say that no page is handed out while
somebody can still reach it; `TablesExclusive` that no environment can come to map a page
table; `WalkReaches` that a walk failing half-way leaves the tables usable; `ImplementsSpaces`
what every call does to what the environments see, the calls that fail and `env_free` included;
`CallsKeepCounts` and `LossIsReported` are about single steps: counts move with entries (only
`env_create` and `env_free` break that, see section 7), and a page is lost only by a call that
reports an error. `sys_mem_alloc` does lose one when `page_insert` finds no memory for a table.
`sys_env_alloc` ignores that result (`syscall_all.c:174`) and loses the page without saying so;
the property allows it one page, no more. `EnvFreeIsItsLoop` compares the formula of `EnvFree`,
with the order it gives the freed frames, with the loop of the code, whose visits change what
the later ones find. What depends on counts is claimed until one wraps, because `page_insert`
does not look: afterwards the next unmap frees a page that is still mapped. And all of it is
claimed until an `env_free` goes astray; the run `free_stray` shows what happens then.

`Env`: `RunnableRuns` is the fairness of round robin, and `BoundedWait` its measure: with
each entry of the scheduler a runnable environment runs or comes nearer to its turn.
`ImplementsTable` is the refinement: a slot is given back only by its environment or by the
parent of an environment whose id is accepted, while *anybody* may have an id refused, and then
nobody but the environment itself, and only while it runs, can undo it (`Switch`: it alone
leaves `refused`, by a call that returns). `NoSlotLost` and `ReceiverWakesWithMessage` (run
`links`) need programs that do not pass `ENV_FREE` (a slot is then neither used nor free), or
`ENV_RUNNABLE` (a receiver wakes and reads an old message) to `sys_set_env_status`, which
accepts both for any environment. The second says that whoever is woken finds the id of a
sender that just called; a child that only inherited the flag of its slot is a receiver too.
That the value is the one sent is followed in `Ipc`.

`System`: `ImplementsMemory` shows that ids only ever lead to live address spaces, so
that `Memory`, which names spaces directly, leaves nothing out and adds nothing;
`SpacesImplemented` that sends of pages are `map` calls of the abstract spaces too, and that
an environment that ends takes its own pages away and nobody else's until an `env_free` goes
astray. `SpaceIsolated` is what a program may rely on until then: its own pages change by its own
calls, its parent's, or by a sender at the address that `env_ipc_dstva` of its slot holds while
the receiving flag is set and it is blocked. Both fields may be those of the previous owner of
the slot (the child of a failed fork, section 7). `ReceiverGetsPage` is about
the order inside `sys_ipc_can_send`: were the receiver woken before the mapping is made,
a failure would leave it with a message and no page.

`Ipc`: `ImplementsMailbox` says in one formula that no message is lost, made up or
overwritten at any of the places an interrupt can come in: between the system call and the
return, and between the two reads of `ipc_recv`. `AllArrive` is the part under fairness.

`Links`: `MisuseStartsWithFork` says where `env_sched_list` goes wrong.
`sys_env_alloc` never inserts the child, but `sys_ipc_recv` and `env_free` remove
it; an environment that marked itself not runnable is removed again by its next blocking
call. The list is then damaged through stale pointers, without consequence today
because nothing reads it. `env_free_list` is never affected.

`LpPrint`: `FormatAccounted` reads the parts shown as a cover of the format: each starts
where the one before it ended, or behind a `%` with prefixes that came to nothing
(`Continues`), and nothing but such an opening may lie between the last one and the position
(`Behind`). Plain text, digits and `%` signs outside directives included, cannot be dropped.

`Boot`: `BootEndsInPageInit` is the link to `PMap`: entries, identity map and free list
are those the other modules start from, if memory that nobody has written is zero.

Each property of a passing run has a mutant: a definition changed the way a
programming error would change the code (a check left out, a status not set, an
entry kept). The mutants stand before the definitions they change, marked `Mutant`.

## 4. Fairness

Safety properties assume none. `RunnableRuns` assumes `WF(HandleIrq)`: `handle_irq`
re-arms the timer (`timer_init`) at each interrupt, and user code cannot mask
interrupts at EL0, so in user mode the next interrupt always comes.
`AllArrive` and `GameEnds` assume besides that a program which has the processor
again and again makes a step some time (`SF` of its steps): a time slice is hundreds
of thousands of instructions, and a step of the model a handful. Strong fairness is
needed because each interrupt takes the processor, and with it the enabling
condition, away. No fairness is assumed of the other system calls.

## 5. Proofs

All proofs are checked by TLAPS, and none assumes a bound of section 3. There is a
theorem for every action property of a passing run, for all five refinements, and for every
safety invariant but one, `EnvFreeIsItsLoop`; what is left to the runs besides is liveness
(section 6).

*`EnvProofs`* proves `Spec => []EnvTypeOK`, `Spec => []FreeListSound` and
`Spec => []IdsSound` for every `NENV`, every number of ids and every set of values
and statuses. `FreeListSound` is not inductive without the types, and `IdsSound` not
without knowing where *all* ids come from, those in free slots too: `env_free` leaves
the id in the slot, and uniqueness speaks of every slot. The invariant is
`IndInv == EnvTypeOK /\ FreeListSound /\ IdsIssued`, where `IdsIssued` says that an
id in slot `s` is 0 or was made by `mkenvid` for `s` with an earlier generation, and
that parents are older than children. Uniqueness follows by arithmetic:
`IdLeadsToSlot` (`ENVX` inverts `mkenvid`) and `IdsGrow` (a later generation is a
larger id). The effect of `env_alloc` and `env_free` on the list is `TakeHead` and
`PushHead` of `ListFacts`. That `curenv` never names a free slot rests on
`PickedIsUsed`: `sched_yield` picks a runnable slot, and free ones are not runnable.

Its last part proves `Spec => ImplementsTable`: with slots off the free list as the
environments alive and those of them with status `ENV_FREE` as refused, each step of `Env` is a
`Birth`, a `Death`, a `Refuse`, a `Switch` of `EnvTable`, or leaves what one sees through ids
unchanged. `RefusedFollows` says what a step does to `refused`, `YieldIsSwitch` that the
scheduler never picks a refused environment. It uses the invariant before and after the step,
`RoomLeft` (a free slot means fewer than `NENV` environments, by cardinality) and
`EntriesDiffer` (so that a death removes one environment only). A consequence is that no id is
ever used twice, though slots are.

`WaitIsBounded` proves `BoundedWait` for every `NENV`. The rank of a slot is `Ahead(pos, s)`,
the number of slots `sched_yield` looks at before `s`; `SearchMovesOn` shows that the first
runnable slot after `pos` leaves every other runnable one with a smaller rank, by arithmetic
modulo `NENV` (`Wraps`). A rank is less than `NENV`, so nobody is passed over more often:
this is the safety half of `RunnableRuns`, which adds only that the timer keeps coming.

*`LinksProofs`* first proves what the two macros of `queue.h` do, for a list of any
length: `InsertHolds` and `RemoveHolds` say that a list that holds the sequence `q`
holds `<<e>> \o q` afterwards, or `q` without its `k`-th element, wherever `k` is. The
proof goes through `InsertWrites` and `RemoveWrites`, the fields each macro writes, and
compares positions; that elements do not repeat (`Once`) is what keeps the writes apart.
The invariant `ListsInv` then says that `free` holds `freeList`, and that `sched`, until
`misused`, holds some sequence of exactly `queued`, whose slots are runnable. It is
inductive together with `IndInv` only: `env_alloc` unlinks the head because the head
of the pointers is that of the sequence, and `env_free` inserts a slot that is not in
the list because the environment it names is in use. From it follow `FreeLinksSound`,
`SchedLinksSound` (with `LengthIsCardinality`) and `SchedListHoldsRunnable`, whatever
the programs call. `MisuseStartsWithFork` is proved for programs that only pass
`ENV_NOT_RUNNABLE`; `NoSlotLost` for programs that do not pass `ENV_FREE`, and
`ReceiverWakesWithMessage` for those that do not pass `ENV_RUNNABLE`: these conditions
are hypotheses of the theorems, since `sys_set_env_status` checks nothing. The lemmas
`CreateTable` to `SendTable` say once what each call does to statuses and parents.

*`ContextProofs`* proves `ContextTypeOK`, `ResumesIntact` and `WaitsIntact` for any number of
environments and any values. The strengthening is `RunningHasSlot`: the slot of the environment
on the processor is not on the free list, though it may have blocked or lost itself. Without it
`fork` could write the child's frame over that of its caller. The argument turns on
`EnvRunSound`: `env_run` is right when the frame below `TIMESTACK` is that of `curenv`, or
`curenv` is NULL.

*`MemoryProofs`* proves all that the run `memory` checks, for any number of frames,
environments and pages, any table sizes and any width of `pp_ref`. The invariant is `GoodMem`:
until an `env_free` goes astray, which is the last step (`StrayIsLast`), `Good(mem)` holds:

* `Typed`, and `Walks` (an entry is valid only below valid entries); these hold whatever
  the programs call and give `MemTypeOK` (until astray), `WalkReaches` and `FailureKeepsMappings`;
* for programs that name no page of RAM or of the devices (`PagesAboveRAM`), `Kept`: the
  frames of the kernel keep their count and their identity entry;
* for such programs and until a count wraps, `Sound`: the free list holds a frame once
  (`Once`), with count zero (`FreeUncounted`); counts are at least the number of pointers
  (`Covers`); a table has one pointer (`Exclusive`).

None of the parts of `Sound` is inductive alone. That `page_alloc` gives out an unused frame
(`FreeUnused`) needs counts that cover the pointers; they go on covering them in `page_decref`
and `env_free` because tables are exclusive; and tables stay exclusive because what
`sys_mem_map` maps was found by `page_lookup` and is therefore neither a table nor free
(`InUse`). Each operator of `PMap` is taken apart once: `page_insert` is `Inserted`, a walk, a
removal and a link in the order of the code, and what is true of the three is carried through
it, and from it to the calls. The action properties follow from `Good` before the step.
`CallsKeepCounts` compares, for each frame, the surplus of its count over its pointers;
`LossIsReported` follows a frame from the moment `page_alloc` takes it; `DestroyIsLocal` that
the tables `env_free` takes apart are private. For a fork all this goes through its loop: what
one round keeps, `CopiesStay` keeps for any number of pages, by the induction of `ListFacts`
(`Induct`) over the results of the rounds.

Its last part proves `Spec => ImplementsSpaces` under `PagesAboveRAM`. A free frame is seen by
nobody (`FreeUnseen`, from `FreeListSound` and `MappedInUse`), so what `page_alloc` gives out
is fresh. A successful `page_insert` changes the end of one walk and of no other
(`InsertShows`); one that fails has removed nothing before, because a walk that finds a page
needs no table (`InsertRoom` says when there is memory enough for the tables). `CreateShows` to
`MemUnmapShows` carry this through the calls, in the order in which they fail, `CopySeen` and
`ForkShows` through the rounds of a fork; `FreeShows` needs that `env_free` writes only entries
of its own environment and of the identity map, which no page above RAM uses.
`FailureKeepsMappings` (errors show nobody but the child of a failed fork anything new) and
`DestroyIsLocal`, which are theorems too, follow from the refinement, and the runs check it in
their place.

`PagesAboveRAM` is a hypothesis of the theorems because the kernel accepts lower pages:
a program that maps one replaces an entry of the identity map and frees a frame the
kernel uses (section 7). The pages that programs of this repository use lie above. In an
earlier form of the model `env_free` released a frame twice that two tables name; the
proof of `Typed` did not go through, the code clears the identity entry the first time
and finds nothing the second, and `ReleaseOrders` was corrected.

*`SystemProofs`* takes the theorems of `EnvProofs` by extension and the lemmas of
`MemoryProofs` through an instance, `MP`. The invariant `SysInv` adds to those of the two parts
`Agree` (until a panic or a stray `env_free` a slot is free exactly when it has no directory)
and `Waiting` (a receiver waits with an address the call accepts). For each call one lemma
proves `Moves`: the invariant is kept, the step is one of `Env`, it is one of `Memory` or
leaves memory alone (`Usual`) or goes astray (`Stray`), and the two properties of `System` hold
of it. From these follow `TableUnderneath` (`SysSpec => Spec`: all that is proved of `Env`
holds of the composition), `MemoryIsImplemented` (`SysSpec => ImplementsMemory`),
`SpacesMatch`, `SpacesAreIsolated` and `ReceiversGetPages`; `FramesStayFree` and
`DestroyKeepsOthers` follow from what `MemoryProofs` proves of a good memory and of single
steps (`MemoryMoves`), with its hypothesis. `Memory` is instantiated once more in `System`
itself, and `SameEntries` to `SameNext` say that the operators of both instances agree.
`SystemSpaces` proves `SpacesImplemented`: the abstract spaces of `System` and those of
`Memory` are two instances of one module, and `SameSpaces` and `SameSpacesStep` carry a step of
one over to the other.

*`ProgramProofs`* proves `ExactlyOnceInOrder` and `OneInFlight` for any number of senders and
messages. `FlightInv` is the heart of `IpcInv`: while a message is in the receiver's fields,
or has been read from them by half, it is the last its sender sent and all others have
arrived; otherwise everything sent has arrived. `SenderInv` and `ReceiverInv` say where each
program can be, `HistoryInv` that the history of each sender is complete up to now. The
bound on the length of `received` follows from an injection of its places into senders
and messages. `MailboxIsImplemented` then shows `IpcSpec => ImplementsMailbox`: a delivery
by `sys_ipc_can_send` is `Put` (`MailPut`), the return of `ipc_recv` is `Take`
(`ReturnMails`), and retries, yields, the call of `ipc_recv`, its first read and the timer
cannot be seen (`OthersQuiet`). That ids are positive (`BootIds`) is what tells a message
from no message.

`TakeTurns` has two invariants. `GameInv`: one player has the turn, because it sends
the number or holds it on one of the three ways from the kernel to `i`, or has ended the
game; the other one waits. It does not say who may still send when somebody has left:
`LeaveInv` adds that numbers grow up to `Last`, that a player leaves only when `Last` has been
taken, and that nobody sends then. One player sends the even numbers and the other the odd
ones, so parity tells which of them sent `Last`. Nobody therefore runs into the panic of
`ipc_send`, for every `Last` and every timing, which is the safety half of `GameEnds`.

Both programs are shown to be programs of `Env` (`SendersUseKernel`, `PlayersUseKernel`): the
table `main` leaves satisfies `IndInv` (`BootedSound`), and every step is a step of `Env` with an
id and a value that a program may pass. So what is proved of `Env`'s steps holds for them, the
soundness of the free list and of the ids among it. The theorems suppose that `MaxEnv`, a
bound of the model, is not smaller than the number of environments `main` creates.

*`SequentialProofs`* is about what nothing interrupts. `CallsReachHandlers` follows from
`DispatchInv`: the registers hold what the wrapper put there until `el0_sync` has used them.
`FormatAccounted` follows from `PrintInv`, for every set of formats: the parts shown follow one
another through the format (`AllContinue`, kept by `PartAdded`), and the position is where the
last one ended, or one beyond it at a `%`; that `Skip` stops at the *first* `%` uses the least
element of a set of numbers. `FieldsReadable` (`FieldsAreReadable`) says that sign and digits
of every field, read back, give the number, for every width of `int` and `long`, every base,
width and flag. What repeated division computes is an induction over its length, which no
installed prover offers as a rule; it is done with sets of numbers (`Induct` of `ListFacts`,
from the least element outside the set), with `Rest` and `Power` as recursive functions
(`Iterate`, `Recursive`). `DigitsArePlaces` gives the digits by their places, `Magnitude`
covers the smallest `long`, whose negation is itself, and `NumberLaidOut` that padding and
reversal leave each digit in its place. For boot, `BootInv` goes phase by phase: `RamTables`
while `boot_mmu_setup` fills the block entries, then `Built`, which says that the identity map
is complete (`Identity`), that each table lies where `boot_pgdir_walk` will look for it
(`TopTables`, `Middles`), that every frame below `freemem` belongs to one table or one array
(`Owned`), and which pages of the segments are mapped so far (`AllMapped`). `SegmentsApart` is
`Owned`, and `BootEndsInPageInit` compares the tables with the entries of `PMap` one by one.
The latter has the hypothesis `PagesOutsideSegments`: the pages `PMap` speaks of are not those
of the segments boot maps. The proof showed that two arms of the CASE in `Word` could hold at
once; it is an IF followed by a CASE with disjoint arms now.

Assumptions on constants, all checked by TLC on the instances:

| Assumption | Says | Because |
|---|---|---|
| `NenvAssumption`, `BoundAssumption`, `ArgumentAssumption` | `NENV` is positive; values and statuses are as declared | `NENV` is 1024 in the code |
| `EnvsAssumption`, `NilAssumption`, `ContextAssumption` | names for the kernel, an invalid entry and NULL are not names of something else | |
| `SizeAssumption`, `SpacesAssumption` | page counts are in order, one directory entry covers RAM and devices, counts have at least two bits | `NPAGE` = 0x40000, 16-bit `pp_ref` |
| `WindowAssumption` | a table is one page; the blocks of the identity map follow RAM, and programs name no page below them | `mmu.c:38,46`; the pages of the programs here are those of the stack, below 0xe0000000 |
| `WordAssumption` of `Memory` | a word of a page names a frame, nothing, or a frame beyond `npage` | any 64-bit word |
| `StackAssumption` | the stack lies above the entries `env_free` skips | `USTACKTOP` |
| `IpcAssumption`, `PingPongAssumption` | the programs exist, their messages are values, and the last number is a natural number | |
| `LayoutAssumption` | the segments follow RAM in the order of `mmu.h` and lie within the second directory entry | the memory map in `mmu.h` |
| `SizesAssumption` | each array fits between its address and the next segment | segments are 16 MB apart, `pages` takes 6 MB |
| `FormatAssumption`, `WordAssumption` of `LpPrint` | a format has no terminator inside; `long` is no shorter than `int` | C |

## 6. What is only model-checked

`RunnableRuns`, `AllArrive` and `GameEnds`: liveness under fairness is out of the prover's
reach. Their safety halves are proved: `BoundedWait`, `ImplementsMailbox`, and the part of
`TakeTurns` about players that have left. `EnvFreeIsItsLoop`, which compares two definitions of
`env_free` on every state the run reaches; and `MemTypeOK` in the one state a stray `env_free`
leaves, after which nothing moves. And the runs with an expected violation.

## 7. Findings

1. `env_free` tests `PTE_V` the wrong way round (`env.c:181`), so that it calls
   `page_remove` on the invalid entries: the pages of a destroyed environment, and
   its directory page, keep their counts for ever (run `free_leak`).
2. `env_free` passes the *physical* address of each page table to `page_remove`
   (`env.c:185`, `187`). The identity map makes this release the table, and removes
   its frame from the identity map of all environments: the next `page_alloc` that
   takes this frame faults in the kernel (run `free_identity`).
3. `pgdir_walk` tests only `PTE_V` (`pmap.c:170`) and follows a block entry as if it led to a
   table. With the physical address of a table in the device window, which is what `env_free`
   passes (`env.c:185`, `187`) and where the first tables lie, `page_remove` takes a word of an
   unrelated frame for the entry, drops the count of the frame named there, down to zero and
   the free list while it is mapped, and clears the word (run `free_stray`).
4. `x16` and `x17` do not survive an interrupt (run `x16_x17`).

Seen while modelling, and represented in the models without a run of their own:

* `page_init` puts the frames from 0x3f000000 to `npage` on the free list, highest first
  (`pmap.c:120`), against the memory map of `mmu.h:78`: the first frames handed out are device
  addresses, without which finding 3 could not happen.
* `env_alloc` does not reset `env_ipc_recving` (`env.c:111`), so the next owner of a
  slot may have the flag set without receiving, which is not what `env.h:32` says of
  it. A child whose fork failed for lack of memory is then woken by a message, at the
  address the last owner waited with.
* With `env_ipc_dstva` 0, which `ipc_recv` normally passes, a page sent along is mapped
  over virtual address 0: the identity mapping of the first frame is replaced and that
  frame is freed.
* `env_sched_list` is damaged by the paths named under `MisuseStartsWithFork`.
* The bound in `entry.S:175` is 20 and the table has 14 entries: `syscall_cgetc`, number
  14, and raw numbers up to 19, or below the base, jump through what lies beyond.
* `env_create_priority` counts the stack page twice (`env.c:137` and `page_insert`).
* `sys_set_env_status` has no parent check: anybody may set anybody else, or itself, to
  `ENV_FREE`. Nothing is given back, the id is refused from then on, and the slot is lost unless
  that environment is the one that runs and makes itself runnable again.
* A fork that runs out of memory leaves an environment allocated whose id nobody was given,
  with the pages copied so far.
* `sys_env_alloc` ignores the result of `page_insert` (`syscall_all.c:174`): a fork may succeed
  with a page of the stack missing, and that frame lost.
* `pp_ref` is an unsigned `short` that wraps.
* `PrintNum` fills its buffer of `LP_MAX_BUF` characters before the length is looked at;
  no width in the kernel comes near.
* `page_check` cannot succeed: it asserts (`pmap.c:273`) that directory entry 1 leads to a
  page it has just freed, but boot has put a middle directory there.

## 8. Plan

Done: every component of section 2 modelled and checked, and the theorems of section 5. Left:

1. What remains of `Memory` when programs name pages of RAM: `PagesAboveRAM` could give way to
   a condition on the steps taken so far.
2. The fork test programs of `user/fork.c` over `System`.

## 9. Not modelled, and why

UART polling is device I/O without state the rest depends on; `printf.c` hands each
character of `lp_Print` to it. `start.S`, `el.S` and `enablemmu.S` are straight-line code
that runs once. `bcopy`/`bzero` act on page contents, which no module represents.
Permission bits and the TLB are left out: `page_insert` calls `tlb_invalidate` before it
writes the entry and `page_remove` after it clears one; no property here is about
permissions or cached translations. `page_check` and `env_check` are self tests that
nothing calls. `unimplement_handler` is the stop after a fault (`mem.panic`); its decoding
of the syndrome is wording. `usr_tmp/` is a separate program that the kernel does not
load. `sys_set_pgfault_handler` writes fields nobody reads, `sys_set_trapframe` only
panics and `sys_panic` is empty; all three appear in `Dispatch` only.
What follows a stray `env_free` is not modelled: `Memory` and `System` stop there.
`sys_ipc_recv` with an address at or above `UTOP` prints a message and
returns without changing anything; no program makes that call. The macros of `queue.h`
other than `LIST_INSERT_HEAD` and `LIST_REMOVE` (and the initialisers) are not used to
change a list. `main` as committed creates one environment, of `user_main_fktest2`
(`init/main.c:29`), and has the ping-pong program commented out (`:30`). That line alone would
create one player, whose first `ipc_send` finds no environment `0x1001` and panics. `Ipc` and
`PingPong` model a `main` that creates the environment of each program by an
`env_create_priority` call of its own, which is what the ids in `user_main_pingpong` suppose.
