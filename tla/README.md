# Verification of the Ymir compositor

Ymir is a scrollable-tiling Wayland compositor. This directory models its core
state machines in TLA+, checks them with TLC on small instances, and proves with
TLAPS, for every value of the constants, the main invariants of five of them.

| part | source | modules | run by | proofs |
|---|---|---|---|---|
| layout of outputs and workspaces | `layout/mod.rs`, `layout/monitor.rs` | `Subsequence`, `Monitor`, `Layout`, `LayoutProperties` | `MCLayout` | `IndexLemmas`, `MonitorProofs`, `LayoutProofs`, `ContentsProofs` |
| tiling inside a workspace | `layout/scrolling.rs`, `dwindle.rs`, `floating.rs`, `workspace.rs` | `Column`, `DwindleColumn`, `DwindleTree`, `Strip`, `FloatingStack`, `Workspace`, with `DwindleProperties`, `WorkspaceProperties` | `MCTiling` | |
| transactions between clients | `utils/transaction.rs`, `handlers/xdg_shell.rs`, `window/mapped.rs` | `Transaction`, `TransactionProperties` | `MCTransaction` | `TransactionProofs` |
| redraw loop, frame callbacks, session lock | `ymir.rs`, `backend/tty.rs`, `utils/vblank_throttle.rs` | `FrameLoop`, `FrameLoopProperties` | `MCFrameLoop` | `FrameLoopProofs` |
| services: IPC, shell protocols, configuration watcher | `ipc/server.rs`, `ymir-ipc/src/state.rs`, `protocols/ext_workspace.rs`, `protocols/foreign_toplevel.rs`, `utils/watcher.rs` | `EventStream`, `WorkspaceGroups`, `Toplevels`, `ConfigWatcher`, `Services`, `ServicesProperties` | `MCServices` | `ServicesProofs` |
| seat: keys, binds, interfaces, keyboard focus | `input/mod.rs`, `ui/mru.rs`, `ymir.rs`, `handlers/` | `Subsequence`, `RecentWindows`, `KeyboardFocus`, `Seat`, `SeatProperties` | `MCSeat` | `IndexLemmas`, `SeatProofs` |
| outputs: devices, connectors, modes, gamma | `backend/tty.rs`, `ymir.rs`, `ymir-config/src/output.rs`, `protocols/` | `OutputConfig`, `OutputHeads`, `Outputs`, `OutputsProperties` | `MCOutputs` | |

Source paths here are under `src/src/`, `ymir-*` under `src/`. An operator whose
name starts with `Bad`, or that a comment marks as a mistake, is a deliberate one
in the definition that follows it. `PROJECT.json` pairs each checked property with
one of them, and TLC finds the property violated when the mistake takes the
definition's place.

## 1. The system

The compositor is one process with one main thread. That thread runs a calloop
event loop whose sources are Wayland requests, DRM vblanks, udev and session
events, timers, channels and input. Each callback runs to completion; then
`State::refresh_and_flush_clients` (`ymir.rs:761`) refreshes derived state,
advances animations and redraws the outputs for which a redraw is queued. Little
state is shared between threads (the watcher's channel, transactions and their
blockers), so **one action of a model is one callback or one call**, and what makes
the system hard is the order in which callbacks come: a timer that runs out
after what it guards has happened, an output that is unplugged while a window is
dragged over it, a client that never answers, a refresh that comes later than the
key it would have redirected.

### Inventory

| component | state | operations | correctness | modelled |
|---|---|---|---|---|
| layout: outputs and workspaces (`layout/mod.rs`, `monitor.rs`) | monitors with stacks of workspaces, active indices, switch in progress, stranded workspaces, dragged window | hotplug, add, remove and move windows, columns and workspaces, name, switch, swipe, drag and drop, config reload | nothing lost, blank workspaces at the ends, replug restores the layout, indices stay on their workspace | partly |
| tiling inside a workspace (`scrolling.rs`, `dwindle.rs`, `floating.rs`, `tile.rs`) | columns, a binary tree per dwindle column, floating windows, focus | insert, remove, consume, expel, swap, fullscreen, maximize, toggle floating, resize | focus valid, tree and tiles agree, order kept, fullscreen windows find their way back | partly |
| transactions (`utils/transaction.rs`) | references, completed flag, notifications, deadline | register, block, complete | no client hangs, no commit early | yes |
| window configure protocol (`window/mapped.rs`) | requested, sent, acked and committed sizes | request, send, ack, commit, throttle | the last request is eventually sent | transactions and sizing modes only |
| redraw loop (`ymir.rs`, `backend/tty.rs`) | redraw state per output, vblanks, estimated vblank timers | queue, redraw, vblank, timer | no lost redraw, no leaked timer, animations go on | partly |
| frame callbacks (`ymir.rs:5074`) | sequence per output, last sent per surface | send, fallback timer | each waiting client gets one in a cycle | yes |
| session lock (`ymir.rs:5882-6128`) | lock state, lock render state per output, lock surfaces, deadline | lock, surface commit, deadline, unlock | nothing of the session shown once locked; every request answered | yes, without logind's hint |
| session pause and DRM devices (`backend/tty.rs`) | devices, connectors, surfaces, names, gamma | pause, activate, scan, mode set, lid | outputs follow connectors and configuration, gamma and names kept | partly |
| IPC server, event stream (`ipc/server.rs`, `ymir-ipc/src/state.rs`) | clients with bounded queues, last state sent | requests, initial burst, differences | a client's replica is the layout as of some refresh | partly |
| configuration and its watcher (`ymir-config`, `utils/watcher.rs`) | polling thread, last seen file properties, channel | poll, load, reload | the last change is loaded | watcher; lookup of outputs |
| input (`input/`) | suppressed keys, repeat timers, grabs | key, pointer, touch and gesture events | press and release paired | keys, buttons, binds; gestures as calls of the layout |
| MRU switcher (`ui/mru.rs`) | recency list, scope, filter, delayed commit | open, advance, cancel, confirm | a selection exists, modifiers close it | yes |
| UI (`ui/`) | what is open | open, close | takes and returns the keyboard | without drawing |
| protocol extensions (`protocols/`) | per protocol | per protocol | clients' view agrees with the compositor's | ext-workspace, foreign-toplevel, output management, gamma control |
| screencasting, Xwayland, D-Bus, rendering, cursor, spawning, headless and nested backends, IPC types and client, test harness | | | | no (section 11) |

### How the parts interact

- **Hotplug.** `Tty` finds a connector and calls `Ymir::add_output`, which places the
  outputs, calls `Layout::add_output` (where the workspaces go), makes an `OutputState`
  (redraw and lock render state) and queues a redraw. `remove_output` undoes
  these and may complete a lock. `Outputs`, `Layout` and `FrameLoop` each model their
  part; the only state they share is which outputs there are, which each takes as
  an input, so they are checked apart.
- **Resizes.** A layout operation makes a `Transaction` and asks the windows it
  resizes for new sizes; `Mapped::send_pending_configure` registers it with the
  configure; the client's commit takes it back in the pre-commit hook of
  `xdg_shell.rs` and is blocked on it. Dropping the last reference completes it
  and sends the clients to be looked at through a channel.
- **Columns.** A workspace owns a strip of columns; a dwindle column owns a tree.
  `Strip` knows of a dwindle column only what `DwindleColumn` promises, and
  `DwindleTree` is shown to implement that.
- **Redraws.** Any of these queues a redraw. Layout animations keep
  `unfinished_animations_remain` set, and the redraw state machine has to keep
  itself going until they end.
- **Refresh.** Once in a turn of the loop the IPC server, ext-workspace and
  foreign-toplevel compare the layout with what they told last, and the keyboard
  focus is computed anew. `Services` models the turn; `Seat` lets the refresh come at
  any later time.

### What is hard

`PROJECT.json` lists 40 hazards at their lines, with the properties that would
catch each going wrong. They are mostly of these kinds:

- *orders of calls*: operations of the layout in the middle of a workspace
  switch, a gesture or a drag, with outputs coming and going; some fifty operations
  on columns, stack and focus;
- *stale indices, ids and copies*: `active_workspace_idx`, `primary_idx`,
  `active_monitor_idx`, `previous_workspace_id`; the snapshots of output management;
  a popup grab granted before the focus moves;
- *timers against the events they guard*: transaction deadlines, the lock
  deadline, estimated vblanks, the vblank throttle, the delayed MRU commit, bind
  repeat;
- *partial failure*: renders that fail, clients that die holding references, slow
  IPC clients;
- *liveness*: commits, close animations, redraws, frame callbacks, locks.

Three have no property. Pointer grabs that outlive all outputs
(`spatial_movement_grab.rs:105`) and the order of the D-Bus calls of
`update_locked_hint` (`ymir.rs:6020`) are not modelled. The throttle timer that
outlives its output (`vblank_throttle.rs:58`) is in the model of the redraw loop
and excluded by an assumption (section 9).

## 2. The layout (`Monitor`, `Layout`)

`Monitor` holds the operations of `impl Monitor` as operators on a record: the
workspaces of one output from top to bottom, the active index, the previous
workspace and the switch in progress. `panicked` is set where the code would
fail an `assert!`, index past a slice, or call `clamp` with crossed bounds. A
workspace is `[id, orig, name, wins]`: windows are a set, because how they are
tiled belongs to `Workspace`. Indices count from 1.

`Layout` has the variables of `struct Layout` and one action per method that
changes them:

| actions | code |
|---|---|
| `AddOutput`, `RemoveOutput` (through `Connect`, `Disconnect`) | `add_output`, `remove_output` (`mod.rs:786-990`) |
| `AddWindow`, `AddWindowStranded`, `RemoveWindow` | `add_window`, `remove_window` |
| `MoveToWorkspace`, `MoveColumnToWorkspace`, `MoveToOutput`, `MoveColumnToOutput` | the methods of these names |
| `MoveActiveWorkspaceUp/Down`, `MoveWorkspaceTo`, `MoveWorkspaceToOutput` | `move_workspace_*` |
| `SetWorkspaceName`, `UnsetWorkspaceName`, `EnsureNamedWorkspace`, `ReloadConfig` | naming and configuration |
| `SwitchTo`, `SwitchToOn`, `SwitchUp`, `SwitchDown`, `SwitchPrevious`, `ActivateWindow`, `AnimationDone` | workspace switches |
| `SwipeBegin`, `GestureUpdate`, `SwipeEnd` | `workspace_switch_gesture_*` |
| `InteractiveMoveBegin/Start/To/Cancel/End`, `DndBegin/Hold/End` | `interactive_move_*`, `dnd_*` |
| `ToggleOverview`, `OpenFromOverview` | overview |

A switch abstracts its position to the workspace at the top of the view (`at`),
which is all that index adjustments and the bounds of a gesture's end read. Real
positions, sizes and layouts are not modelled. Ids come from a counter, as in
the code, and a call takes `IdsPerCall` of them.

Properties:

- `NothingLost`: `WorkspacesInPlace` (indices in range, each workspace on its
  output's monitor or the primary one, ids and names unique) and
  `WindowsConserved` (a mapped window is in exactly one place);
- `BlankWorkspaces`: the dynamic workspaces are what the user was promised: an
  empty one at the end (`BlankEnds`), and no other that is neither named nor active
  once a switch is over (`NoIdleBlank`);
- `NoPanic`: no assertion of `monitor.rs` fails and no clamp has crossed bounds;
- `HotplugKeepsLayout`: the design principles that open `mod.rs`, asked of every
  reachable layout, whatever is being dragged: the property itself unplugs and replugs an output;
- `ViewNeverSlips`, an action property of both scenes: an output stops showing a workspace only
  by a switch, or when the workspace leaves. It catches the off-by-ones of every
  index adjustment.

The run `layout` has two outputs, a window and a name, and two scenes: arranging
(hotplug, windows, workspaces, switches, with `empty_workspace_above_first` reloaded
both ways, at most 4 workspaces) and dragging (hotplug, overview, swipes, drags, at
most 3 on a monitor): 122,344 states. Why these are enough: an index adjustment
compares a position with another one, so three or four workspaces give every
order of the removed, active, previous and inserted ones; two outputs give a primary
and a secondary, and none, one and two connected; a second window matters only
where one workspace empties while another one does not. The bound is a conjunct of the
next-state relation. States are compared through `VIEW UpToIds`, which replaces each
remembered id by the place of its workspace (ids are only ever compared), and
outputs, windows and names are symmetric. Deadlock checking is off in all runs: a
compositor may rest.

`layout_named_edge` and `layout_replug` show the first two findings (section 10).
`NameUnfocusedEdge` says whether a client names, by id, the first or last
workspace of an unfocused monitor. It is false in the passing run, because the
code then breaks `BlankEnds` (the first finding), which would hide anything else.

## 3. Tiling inside a workspace (`Column` ... `Workspace`)

`Column` holds what the operations do to a column's list of tiles and its focus,
for ordinary and dwindle columns. `DwindleColumn` is a specification made of these: a
list of windows with one focused, on which opening, closing, moving, promoting,
preselecting and rebuilding have an effect that says nothing of a tree. It is
what the strip relies on.

`DwindleTree` is the tree itself (`dwindle.rs`): nodes are paths, leaves hold positions
in the list of tiles, splits have an axis and a ratio in tenths. Geometry is in
whole pixels with gaps, because neighbours are found by comparing edges
(`spatial_neighbor`), and a divider can be dragged only as far as the minimum sizes
below it allow. Actions: `Open`, `Close`, `Activate`, `FocusDirection`,
`MoveDirection`, `Promote`, `Preselect`, `ToggleSplit`, `DragDivider`, `Rebuild`.

- `TreeSound`: tree and list agree, a leaf has a neighbour across exactly the
  edges that are dividers, and the four directions reach every window;
- `StepsAreLocal`: a window that opens takes the space of one other, one that closes
  only gives space away, a move exchanges two places;
- `ImplementsColumn`: with `Seen == INSTANCE DwindleColumn` under the mapping from
  tree to list, every behaviour of the tree is one of the abstract column.

The run `tiling` plays two scenes. In the scene `tree` four windows (the least with a
split inside a split on both sides) are in a dwindle column, with two sets of options
that between them set each option away from its default and one ratio besides those of
the options; 3,337 states up to symmetry. The other is the workspace, below.

`Strip` is `ScrollingSpace` (columns, the active one, `activate_prev_column_on_removal`,
the window being resized), `FloatingStack` is `FloatingSpace` (stacking order with
dialogs above their parents), `Workspace` joins them as `workspace.rs` does and has one
action per operation: `Open`, `Close`, `FocusColumn`, `FocusTile`, `SwitchFocus`,
`ActivateAny`, `MoveColumn`, `MoveTile`, `MoveInTree`, `ConsumeOrExpel`, `Consume`,
`Expel`, `Swap`, `SetDisplay`, `Promote`, `Preselect`, `ToFullscreen`, `ToMaximized`,
`Resize`, `Float`, `BeginResize`, `EndResize`, `SetParent`, `ReloadConfig`.

Nothing but the code's own conditions guards them. Three of them can leave a column against
the assertions of `Column::verify_invariants`, and the model follows them into it and
names what they leave by two fields of a column:

- `stuck`: several windows of a column that is no longer dwindle stay fullscreen or
  maximized, against `scrolling.rs:6268`. `expel_from_column` leaves dwindle mode by
  `Column::set_column_display`, which keeps both flags (2284-2289);
  `set_column_display_at` ends fullscreen by `set_fullscreen`, which takes the request
  for the way back of the column's first window where `fullscreen_source_column` is
  stale (`Marked`, 3265-3293), and the others stay. A column is stuck until it has a
  window less, or another mode or display (`Loosened`).
- `leaf`: the position that the tree has the focus at, where it is another than the
  column's. `swap_window_in_direction` assigns `active_tile_idx` (2433-2435) without
  telling the tree, against 6275-6278; the next window then opens beside the tree's
  focus (`TreeFocus`), which puts both right again, as activating, moving and closing
  do. The swap takes for granted that the window it gives comes to stand above the one
  it takes; in a dwindle column, which opens windows where it wants, it may take back
  the one it gave.

What is asked of the workspace:

- `Verified`: the checks of the four `verify_invariants`, in the model's terms, but
  for those two of a column that is `stuck` or has a `leaf`, of which it asks that the
  tree's focus is one of its windows;
- `ColumnsVerified`: those two without the exemption. The run `workspace_columns` shows that
  the code breaks them, in five calls: a window opens fullscreen and two more in columns of
  their own, the first one's column becomes dwindle and takes all in, and a window is expelled
  (section 10);
- `OpenCloseRestores`: opening a window in a column of its own and closing it leaves
  columns and focus as they were;
- `FullscreenReturns`: a window made fullscreen goes back to the floating layer or the
  dwindle column it came from;
- `RearrangingKeepsFocus`: rearranging keeps the focus on its window, save three named
  exceptions: an expelled window leaves it behind, going to fullscreen and back takes it along,
  both on purpose, and a swap with a dwindle column does as said above.

Scene `workspace`: three windows (two in a column beside a third), dwindle columns of
`PageSize` 2, so that pages overflow, and at most `MaxBesides` 1 thing besides windows
and columns (a fullscreen column, a resize, a preselection, a dialog, a floating window beside
tiled ones). A stuck column does not count, so that the run goes on from there; both ways into
one and into a `leaf` are within the bounds. Where a window floats beside
tiled ones, has a parent, is resized or may return to the layer, or a side is preselected, the display
chosen for the session is none, so that nothing is missed but both at once. The run has 48,063
states in all.

Others that cost no property but surprise: `set_fullscreen(true)` on a window whose
column already has a source column takes the way back (`scrolling.rs:3263-3293`); a
window stays fullscreen when it returns to a dwindle column that has become
fullscreen; `make_column_dwindle_exclusive` reverses the order of each column it takes
in (against its comment, 2564-2566); `become_dwindle` forgets the options of the
column; making a window that is not focused fullscreen takes the focus in a dwindle
column and leaves it in an ordinary one; promoting exchanges the places of two
windows and not of the list's entries between them (2601).

## 4. Transactions (`Transaction`)

A transaction is reference-counted in the code. The model keeps who holds
a reference, `Held`: a window for its next configure, each configure sent and
not answered, each commit whose buffer is still being rendered. `Dropped` are the
transactions that lose their last reference in a step, and `Complete` completes
them in the same step, as `Drop for Transaction` does.

| action | code |
|---|---|
| `Request`, `Close` | a layout operation resizes windows; a window is closed or unmapped with a close animation for which others resize |
| `SendConfigure`, `NothingToSend` | `Mapped::send_pending_configure` (`mapped.rs:1069-1167`) |
| `PreCommit` | the pre-commit hook of toplevels (`xdg_shell.rs:1500-1595`), with `take_pending_transaction` |
| `DmabufReady` | the callback of the buffer's source |
| `DeadlineReached`, `RemoveTimer` | the deadline's timer and the ping that removes it, two separate sources |
| `NotifyBlockerCleared` | `State::notify_blocker_cleared`, which drains the channel |
| `StartCloseAnimation` | `ClosingWindow::advance_animations` |

The queue of commits of a surface is smithay's: the first one that is not ready
holds up the rest. It is modelled from how the code uses it and marked external
in the map.

Properties: short of its deadline a transaction completes exactly with the drop of its
last reference (`CompletesWithLastReference`); a client whose first commit is ready
is in the channel (`NoLostWakeup`); whatever waits has a deadline
(`WaitersHaveDeadline`); every blocked commit is applied (`CommitsApplied`) and
every close animation starts (`CloseAnimationsStart`).

Run `transaction`: two windows of two clients, two transactions, one commit in a
queue at a time; `w1` is configured again before it answers (69,528 states).
Two windows are the least that wait for each other, two transactions on one window
the least where an answer skips one.

Fairness (`Fairness`): weak for timers, for the buffer of the first commit,
for the channel, which is drained on each turn of the event loop, and for the
polling of close animations. Nothing is assumed of clients: they may never
answer, which is what the deadline is for. That a buffer is eventually ready is
the promise of the kernel's fences.

## 5. The redraw loop and the session lock (`FrameLoop`)

| variable | code |
|---|---|
| `out` | `output_state`: `redraw_state`, `unfinished_animations_remain`, `lock_render_state`, `lock_surface` |
| `timers`, `lockTimers` | estimated vblank timers and lock deadlines on the event loop (how many, so that a leaked one shows) |
| `flips`, `throttled` | submitted frames whose vblank is to come; vblanks held back by `VBlankThrottle` |
| `shown` | what the last frame on each screen shows: nothing, the session, the lock |
| `wants`, `onScreen`, `sent` | clients waiting for a frame callback; surfaces whose primary scanout output it is; surfaces served in this `frame_callback_sequence` |
| `lock`, `locker` | `lock_state`; whether its client lives |
| `redrawing` | `redraw_queued_outputs` is running |

`stale` and `failed` are history: something changed since the last redraw; the
last redraw failed on an active output.

| action | code |
|---|---|
| `StartRedrawing`, `Redraw` | `redraw_queued_outputs` and one call of `redraw` (`ymir.rs:4637-4764`): render, the redraw state after it, `lock_render_state`, the lock's progress, frame callbacks |
| `VBlank`, `ThrottleTimer`, `EstimatedVBlank` | `on_vblank`, the timer of `VBlankThrottle`, `on_estimated_vblank_timer` |
| `Lock`, `LockDeadline`, `NewLockSurface`, `CommitLockSurface`, `LockerDies`, `Unlock` | the handlers of ext-session-lock |
| `QueueRedraw`, `Commit`, `FallbackTimer`, `StartAnimation`, `AnimationEnds` | clients, input, animations, the one-second fallback timer |
| `AddOutput`, `RemoveOutput`, `PowerOff`, `PowerOn`, `PauseSession`, `ActivateSession` | hotplug, DPMS, virtual terminals |

What a render comes to (`RenderResult`) is a choice: submitted, no damage (only
if the screen already shows what it should), skipped before there is a frame
(`early`), or skipped after one was rendered (`late`, where a timer is queued).
Powering off and switching away blank `shown`: the framebuffers are cleared or
belong to another process, and a resumed surface has its state reset
(`tty.rs:1119-1128`), so its next render has damage.

Properties: `TimersAwaited` and `VBlanksAwaited` (the state machine and the event
loop agree on who waits for what), `NoLostRedraw`, `DarkScreensRedrawn`,
`AnimationsKeepDrawing`, `LockHides`, and, with fairness, `EveryLockSettles`,
`EveryRedrawHappens`, `EveryFrameCallback`. `NoPanic` is proved, and violated
by `rogue_vblank`.

Run `frame_loop` has two disjoint instances in one state space (135,889 states): two
outputs that come and go with no client window, for the lock against outputs, power, virtual
terminals and failed renders; and one output alone with a window, animations and early
vblanks. Two outputs are the least where one is locked and another is not. Fairness is
assumed of both instances: `EveryLockSettles` and `EveryRedrawHappens` are checked in both,
so a lock also settles while an output is plugged and unplugged for ever, and when the
last unlocked one goes (its mutant drops just that); `EveryFrameCallback` needs a
client, whose callbacks, animations and vblanks are per output, so that one suffices.
All variables are finite without a bound: the counts of timers stay at 0 or 1 as
`TimersAwaited` shows.

Fairness: weak for the redraw loop, which runs to its end on every turn of the
event loop; strong for timers and vblanks, since calloop dispatches every source
that is due on each turn, even when events that queue redraws keep coming in
between (actions are disabled while `redrawing`, which is why weak fairness would
not do); one condition per output covers its vblank and the timers in place of one (`Timed`). That each submitted frame gets a vblank is the kernel's promise. Nothing is
assumed of clients, of users, or of the results of renders; the liveness
properties except explicitly what a failed render, a dark screen or a lock
excuses.

## 6. Services (`Services` and its parts)

`Services` is the turn of the event loop: callbacks of sources in any order (`ChangeLayout`,
`ChangeKeymap`, `Connect`, `RequestAction`, `RequestStream`, `Reply`, `Deliver`, `HangUp`,
`BindManagers`, `StopManagers`, `ConfigLoaded` and the watcher's thread), then the idle callbacks
(`RunIdles`), then `Refresh`.

| module | models |
|---|---|
| `EventStream` | the initial burst, what each event does to a client's copy (`ymir-ipc/src/state.rs`), the events found by comparing layout and copy (`ipc/server.rs:480-900`) |
| `WorkspaceGroups` | ext-workspace: handles of workspaces, groups of outputs, enter and leave |
| `Toplevels` | the ext list and the wlr management of toplevels |
| `ConfigWatcher` | the polling thread, what it saw of file and includes, its channel of one, requests to load another file |

Properties: a client's copy with what is in its channel is the server's copy, which is the layout
after a refresh (`NoGap`); a client that has the reply to an action is then told of a layout
after it (`ReadYourWrites`); what a shell client was told by differences is what one that
binds now would be told (`ShellsFollow`); when a poll finds nothing new the configuration in use is that of the
files or the user was told (`ConfigFollows`); within a refresh no event names what is
not there and at no point two workspaces of an output are active or two windows focused
(`OrderMatters`).

The streams are a set, since no property or event depends on their order. Run `services`: one client (they share nothing but the server's copy), a channel of 6 events,
and an initial state that picks a scene and a budget: few layouts with all
interleavings, or one change from any layout to any other, of workspaces on up to two
outputs, of windows, or of casts; the watcher, under a layout
that stands still, with up to three changes of files, or two and a request (1,063,094 states). The user's file uses the other one as an include, an optional include, a module
that it requires, or not at all.

Exempt by name: `Races` is empty in the run, which leaves out the changes that the watcher is known
not to see: a file changed between the first load and the start of the thread;
an include changed between a load and `set_includes` (which `watcher.rs:98-102` documents, and which
the bounded channel makes longer); a file that changes while it is loaded and back.
A request to load a file that is missing is dropped. `ConfigFollows` itself excuses, wherever it comes up
in the run, a required module that was missing when the file was loaded and has
appeared (`ModuleAppeared`): `include_config`, `dofile` and `loadfile` note the path before they
read it, so a missing include is watched for, but `require` notes only a module that it has found
(`lua.rs:1368-1389`), so that the configuration stays reported as broken, although it would load, until the file that
requires the module changes. `Configuration:-Include.md:18` and the comment at `lua.rs:363` make no such
difference. Not modelled: a module found in `~/.config/ymir` that is later shadowed by one beside
the file, which is not watched for either. `OrderMatters` excuses a workspace that
loses its name and changes its output in one refresh: ext-workspace then sends a `leave` before
the `enter`.

## 7. The seat (`Seat` and its parts)

`RecentWindows` is the list of Alt-Tab under scope and filter (`ui/mru.rs`);
`KeyboardFocus` computes who has the keyboard (`update_keyboard_focus`) and keeps the timestamps of
focus with their delayed commit; `Seat` has the handlers: `PressKey` and `ReleaseKey` with binds,
repeat and cooldown, `PressButton`, `ReleaseButton`, `HoverMru`, `IpcAction`, windows that map,
unmap and ask for activation, layer surfaces, popup grabs, shortcut inhibitors, the exit dialog, the
screenshot UI, the lock, and `Refresh`. Actions on the record `seat` come in any order with the
refresh at any later time.

Properties: every press has its release with the same recipient, and a bind repeats only while its
key is down (`KeysPaired`); the open list has only windows that are there, one of the visible
ones selected, and a modifier held that will close it (`SwitcherInStep`); the window with the
keyboard is the most recent one (`FocusedIsNewest`); once refreshed, the focus is
the lock's in a locked session, one window takes itself to be focused, and a popup grab with the
keyboard does not outlive its root's focus (`FocusInCharge`).

Run `seat` (432,078 states): seven kinds of configuration, each with its keys, binds, windows and
actors: `Scopes`, `Filters`, `Recency` (with `debounce_ms`), `Terminals` (VT switch and lock while keys and
buttons are down), `Interfaces` (dialog and screenshot with lock or inhibitors), `Popups` (with two of
layer surfaces, lock and interfaces), and `Layers` on each of the four levels.
Three windows in the list are the least where the one selected, the one focused and the one that
goes away differ; the stamps are ranks, so that time is finite.

Not pursued further, but seen while modelling: a popup grab granted between a change of the
layout's focus and the refresh stays (`xdg_shell.rs:334-336`), and the grab is granted under
recent windows and overview (the FIXME near 354); a repeating `MruAdvance` opens the list again
after a click closed it; a bind that is held repeats under the exit dialog; `ChangeVt` forgets suppressed
keys and not the repeat timer; with `debounce_ms` set to 0 by a reload a pending commit
may set a timestamp back; the accessibility interface keeps suppressed keys by
keysym and its grab can swallow the release that confirms Alt-Tab; two mice share suppressed buttons;
keys between a lock and its refresh go to the old focus. `KeysPaired` excuses the keys a VT switch forgot
(`strays`).

Not in the model: accessibility grabs, touch, tablets, backdrop layers, keyboard layouts, input
methods, focus that follows the mouse, releases that a VT switch withholds, the move
grab of a click in the overview.

## 8. Outputs (`Outputs` and its parts)

The kernel's side is `present`, `plugged`, `readable`, `changed`; what the compositor keeps is the record
`tty`, which the handlers transform: `UdevAdded`, `UdevChanged`, `UdevRemoved`, `PauseSession`,
`ActivateSession`, `SetLidClosed`, `ReloadConfig`, `OutputCommand`, the requests of gamma control and
of output management, and `RefreshOutputs`. A gamma control is kept by its output
(`gamma_control.rs:24`) but acts on the surface of its CRTC, so its key is a connector and which
output of it: the present one, or one that was removed less than ten seconds ago (`late`) and whose
`wl_output` the client that had a control of it still holds. `OutputConfig` is the lookup of an output's section, the mode
picked and `reposition_outputs`; `OutputHeads` is what a client of output management is told.
Modes are widths, outputs lie on one line, a make stands for make, model and serial.

Properties: devices, connectors, surfaces and modes follow kernel, configuration and lid
(`OutputsFollow`); no screen keeps showing what another session drew (`NoStrayScreens`); names do not
match each other and placement depends on names and configuration, never on the order of
arrival (`NamedAndPlaced`); the gamma asked for last survives pause and resume and
goes with its control (`GammaKept`); a client of output management knows the outputs
(`SteadyHeadsMirror`).

Run `outputs` (673,017 states): a laptop with a panel and a port, a dock with one port, monitors of one
make in both ports, a headset, EDIDs that are read late. Four scenes: hotplug with
lid and sessions (6 inputs), configuration by file and IPC, gamma of the port beside a panel that must keep none, output management (9 inputs: bind,
create, configure, apply, a plug and a refresh between). `outputs_panel` is the fourth finding.

Exempt by name: `skewed`, heads whose number of modes has changed, for which `notify_changes`
(`output_management.rs:96-270`) compares indices of different lists; `resized`, outputs that changed their mode
since they were placed, because `device_changed` and a resume resize without placing
anew; `left`, after the fourth finding; `crossed`, an output whose gamma a control of its removed
predecessor has set or reset: `GetGammaControl` takes `Output::from_resource`
(`gamma_control.rs:105`) where `ymir.rs:2946-2957` warns that accessing a forgotten output "can cause
logic bugs" and offers `output_from_resource`, so after an unplug and a replug one CRTC may have two
live controls, and the program that holds the new one is not told that its gamma is gone.
Without the exemption TLC shows it in seven steps: get a control, unplug and replug with the two events, get a control
through the old `wl_output`, ask for a ramp through it. Also seen: a monitor whose EDID comes late stays
unnamed until it is replugged, one swapped while the session is away keeps name and lease state, and so
does the second of a make; a headset counts as an external monitor for the lid; `SetMode` with a listed
custom mode falls back; a pending gamma that fails after a resume is not restored;
`update_output_config_on_resume` is redundant.

Not in the model: scans, openings and mode sets that fail, leases in use, variable refresh
rate, scale and transform, the serial of the D-Bus interface.

## 9. Proofs

Each proof names an inductive invariant, shows that `Init` implies it and that each action
preserves it, one step per action, and derives the properties by temporal logic.

**Transactions** (`TransactionProofs`), for any number of windows, clients and
transactions (assumed: `NoTx` is not a transaction, `ClientOf` maps windows to
clients, the configuration flag is Boolean). `Inv` is the three safety properties with
`TypeOK` and four facts they rest on:

- `OnlyCreated`: references are to transactions that were made, so a new one
  starts with none;
- `HoldersRender`: a commit keeps its reference only while its buffer renders, so
  that a ready commit can be applied without dropping anything;
- `Subscribed`: a commit blocked on an incomplete transaction is among those
  it will notify. Without it `NoLostWakeup` is not inductive: completion wakes
  only those that asked;
- `TimersStopped`: a timer stops only with its transaction complete, which is what
  keeps `WaitersHaveDeadline` when the timer's state changes.

Theorems: `TypeCorrect`, `LastReference`, `WakeupsKept`, `DeadlineGuards`.
`LeastNat` (`IndexLemmas`), that a nonempty set of naturals has a least element, is
needed for the first blocked commit of a queue.

**Redraw loop and lock** (`FrameLoopProofs`), for any set of outputs, assuming
`NoQuirks == ~(EarlyVBlanks /\ Hotplug)`. The assumption is needed: the timer of
`VBlankThrottle` is not removed with its output, and when the output is plugged in
again it acts as a vblank without a frame (the state of `rogue_vblank`). The parts of
the invariant:

- `LoopInv`: timers, vblanks, requests and `NoPanic`, with no throttled vblank where
  there is hotplug and no timer of an output that is gone. `NoPanic` rests on the
  first: a timer exists only for a state that the callback accepts;
- `LockInv`: an output whose render state is locked does not show the
  session; an output that is unplugged or has no power shows nothing; a confirmed
  lock has all render states locked. `LockHides` alone is not inductive: what a
  screen shows follows from the render states only with the second conjunct,
  because `redraw` sets the render state of a screen without power although
  nothing was drawn (`ymir.rs:4697-4706`);
- `DrawInv`: what keeps an output drawing: a dark screen is pending or failed,
  an output with an animation is not idle.

Theorems: `TypeCorrect`, `TimersMatch`, `NeverPanics`, `VBlanksExpected`,
`RequestsKept`, `LockedIsHidden`, `DarkScreensDrawn`, `AnimationsDrawn`.

**Layout** (`IndexLemmas`, `MonitorProofs`, `LayoutProofs`), for any number of outputs, windows,
names and calls, and any configurations. The invariant `IInv` says that every monitor is `Sound`,
that `primary` and `focused` are indices of monitors, and that workspaces are parked without an output only
while there is none and if they are named or filled. `Sound` is stronger than the
properties on three counts, without which a call breaks it:

- the blank workspaces at the ends must belong to the monitor's own output (`SpareEnds`):
  otherwise `RemoveOutput` and `AddOutput` could take the last one away as a workspace of another
  output;
- the workspaces that a gesture or an edge scroll is between must be there (`SwitchFits`), for the bounds of
  the `clamp` at its end to be in order and for the index it ends at to be one of the monitor;
- with a blank workspace above there is never just a pair of workspaces: with two, clean-up
  would find the first and the last blank and the monitor short of one.

`IndexLemmas` has what it means to keep the elements of a list at some places (`Keep` of `Subsequence`,
Rust's `retain`), which the list of recent windows needs too. `MonitorProofs` has what the other
sequence operators do (insert, remove, swap, the folds of clean-up) and what each step of clean-up keeps, and a
lemma for each operator of `Monitor`, from a sound or nearly sound monitor to one that clean-up makes sound; `LayoutProofs`
has one lemma for each action. The hypothesis of the theorems, `~NameUnfocusedEdge`, leaves out the call of the
first finding, with which they do not hold, as the run `layout_named_edge` shows.

Theorems: `LayoutInvariant`, `LayoutTypes`, `BlanksInPlace` (the property `BlankWorkspaces`),
`LayoutNeverPanics` (`NoPanic`).

**Contents of the layout** (`ContentsProofs`), under the same hypothesis, on top of `IInv`. `NothingLost` compares
workspaces and counts windows over all stacks, by position; to insert one workspace is to move
every later one. The invariant `AllLaid` is about sets instead: there is a `D` that gives each home (an output, or
none) a *set* of workspaces such that

- `Sits`: each stack shows the set of its home, blank workspaces apart (`Holds`), and each once;
- `World`: no two workspaces of `D` have an id, a name or a window in common (`Single`); ids are older than
  `nextId`, and the windows on workspaces are, with those in the user's hand, just the open ones (`Known`); a
  workspace is on an output that it originated on, or on the primary one while that is away (`Housed`);
- `DragFits`: a drag is about one open window.

That `Holds` lets blank workspaces go is what makes this work: when clean-up drops some of them, which ones
does not matter, and `D` may stay as it is; only ids that were given once are never given again. Each
operator of `Monitor` gets a lemma on `Holds` (what set its stack shows: one more, one exchanged, one less), each
change of a set one on `World` (`WorldMoved`, `WorldDealt` and what follows from them), and each call a lemma
that joins the two. The hotplug lemmas need `Housed`: `AddOutput` takes back from the primary output just those
workspaces that are not allowed there once their own is connected.

`HotplugKeepsLayout` follows from `IInv /\ AllLaid`, but speaks of the order in which stacks show their workspaces, and
of what two calls in a row make of it. The lemmas on it are about `Only(s, C)`, what a list has of `C`, in order: `Carries` (a map of
indices that keeps the order and what is there) makes two such selections the same (`SameOnly`), a
selection from a selection is one (`KeptTwice`), and what was inserted or joined on can be told apart (`OnlyInserted`,
`OnlyJoined`). With `Full` for the workspaces that are not blank, clean-up keeps `Only(ws, C)` for every `C` in
`Full` and what the monitor shows (`SameFull`, `ShowsAs`), `AppendWorkspaces` appends (`Continues`),
`NewMonitor` has what it was given and shows the one that it was told to (`Brings`), and `WithoutThoseOf` has
the rest (`Without`). A replug is then these in a row: what an output leaves behind is, among that of the primary one, just
the part that originated on it, since by `OwnMonitor` nothing else there did. This is where
`AllOwn` is needed, and where the second finding bites.

`ViewNeverSlips` is about a step. Each operator of `Monitor` gets one more lemma (`MonitorProofs`), that the monitor
shows what it showed (`Stays`), or now remembers it as the previous one (`Leaves`): here each index that is
adjusted after an insertion, a removal, a swap or a clean-up is compared with the place to which the workspace has moved.
Operators follow each other in a call, and two that leave would remember only the second workspace; so the lemmas on calls
(`LayoutProofs`) say which of them stay. They conclude `MonitorsKeep`, about each monitor and its successor. Only where
workspaces change hands, on hotplug and in `move_workspace_to_output`, is `AllLaid` needed (`ContentsProofs`): outputs have one
monitor each, and a workspace that was taken off is among those of the other monitor, under the id it had, since
there ids are apart (`HandedIsThere`).

Theorems: `ContentsInvariant`, `NothingIsLost` (`NothingLost`), `HotplugKeepsTheLayout` (`HotplugKeepsLayout`),
`ViewStays` (`ViewNeverSlips`).

**Seat** (`SeatProofs`), for any keys, buttons, windows, layer surfaces and configurations whose binds
are made of the actions of the model (`BindsAssumption`, which TLC evaluates). The invariant `SeatInv`
has four parts:

- `Paired`, which is `KeysPaired` of a state. It is inductive by itself, but between the press of a key
  and what becomes of it the key is accounted for nowhere: the lemmas on handlers go through `Down`, the
  state in which one key is missing, and `Up`, in which one key is left over;
- `Bound`: the bind that repeats is one that the configuration has or that the code makes;
- `InCharge`: a locked session has no other interface open, the marked windows are those of
  the focus, and a grab that has the keyboard and has had the focus has it. `FocusInCharge` speaks of the refreshed
  state; with `InCharge` in the state as it is, the refresh keeps it. It also has `StampsFit`: of the windows, the
  one that has the focus was used last (`Leads`), where a window counts as used at the stamp that waits for it
  (`UsedAt`), if one does. `FocusedIsNewest` alone is not inductive: a commit that waits could be
  older than a stamp which is already there, and a window that is not mapped could have kept a stamp for when it is mapped again.
  That `Ranked` renumbers the stamps after every step changes no comparison between them; the windows are finitely many
  since `WindowOrder` lists them. And it has `ListFits`: the list of recent windows has mapped windows,
  each once, and selects one of those `Shown` if there are any; it is open just when there is something in it. Of
  `Recent`, which picks for each place the window with that many newer ones, the proof shows that it lists each mapped
  window once: in a finite set with a strict total order each element has a place of its own and each place is
  taken (`PlacesTaken`). Of a window that goes, it shows that moving the selection on before the thumbnail is
  dropped selects one that stays (`DropFits`): only if the window was the only one shown does moving on lead back to
  it;
- `Held`: while the recent windows are open, and while a bind repeats that opens them, a modifier is held.

Every operation is shown to be one of two kinds: it leaves keys and buttons alone and keeps
`InCharge` (`Spares`), or it also forgets the suppressed keys, as a VT switch does (`Acts`). Neither opens
the recent windows without a modifier (`Stays`), save for the action that opens them, of which the binds are shown to
be `Backed` by one.

`PressesPaired` (`KeysPaired`) needs no hypothesis. `FocusGoverned` (`FocusInCharge`) has
`LockedBinds`: no configured bind with `allow_when_locked` advances the recent windows or moves the focus.
The proof attempt found that it is needed, and twice: the parser
accepts the flag for any action (`ymir-config/src/lua.rs:621`), so that a `next_window` bind with it
opens the recent windows over the lock; and the binds that the recent windows make from
focus binds inherit the flag (`ui/mru.rs:1918-1921`), so that one of them which
repeats while the session is locked opens them there as well. The keyboard stays with the
lock in both cases, which `update_keyboard_focus` decides first.

`SwitcherGoverned` (`SwitcherInStep`) has `TameBinds`: `LockedBinds`, without which the release of the last modifier
is not taken as a confirmation when the list is open over the lock, and `SwitcherBinds`, that binds which open the recent windows have
a modifier and nothing opens them over IPC. The second is what a comment says that the parser enforces and it does
not (section 10). That the list is one of mapped windows with one of those shown selected is part
of `SeatInvariant` and needs neither. The configurations of the run `seat` satisfy both hypotheses.

`NoWindowAssumption` says that "none" is not a window.

Theorems: `SeatInvariant`, `PressesPaired`, `FocusGoverned`, `NewestFocused` (`FocusedIsNewest`),
`SwitcherGoverned` (`SwitcherInStep`).

**Services** (`ServicesProofs`), for any clients, views of the layout, scenes and budgets. Two independent
invariants:

- `TurnInv`, for `ReadYourWrites`: a version that a client's action made has been read by a refresh unless the client
  still waits for its reply and that refresh is the next step. It needs that no stream belongs to a client that
  waits, since `send_event` may close a stream at any time, and that `idle` is empty when a refresh
  begins;
- `WatcherInv`, for `ConfigFollows`: what the last result says, in use or still in the channel, is true of the files and
  includes that the thread has seen (`Reflects`), as long as those are what they were. The
  statement has to be conditional: a file may change at any time, and the invariant is what makes
  the change visible to the next check. While a request for another file is between `Wake` and
  `Check` it does not hold (`Asked`), which is why a request sets `force`. That a file which changes is not taken for the one
  that was seen rests on modification times that grow with each change.

The thread knows an include that a file names even when it is
missing, and a module only if it was found (`KnowsUse`); what the last load came to when it was not is part of
the invariant (`ComesTo`).

`ConfigFollowed` assumes `Races = {}`: each of the three races (section 6) breaks it. The modules that are
excused (`ModuleAppeared`) are so in the property itself, for just the polls at which the file requires a module that
is there and that the thread does not know.
`MissingAssumption` says that "no file" is neither a file nor what is known of one; TLC evaluates it.

Theorems: `AnswersAfterRefresh` (`ReadYourWrites`), `ConfigFollowed` (`ConfigFollows`).

**Only model-checked**: all liveness (`CommitsApplied`, `CloseAnimationsStart`, `EveryLockSettles`,
`EveryRedrawHappens`, `EveryFrameCallback`), which rests on fairness and is beyond the prover;
`NoGap`, `ShellsFollow` and `OrderMatters` of the services; and all of `Dwindle`, `Workspace` and `Outputs`, which are
built from folds over sequences, flattened lists and recursive functions: what such a
definition computes for every input needs an induction that the installed provers cannot do.

## 10. Findings

1. `layout_named_edge`: naming by reference the last workspace of a monitor that
   is not focused leaves that monitor without an empty unnamed workspace:
   `set_workspace_name` puts the blank workspaces back on the active monitor only
   (`mod.rs:4702-4723`), against `monitor.rs:2196-2199`.
2. `layout_replug`: a workspace made while no output was connected belongs to no
   output, so that unplugging and replugging the primary output that shows it
   leaves it elsewhere, against principle 1 (`mod.rs:16-17`). `HotplugKeepsLayout`
   holds where every workspace is the output's own.
3. `rogue_vblank`: a vblank that comes while an estimated vblank timer runs is
   logged and survived (`tty.rs:1740-1756`), but the timer stays on the event loop
   and its callback then reaches `unreachable!()` (`tty.rs:1835-1837`).
4. `outputs_panel`: `device_removed` does not call `on_output_config_changed`, so with
   the lid closed and the last external monitor on a dock, unplugging the dock leaves the panel off,
   against the comment at `tty.rs:1131-1132` on the call in `device_changed`.
5. `workspace_columns`: expelling a window from a fullscreen dwindle column of three
   leaves an ordinary column of two fullscreen (`expel_from_column`,
   `scrolling.rs:2284-2289`), against the assertion at 6268; leaving dwindle mode with a stale
   `fullscreen_source_column` does so, too, and a swap with a dwindle column breaks the one
   at 6275-6278 (2433-2435).

Smaller disagreements between comments and code that no run is spent on: binds of the recent windows "must have a modifier, this is enforced during parsing"
(`ymir-config/src/recent_windows.rs:123-124`), and `read_mru_bind` (`lua.rs:4169-4206`) enforces nothing, so that a bind
without one opens the list with no modifier held (by a button of the pointer it then stays open until a click or
the release of some key); in a dwindle column
promoting moves the focus to the head and no window, because `promote_at` renumbers the leaves
before the list is sorted by them (`dwindle.rs:1784-1800`, against `scrolling.rs:2601`); a dragged
divider without room hands the drag on to an outer one on the same side (against `dwindle.rs:790-794`); and those
listed at the end of sections 3, 7 and 8.

## 11. What is not modelled

- *Pointer grabs* (`input/*_grab.rs`), touch and tablets: the calls they make of the
  layout are modelled, their own state is not.
- *Sizes*: window configure sizes, one-off sizes and resize throttling
  (`mapped.rs:770-1430`), heights in an ordinary column, view offsets, floating positions.
- *Rendering, animation curves*: real-valued or GPU code.
- *In `redraw`*: screencopy, screencasts, variable refresh rate, presentation
  times; in the lock, `update_locked_hint`.
- *Smithay, calloop, libdrm, udev*: external; modelled only by what the code relies
  on (commit queues, timers, vblanks, device lists).
- *Parsing of configurations, IPC types and client, spawning, cursor*: data and operating
  system calls, no state machine.
- *Screencasting, Xwayland, D-Bus and accessibility*: against external daemons.
- *Headless and nested backends, test harness*: not what runs a session.

`PROJECT.json` has each with its reason.

## 12. What is left

1. `Mapped`: requested, sent, acked and committed sizes with throttling, composed with
   `Transaction`; liveness: the last request is sent.
2. Pointer grabs against hotplug, and the threads of `update_locked_hint`.
3. Screencasts: the state machine of a stream against PipeWire's callbacks.
