----------------------------- MODULE WebGpuApp ------------------------------
(* The two demos over the generated bindings: app.py renders one frame and   *)
(* reads it back, interactive.py renders to a window in a loop.  Both wait   *)
(* for the callbacks of asynchronous requests in a bounded pump.  The driver *)
(* and the window act between their steps.                                   *)
EXTENDS Naturals, Sequences

CONSTANTS
  Turns,        \* turns of the pump, 100000 in the source
  MaxFrames,    \* WEBGPU_FRAMES, which bounds a smoke test; not 0
  Sizes         \* framebuffer sizes; 0 is a minimised window

WebGpuAppAssumption == MaxFrames \in Nat \ {0}

VARIABLES
  program,                       \* "headless" is app.py
  pc, status,                    \* where main is, how it ended
  requested, answer, got, turns,     \* the request waited for, the driver's answer,
                                 \* the dictionary the callbacks fill
  used,                          \* the handles that calls have been given
  gpu,                           \* the submitted copy, the readback buffer, what was read
  window, closed,                \* what the user does
  size, surface, uniform,        \* fb_w and fb_h, what they were given to
  held, frame                    \* handles of the frame not yet released

waiting == <<requested, answer, got, turns>>
screen == <<window, closed, size, surface, uniform, held, frame>>
appVars == <<program, pc, status, waiting, used, gpu, screen>>

FrameHandles == <<"cmd", "rpass", "encoder", "view", "texture">>

AppInit ==
  /\ program \in {"headless", "interactive"}
  /\ pc = "start" /\ status = "running"
  /\ requested = "none" /\ answer = "none" /\ got = << >> /\ turns = 0
  /\ used = {}
  /\ gpu = [work |-> "none", buffer |-> "blank", mapped |-> FALSE, png |-> "none"]
  /\ window \in Sizes /\ closed = FALSE
  /\ size = 0 /\ surface = 0 /\ uniform = 0 /\ held = << >> /\ frame = 0

Running == status = "running"
Ended == ~Running

Ends(how) == status' = how /\ UNCHANGED pc
Goes(to) == pc' = to /\ UNCHANGED status

\* Python's assert and an early return.
Checked(ok, how, to) == IF ok THEN Goes(to) ELSE Ends(how)

\* A request with a callback for ProcessEvents, and the pump that follows.
Request(what) ==
  requested' = what /\ answer' = "none" /\ turns' = Turns /\ UNCHANGED got
-----------------------------------------------------------------------------
\* The library, the display, the window, the surface: any may be missing.
Start ==
  /\ pc = "start"
  /\ \/ Ends("failed") /\ UNCHANGED waiting
     \/ Goes("pump") /\ Request("adapter")
  /\ UNCHANGED <<program, used, gpu, screen>>

\* Mutant of PumpReturn: the predicate of the first request serves them all.
PumpReturnStale ==
  /\ pc = "pump" /\ turns > 0 /\ got # << >>
  /\ Goes(requested)
  /\ UNCHANGED <<program, waiting, used, gpu, screen>>

\* pump: a turn asks the predicate first, then lets callbacks run; when there
\* are no turns left it raises.
PumpReturn ==
  /\ pc = "pump" /\ turns > 0 /\ requested \in DOMAIN got
  /\ Goes(requested)
  /\ UNCHANGED <<program, waiting, used, gpu, screen>>

PumpTurn ==
  /\ pc = "pump" /\ turns > 0 /\ requested \notin DOMAIN got
  /\ turns' = turns - 1
  /\ got' = IF answer = "none" THEN got
            ELSE [k \in DOMAIN got \cup {requested} |-> IF k = requested THEN answer ELSE got[k]]
  /\ UNCHANGED <<program, pc, status, requested, answer, used, gpu, screen>>

PumpRaise ==
  /\ pc = "pump" /\ turns = 0
  /\ Ends("timed out")
  /\ UNCHANGED <<program, waiting, used, gpu, screen>>

\* What a callback put into the dictionary, unless that is null or an error.
Brought(what) == what \in DOMAIN got /\ got[what] = "good"

\* A null adapter ends both programs; the device is requested from any other.
HaveAdapter ==
  /\ pc = "adapter"
  /\ IF Brought("adapter")
     THEN Goes("pump") /\ Request("device") /\ used' = used \cup {"adapter"}
     ELSE Ends("failed") /\ UNCHANGED <<waiting, used>>
  /\ UNCHANGED <<program, gpu, screen>>

\* interactive.py asserts the device, then the shader and the pipeline; app.py
\* checks none of them and hands a null device to the library.
HaveDevice ==
  /\ pc = "device"
  /\ used' = IF program = "headless" \/ Brought("device") THEN used \cup {"device"} ELSE used
  /\ IF program = "headless"
     THEN Checked(Brought("device"), "undefined", "submit")
     ELSE \E built \in BOOLEAN : Checked(Brought("device") /\ built, "failed", "configure")
  /\ UNCHANGED <<program, waiting, gpu, screen>>
-----------------------------------------------------------------------------
\* app.py: the frame and its copy to the readback buffer, then the request to
\* map that.
Submit ==
  /\ pc = "submit"
  /\ gpu' = [gpu EXCEPT !.work = "submitted"]
  /\ Goes("pump") /\ Request("map")
  /\ UNCHANGED <<program, used, screen>>

\* Mutant of ReadBack: the status of the mapping is not looked at.
ReadBackUnchecked ==
  /\ pc = "map"
  /\ Ends("done")
  /\ gpu' = [gpu EXCEPT !.png = IF gpu.mapped THEN gpu.buffer ELSE "garbage", !.mapped = FALSE]
  /\ UNCHANGED <<program, waiting, used, screen>>

\* The mapped range is copied, unmapped, and written as a PNG without padding.
ReadBack ==
  /\ pc = "map"
  /\ IF Brought("map")
     THEN /\ Ends("done")
          /\ gpu' = [gpu EXCEPT !.png = IF gpu.mapped THEN gpu.buffer ELSE "garbage",
                                !.mapped = FALSE]
     ELSE Ends("failed") /\ UNCHANGED gpu
  /\ UNCHANGED <<program, waiting, used, screen>>
-----------------------------------------------------------------------------
\* interactive.py: the surface takes the size the window has.
Configure ==
  /\ pc = "configure"
  /\ size' = window /\ surface' = window
  /\ Goes("loop")
  /\ UNCHANGED <<program, waiting, used, gpu, window, closed, uniform, held, frame>>

\* Mutant of LoopTop: the size is taken over without configuring the surface.
LoopTopUnconfigured ==
  /\ pc = "loop"
  /\ IF closed THEN Ends("done") /\ UNCHANGED <<size, surface, uniform>>
     ELSE /\ Goes("acquire")
          /\ size' = IF window # 0 THEN window ELSE size
          /\ uniform' = size'
          /\ UNCHANGED surface
  /\ UNCHANGED <<program, waiting, used, gpu, window, closed, held, frame>>

\* The window is closed or Esc pressed; else a new size that is not 0 is taken
\* over, and the uniform buffer is written.
LoopTop ==
  /\ pc = "loop"
  /\ IF closed THEN Ends("done") /\ UNCHANGED <<size, surface, uniform>>
     ELSE /\ Goes("acquire")
          /\ size' = IF window # 0 THEN window ELSE size
          /\ surface' = IF window \notin {0, size} THEN window ELSE surface
          /\ uniform' = size'
  /\ UNCHANGED <<program, waiting, used, gpu, window, closed, held, frame>>

\* No texture, as after a resize: the next turn of the loop.
AcquireNone ==
  /\ pc = "acquire"
  /\ Goes("loop")
  /\ UNCHANGED <<program, waiting, used, gpu, screen>>

\* A texture: the frame is encoded, submitted and presented.
AcquireAndDraw ==
  /\ pc = "acquire"
  /\ Goes("release")
  /\ held' = FrameHandles
  /\ UNCHANGED <<program, waiting, used, gpu, window, closed, size, surface, uniform, frame>>

\* Each handle of the frame, then the frame is counted.
Release ==
  /\ pc = "release" /\ held # << >>
  /\ held' = [i \in 1..Len(held) - 1 |-> held[i + 1]]
  /\ UNCHANGED <<program, pc, status, waiting, used, gpu, window, closed, size, surface,
                 uniform, frame>>

FrameDone ==
  /\ pc = "release" /\ held = << >>
  /\ frame' = frame + 1
  /\ IF frame + 1 >= MaxFrames THEN Ends("done") ELSE Goes("loop")
  /\ UNCHANGED <<program, waiting, used, gpu, window, closed, size, surface, uniform, held>>
-----------------------------------------------------------------------------
\* The driver executes what was submitted, and answers a request, a mapping only
\* after the work that writes the buffer.
Execute ==
  /\ gpu.work = "submitted"
  /\ gpu' = [gpu EXCEPT !.work = "executed", !.buffer = "pixels"]
  /\ UNCHANGED <<program, pc, status, waiting, used, screen>>

Answer ==
  /\ requested # "none" /\ answer = "none"
  /\ \E a \in {"good", "bad"} :
       /\ requested = "map" /\ a = "good" => gpu.work = "executed"
       /\ answer' = a
       /\ gpu' = [gpu EXCEPT !.mapped = @ \/ (requested = "map" /\ a = "good")]
  /\ UNCHANGED <<program, pc, status, requested, got, turns, used, screen>>

Resize ==
  /\ program = "interactive"
  /\ window' \in Sizes \ {window}
  /\ UNCHANGED <<program, pc, status, waiting, used, gpu, closed, size, surface, uniform,
                 held, frame>>

Close ==
  /\ program = "interactive" /\ ~closed
  /\ closed' = TRUE
  /\ UNCHANGED <<program, pc, status, waiting, used, gpu, window, size, surface, uniform,
                 held, frame>>

Program == Running /\ (\/ Start \/ PumpReturn \/ PumpTurn \/ PumpRaise \/ HaveAdapter \/ HaveDevice
                       \/ Submit \/ ReadBack \/ Configure \/ LoopTop \/ AcquireNone
                       \/ AcquireAndDraw \/ Release \/ FrameDone)

AppNext == \/ Program
           \/ Running /\ (Execute \/ Answer \/ Resize \/ Close)
           \/ Ended /\ UNCHANGED appVars

AppSpec == AppInit /\ [][AppNext]_appVars
-----------------------------------------------------------------------------
(* No call is given a handle before the callback that brings it has run, nor *)
(* a null one, except for the device of app.py, which it does not check.     *)
HandlesAwaited ==
  /\ \A h \in used : h \in DOMAIN got /\ (Brought(h) \/ <<program, h>> = <<"headless", "device">>)
  /\ status = "undefined" => program = "headless" /\ got.device = "bad"

(* app.py ends well only with the pixels of the frame it submitted: the copy *)
(* had been executed and the buffer was mapped when it was read.             *)
PixelsComplete == program = "headless" /\ status = "done" => gpu.png = "pixels"

(* A frame is drawn at the size its surface has been configured to, whatever *)
(* the window does meanwhile, and no handle of a frame is left in the next.  *)
FramesConsistent ==
  /\ pc \in {"acquire", "release"} => uniform = surface
  /\ held # << >> => pc = "release"
  /\ program = "interactive" /\ status = "done" => held = << >> /\ (closed \/ frame = MaxFrames)
=============================================================================
