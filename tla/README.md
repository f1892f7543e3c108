# Verification of the ECE 544 rover

This directory holds TLA+ modules about the program and the hardware of this
repository, the TLC configurations that check them on small instances, and
proofs that TLAPS checks for every instance. It is written from the source under
`src/`; paths below are relative to it.

## The system

A rover with two motors is driven by a MicroBlaze on a Nexys4 FPGA board. The C
application polls its devices in one endless loop; the peripherals are Verilog
blocks behind AXI-Lite slaves.

| Component | State it keeps | Operations | What makes it correct | Hard because of |
|---|---|---|---|---|
| Rover application, `ece544_IP_Test.c` | motor commands `MOT_CONR`/`MOT_CONL`, `DirSafe`, last pins, last sensor sample, last command byte | `main`, `do_init`, `PWMdetection` (splash screen, loop, exit) | motors never change direction under power, stop and obstacles are obeyed, a start that fails before the ADC is set up never drives | commands, sensor and pins are of different ages; two bridges written one after the other; exit and restart keep globals |
| Motor wiring, `n4fpga.v` | none | connects enables, directions, pins, reset | each wheel's power and direction belong together | the two bridges are wired crosswise |
| Motor driver: encoder detection, `encoder_detection.v` | state machine, two counters, two flags | clock, reset | counts are stable when announced, a stop is recognised | flags lag and are not reset, one state has no timeout |
| Motor driver: direction and software, `motor_dir_ctrl.v`, `motor_driver_top.v`, `motor_driver.c` | direction pins, registers 2 and 3, the caller's direction | `setPWM`, `setPWM_setDir`, `readEnc`, `readEnc_cnt_rdy` | direction changes at rest, a call ends | software polls a counter that hardware clears at any time |
| Motor driver: PWM, `pwm_gen.v` | output and two counters | clock, reset, new set point | parts within the period, output keeps pulsing | set point changes while it is compared |
| AXI-Lite slaves, `*_S00_AXI.v` | channel flags, registers | read, write, reset | each access atomic, one response each | channels of a write arrive in any order, reads overlap writes, responses wait |
| Bluetooth UART, `PmodBT2.c`, `xuartns550*.c` | send and receive buffers, last errors, interrupt enables, FIFOs | send, receive, options, format, baud rate, thresholds, five kinds of interrupt, callbacks | every byte sent and received once and in order; what was begun ends | polled calls, handler and callbacks share buffers and one enable register that each saves and restores |
| SPI driver, `xspi*.c` | busy flag, counts of the transfer, slave select, control and interrupt registers, FIFOs | initialise, start, stop, reset, options, slave select, polled and interrupt-driven transfer, abort | bytes exchanged once, in order, with the selected slave; a transfer ends | the device shifts on its own, faults abort a transfer half way, the interrupt status is cleared by toggling |
| OLED display, `PmodOLEDrgb.c` | control pins, cursor | begin, end, enable, backlight, drawing, strings | power sequence, commands and pixels are not confused | one pin tells commands from pixels while the SPI device shifts them out |
| Rotary encoder, `PmodENC_1.0` | filter, count, configuration, driver's instance | clock, initialise, configure, clear, read | one event per click, configuration kept | bouncing contacts, two calls share one register |
| Nexys4 I/O, `nexys4IO_2.0` | LEDs, colour LEDs, digits and points | about 25 driver functions | a call changes what it names | read-modify-write of packed registers, several writes per call |
| PWM detection, `pwm_detection.v` and driver | state machine, counters, ready flags and interrupts | clock, reset, reads | the two counts belong to one period | two separate reads |
| H-bridge peripheral IPHB3 | enable and direction register | register writes | - | not in the repository |
| Pmod bridge, block design, IP packaging, earlier test program | - | - | - | configuration or a course example |

The parts interact through registers (software polls hardware), through wires
(`motor_is_running` from encoder detection to direction control) and through the
world: the motor turns the sensor, the phone sends bytes, the helper board sets
four pins. Interrupts stay disabled in this application (`microblaze_enable_interrupts`
and `XIntc_Enable` are commented out), so the loop runs undisturbed; concurrency is
between the program and the hardware around it. The UART and SPI drivers are written
for interrupts all the same, and their models contain the handlers, since these are
where the drivers are hard to get right.

## Modules

| Module | Models | Correspondence |
|---|---|---|
| `DirectionInterlock` | what both motor interfaces promise | abstract: `powered` and `dir` of each wheel; `SetDir` only at rest |
| `RoverControl` | `main`, `do_init`, `PWMdetection` and the wires of `n4fpga.v` | one action per device access, `pc` is the next access; `duty` and `dir` are registers 0 and 3 of the bridges |
| `SensorTiming` | - | the constants of the sensor's counters, shared by the next two |
| `EncoderDetection` | `encoder_detection.v` | `Clock` is a rising edge that updates all registers from their old values; `Pin` is the sensor |
| `MotorDriver` | `motor_dir_ctrl.v`, `motor_driver_top.v`, `motor_driver.c`, a motor | instantiates `EncoderDetection` (`E`); one action per bus access |
| `PwmGen` | `pwm_gen.v` | `HighPart`, `LowPart`, and set points between two clocks |
| `RegisterMap` | - | the registers of a slave: which exist, which software writes, how strobes merge a word |
| `RegisterFile` | what a register slave promises | abstract: a read and a write, each taking effect at one instant between call and return |
| `AxiLiteSlave` | `motor_driver_v1_0_S00_AXI.v`, and so those of PWM detection and Nexys4 I/O | `Slave` is one conjunct per `always` block, `Master` drives the other side of the channels; a step is a rising clock edge |
| `XUartNs550` | `PmodBT2.c`, `xuartns550.c`, `_intr.c`, `_options.c`, `_format.c`, `_l.c` and a 16550 | `main.pc` is the program's next register access; `event` is the callback that runs, or why the handler copies received bytes |
| `SpiBus` | what an SPI transfer promises | abstract: bytes asked for, exchanged one by one, then done once or aborted |
| `XSpi` | `xspi.c`, `xspi_options.c`, `xspi.h` and its device | `pc.main` and `pc.isr` are the points at which device and handler can come in between; macros of `xspi.h` are operators on the device |
| `PmodOLEDrgb` | `PmodOLEDrgb.c` and the display | extends `XSpi`; a function is the sequence of its pin accesses and transfers, `todo` is what is left of it |
| `PmodENC` | knob, `encoder.v`, its register slave, `PmodENC.c` and its self test | `Clock` is the logic, a call is the sequence of its bus accesses |
| `Nexys4IO` | `nexys4IO.c` and its self test | a call computes its writes from what it reads; `WriteReg` does them one at a time |
| `MCOled` | - | the display's size and the program's windows and strings for the run `oled` |
| `RoverProofs`, `MotorProofs`, `PwmProofs`, `AxiProofs`, `PmodENCProofs`, `Nexys4IOProofs`, `XUartProofs`, `XSpiProofs` | - | the theorems; the display's are in `XSpiProofs` |

`RoverControl` and `MotorDriver` each instantiate `DirectionInterlock` under a
refinement mapping: for the rover the wheels are seen through the crossed wires
(`Powered`, `WheelDir`), for the motor driver power is the set point and the
direction is the register. `AxiLiteSlave` instantiates `RegisterFile`: a write is called
while a channel is raised and done when both are accepted. `XSpi` instantiates `SpiBus`: a
byte is exchanged when the device has shifted it, wherever the driver has put it since. Next to a
definition stand the operators that replace it in
mutation runs ("Fault: ..."): each is a plausible mistake in that code, and every property
that a passing run checks is violated by one of them.

What is abstracted:

- A command byte is a number: 0 is automatic, 1 to 6 are the commands, 7 is every
  other byte. The four pins use the same numbers up to 15.
- A speed is `off`, `slow` or `fast` (0, 0x164 and 0x1F0).
- Display, LED and console output are left out. So is the voltage: a sample only
  tells whether it was below .15.
- `output = "\n"` stores the low byte of an address that the linker chooses. It is the
  constant `LitByte`.
- The failures of `do_init` are kept: the self test that ends the program, and the
  early returns that `main` ignores (`adc`). If the ADC was not set up by then, its driver's
  assertion stops the program in its first loop turn (`hung`). If `XSysMon_SelfTest()` failed, the
  instance is ready and the loop runs: the ADC may answer with any sample, or never finish a
  conversion, so that the busy wait does not end. A failure before the display is set up may
  stop the program earlier, in the splash screen; that is a subset of the modelled behaviours.
- In `MotorDriver`, two bus accesses are at least `BusClocks` = 2 clocks apart, the
  fastest rate at which the slave accepts writes.
- `AxiLiteSlave` knows a word as a function from byte lanes to values. `axi_bresp` and
  `axi_rresp` are constant and left out. A register that hardware drives reads as any
  word. The master has one write and one read in flight ("This design expects no
  outstanding transactions", line 149 of the slave) and holds a channel until it is
  accepted, as AXI demands.
- A reset of the board clears the peripherals. The flags of the encoder detection have
  no reset value and keep theirs, and a motor coasts on.
- `XUartNs550` numbers the bytes to be sent after the one that left the line last, and the bytes
  received from the first one of the current receive buffer; a number is the byte, in the FIFOs, in
  the buffer and in the driver's pointers alike. So a lost, repeated or overtaken byte is a wrong
  number and no history is kept. A break is an entry of the receive FIFO of its own. In the passing
  run only the callback for sent data sends (`SendFromReceive = FALSE`). The driver's example sends
  from the one for received data as well (`examples/main.c:82`); `uart_send_from_receive` has that case.
- The register accesses of the UART's program are split where the handler could tell. The loop of
  `XUartNs550_ReceiveBuffer()` takes one entry of the FIFO per step, in the program (`RecvStore`)
  and in the handler (`HandlerStore`), since bytes come in meanwhile. The handler does not nest: the
  rest of it is one step up to the callback, which runs in a step of its own and may call
  `XUartNs550_Recv()` or `XUartNs550_Send()`.
- `XSpi` numbers the bytes of a transfer, too. Its device may have FIFOs or only a register each way.
  Program and handler may each begin transfers, the handler from its callback for an error as well as
  from the one for a finished transfer. `XSpi_SetOptions()` reads the control register in one step and
  writes it in another.
- Two assumptions about the surroundings of `XSpi` are named in the module. `CopedWith`: in the passing
  run there are no mode faults of a device without FIFOs (a byte stays in its transmit register), in a
  polled transfer (it hangs), or while the handler or `XSpi_Transfer()` runs (it is not told of), and no
  rejected command in an interrupt-driven transfer; `spi_done` allows all of these. `InterruptsNoCall`:
  a handler that has interrupted a call of the program begins no transfer. The code does not see
  to that: without it `BytesInPlace` and `TransferEnds` fail, since the functions that
  look at the busy flag act on it later.
- `PmodOLEDrgb` cuts a transfer off at `MaxBytes` and leaves delays, colours and the contents of
  fonts and bitmaps out. `Windows` are the rectangles that the program draws bitmaps in, `Strings`
  the strings that it writes, `Positions` where it sets the cursor, negative ones included. Its functions
  are called in any order, on a display that runs and on one that is stopped; only
  `OLEDrgb_begin()` may come before the SPI instance is initialised, since the driver of the SPI device
  asserts that it is. On a running display `begin` does not initialise the instance, as
  `XSpi_CfgInitialize()` refuses that, but writes all pins and opens the display again.
- `PmodENC`: the logic has settled before a contact changes again, as the header of `encoder.v`
  assumes ("running much much faster"). A click that was begun is completed; before it is,
  the contact that changed last may bounce any number of times.
- `Nexys4IO`: a register is a tuple of its fields, a bit of the bits that no field uses is kept where
  the driver masks them (`rest` in a colour that `setRGB_DATA` is given). `Numbers` and the other sets
  are the arguments that the program passes.

## Runs

| Run | Checks | Shows |
|---|---|---|
| `rover` | `NoAdcNeverDrives`, `WheelsAligned`, `AutoObeysSensor`, `ImplementsInterlock`, `StopIsObeyed`, `ObstacleStops` | the rover only reverses at rest, obeys the sensor, never drives after a start that failed before the ADC was set up; a stop at the head of the queue and a lasting obstacle do stop it |
| `motor` | `NoFlipWhileMeasuring`, `ImplementsInterlock`, `LowMeansStopped`, `StopWaitEnds`, `DirectionSettles` | when the direction register and the pins may change, that a sensor that rests low ends the wait |
| `pwm` | `PartsBounded`, `KeepsPulsing` | changing set points do not break the period |
| `axi` | `ImplementsRegisterFile`, `AccessesEnd` | overlapping reads and writes are atomic and none hangs |
| `uart` | `TypeOK`, `TransmitsInOrder`, `ReceivesInOrder`, `SentIsSent`, `SendEnds` | bytes go out and come in once and in order, polled or by interrupts, while options, thresholds, format and baud rate change; a message is reported when and only when it was sent |
| `spi` | `TypeOK`, `BytesInPlace`, `ReachesItsSlave`, `ImplementsSpiBus`, `TransferEnds` | a transfer, also one that a mode fault aborts, leaves no byte behind, goes out under the selection made last, to one slave at most, and ends |
| `oled` | `OledTypeOK`, `DisplayAsAsked`, `CommandsAreCommands`, `BytesReachDisplay`, `CallsReturn` | in any order of calls the display is, after each, on if that was asked for, and powered; every byte finds it selected and powered, and pixels are taken for pixels |
| `pmodenc` | `TypeOK`, `EveryClickIsAnEvent`, `ReadyAndConfigured` | a bouncing click is one event; self test, clearing and configuration do not upset each other |
| `nexys` | `TypeOK`, `NumberShown`, `EnablesKept`, `OnlyWhatWasAsked` | every call changes what it names, at each of its writes; a number that was put is shown, except the 0000 that `putU16Hex(SSEGHI, ..)` makes of any |

Three runs show where the code does not do what a comment says:

| Run | Property | The code | The comment |
|---|---|---|---|
| `motor_clockwise` | `ClockwiseAtRest` | the polled count is 0 for a moment while the motor runs, so the speed is resumed and the pins flip afterwards | "then waits for motor to stop", `motor_driver.c:57` |
| `uart_send_from_receive` | `SendEnds` | a receive callback sends while the program is between the two accesses to the interrupt enables in `ReadFcrRegister()`, as it is when `BT2_SetupInterruptSystem()` sets its options: the transmitter's enable is lost and so is the rest of the message | "will continue sending data until the buffer has been sent", `xuartns550.c:230` |
| `spi_done` | `DoneIsTrue` | after an abort the transmitter's interrupt is still enabled, and a byte that was on its way reports the aborted transfer as done, with 0 bytes | "The requested data transfer is done", `xspi.c:972` |

### Known differences without a run

The models keep these, and the properties above are stated so that they hold with them.

- Rover. Command 1 drives the right wheel's bridge only, though the comment says "turn right"
  (`ece544_IP_Test.c:585`). The loop ends with BTNC only, though a comment names the encoder's
  button as well (`:492`), and the splash screen polls switch 0 where the header names buttons (`:28`).
- Motor. `setPWM_setDir` writes the direction while the peripheral may report a running motor, and its
  wait need never end if the sensor rests high: that state has no timeout, and the count is 0 only
  at the clock at which it wraps. A set point of 0 leaves a pulse in every period. A measured count
  is only good while it is announced, and software would read the announcement and the count in two
  accesses that nothing protects; nothing in the repository does.
- UART. `BT2_sendData()` in interrupt mode sends bytes twice, as it goes on from the count that
  `Send` returned while the handler sends the same bytes; the model calls it in polled mode. `Recv` and
  `ReadFcrRegister` may bring back an enable of the transmitter that the handler has just removed, so
  a message is reported twice. Looking for an empty transmitter (`Send`, `IsSending`) takes errors
  of the receiver away, and `GetLastErrors` may clear one that it has not returned. Received bytes
  without a buffer keep the interrupt pending. A `Recv` that is satisfied at once has no
  callback. `BT2_changeBaud()` leaves the driver's rate as it was and
  returns `XST_SUCCESS` for any rate. The error of a baud rate is computed modulo 2^32, so for
  a fast clock a rate that is far off may pass.
- SPI. `XSpi_IntrClear` writes the status it reads, which turns round every latched interrupt, though
  its comment says other bits keep their setting (`xspi.h:527`). `XSpi_SetSlaveSelect(0)`, documented
  as the way to deselect all slaves (`xspi.c:855-862`), stores another value than the one that
  `XSpi_Transfer()` refuses (`:584`, `:923`): the transfer that follows is not refused with
  `XST_SPI_NO_SLAVE` (`:521`) but shifted out to nobody. The run `spi` has this selection (`{}`), and
  `ReachesItsSlave` says so. The comment in `XSpi_SetOptions()` that there is "No need to worry about a
  critical section here" (`xspi_options.c:134`) is wrong if a callback begins a transfer meanwhile
  (`InterruptsNoCall` above). A mode fault leaves a byte in the transmit register of a device
  without FIFOs and hangs a polled transfer. `XSpi_Reset` needs a caller that has masked interrupts.
- OLED. `OLEDrgb_SetCursor()` promises to clamp its arguments (`PmodOLEDrgb.c:324-326`) but does not
  clamp negative ones (`:332-338`): the cursor leaves the display, and `OledTypeOK` has no lower
  bound for it. `OLEDrgb_end()` stops the SPI device before it asks for the display to be switched off,
  and `OLEDrgb_HostInit()` (`:875`) writes all pins, so both cut the supply under a lit display; the
  display is lit again when the call that did the latter returns. Functions that draw on a
  stopped display, or switch its backlight, do nothing and tell nobody.
  `EnablePmod(false)` floats the pin that its comment says is driven low. `begin` ignores the result
  of the SPI initialisation.
- Rotary encoder. A click during the clear pulse is lost. `pmodENC_clear_count()` fails when a
  click comes before it reads the count back, which `pmodENC_initialize()` ignores
  (`PmodENC.c:92-96`): an instance may be ready with a count that is not 0. The count is signed, the
  driver's `count` is not.
- Nexys4 I/O. `NX4IO_SSEG_putU16Hex(SSEGHI, ..)` shows 0000 whatever the number (`nexys4IO.c:843`),
  where its comment (`:805-816`) promises the number; `NumberShown` demands the 0000. The self test
  leaves a LED lit. Between the two writes of a number the digits show half of each.

### Bounds

- Rover: up to two bytes in the UART, a command of each kind (automatic,
  turn, fast, stop, reverse) and pins of each kind (invalid 0, turn, reverse); the other
  commands differ from these only in the speeds. With two bytes a stop can be at the head with
  another byte behind it, or behind another.
- Motor: a timeout of 2 clocks, counters that wrap at 6, one speed besides 0. The timeout, the state
  without a timeout and a count of 0 by overflow all happen. The real values are 10,000 (or
  50,000) and 2^32.
- AXI-Lite: one hardware register, one writable and one address without a register; words of
  one byte with two values. Reads, writes and their channels interleave freely, so a write
  to the wrong or to a stale address is seen in the writable register.
- PWM: a period of 6 with every set point from 0 to 6, registers that wrap at 16.
- UART: FIFOs of 2, messages of up to 3 bytes, so a message needs more than one filling; receive
  buffers of up to 2 of the bytes that a full FIFO holds; one break in the FIFO. Two baud rates, of
  which one is refused by `SetBaudRate` and accepted by `changeBaud`; a polled and an interrupt-driven
  set of options. Bytes arrive without limit.
- SPI: FIFOs of 2 or none, transfers of up to 5 bytes (three rounds, the last not full), two slaves
  and one line beyond them, of which none, each or both are selected, a mode with and one without
  loopback, three kinds of faults.
- OLED: the real FIFO of 16, transfers cut off at 40 bytes (three rounds), a display of two by two
  characters, so a string of two wraps at both edges; the cursor is set from -1 to 2, that is
  beyond every edge; bitmaps of the whole display, of one pixel and
  of none.
- Rotary encoder: a count from -4 to 3, so that it wraps in both directions, steps of 1 and of 18,
  which does not fit its field.
- Nexys4 I/O: three calls after the initialisation. Numbers with no, some and too many digits; codes
  of digits, of other characters and beyond the table.

### Fairness

- `RoverControl`: weak fairness of `Program`. The program is a single loop, interrupts are off, the
  ADC converts continuously. Nothing is assumed of the phone, the pins or the buttons.
- `MotorDriver`: weak fairness of the clock, of the driver's code, and of
  `ComeToRest`, since a motor without power comes to rest. No fairness of the sensor's edges.
- `PwmGen`, `AxiLiteSlave`: weak fairness of `Clock`. The clock runs. That the
  master raises both channels and takes responses is a premise of `AccessesEnd`.
- `XUartNs550`: the device sends, interrupts are taken and callbacks return (weak fairness). The
  program and the transmitter's interrupt get a strong one: bytes come in so slowly, at 115,200 baud,
  that the processor is not kept in receive interrupts for ever, and the loop of a receive call
  finds the FIFO empty at some time (strong fairness of `RecvStop`). The application promises nothing
  and may call what it likes.
- `XSpi`: the device shifts, the processor runs and takes pending interrupts, and an application that
  masked interrupts during a transfer unmasks them or resets. `PmodOLEDrgb`: the processor
  runs and the device shifts.

Deadlock is checked in every passing run: a board can always be reset, an application can always make
another call. `spi_done` does not check it, since it allows faults after which a polled transfer hangs.

## Proofs

Every theorem is about the specification with its constants left open, under
the named assumptions on the constants (sets of commands and pins within range, a
counter wider than its timeout, a register wider than its period).

- `RoverProofs`. `IInv` says how far the bridge registers may lag behind the commands at each
  `pc`: `IPHB3_0` holds `MOT_CONR` except just before it is written (`RightInv`),
  `IPHB3_1` is off or holds `MOT_CONL` except before either write (`LeftInv`). The
  properties alone are not inductive: `DirSafeIsTrue` speaks of the bridges at one point
  of the loop and of a flag set at another; `FlagInv` ties the flag to the commands and the lag
  ties the commands to the bridges. `DirInv` confines the disagreement of the two
  directions to the point between the writes, which only a stopped rover reaches;
  from it follow `WheelsAligned` and, with one lemma per kind of write,
  `Spec => ImplementsInterlock`.
- `MotorProofs`. First the encoder detection by itself: types, `RunningLag`, and `ReadyMeansStable`
  (within one clock; see the known differences) with the strengthening that no measurement is
  announced while a pulse is counted (`CountingInv`). Then the abstract interlock, which keeps powered
  wheels aligned for any set of wheels. Then the driver. `NoFlipWhileMeasuring` follows from the
  encoder's `RunningLag`, which is
  part of `IInv` here. `ImplementsInterlock` needs `StoppedInv`: between the stop and
  the write of the direction the set point stays 0.
- `PwmProofs`. `PartsBounded` and `OneCounter`, from the fact that a set point within the period
  leaves a low part that does not wrap (`OffRange`).
- `AxiProofs`. `OneResponse` and `Spec => ImplementsRegisterFile`. They need `ReadyInv`: the two
  ready signals of a write are equal although each has its own register, and a ready signal
  is high only for a valid channel whose address was latched.
- `PmodENCProofs`. `EveryClickIsAnEvent` for any count and any steps. `ClickInv` says where a click is
  whose event is still owed: `KnobInv` ties the knob's position to its last step and bounce,
  `SyncInv` says that the synchroniser has the contacts of this step or of the one before, and then
  either nothing is owed and the filter is quiet (`QuietInv`: its rotation bit is what the last position
  with equal contacts makes it, so a bounce cannot raise it again) or the event is in one of four
  places of the filter (`UnderWayInv`). `TypeCorrect` adds that what the calls have left to write
  fits the registers, and that the counter wraps within its width. `ReadyAndConfigured` rests on
  `ConfigInv`: while a call runs, the sequence of writes that it has left is one of four kinds (nothing
  that matters, `Storing`, `AboutToLoad`, `Testing`), and each kind says what the
  register of the configuration holds before the next write and will hold after the last. A self test that
  writes over the configuration is only allowed where an initialisation follows.
- `Nexys4IOProofs`. All four properties that the run checks, for any codes, colours and numbers (on
  `SSEGHI`, that `putU16Hex` shows 0000). A call
  makes its writes one by one, so what is true between calls is not true in the middle of one. The
  invariant speaks of the value that a register will have settled at when the writes left have been
  made (`Settles`): `Kept` has the enabled channels settle at what was asked for, `Spelling` has the
  digits settle at the number, and `Lawful` allows each write that is left only what the call
  names. That the digits of `bin2bcd()` and of `bin2hex()` are those of the number is proved by
  division with remainder, for every 32-bit number.
- `XUartProofs`. `TypeOK`, `TransmitsInOrder`, `ReceivesInOrder` and `SentIsSent`, for FIFOs, messages,
  buffers, options and rates of any size, under the hypothesis `~SendFromReceive`: only the
  callback for sent data sends, as in the passing run; `uart_send_from_receive` shows what
  happens otherwise. `Transmitter` ties the driver's pointer to what the device still has. `Receiver`
  says that buffer and FIFO together have every byte that came in, in order, whether the count of a
  copy is in the program's local variable or in the driver (`InBuffer`). Renumbering from a
  new buffer needs the least number that the FIFO holds (`Least`, from the well-foundedness of the
  natural numbers). `SentIsSent` is where the saved interrupt enables come in: `InterruptInv` says that
  the transmitter's interrupt is enabled, in the device or in the value that a call has saved and will
  restore, only while something is sent or a cause is latched; `SendInv` that
  a program in the middle of `XUartNs550_Send()` cannot be overtaken by a completion; `OptionsInv` that
  what a pass through the table of options has read is still true when it is written back.
  Each step's lemma has the conclusion `StepCorrect`: it keeps the invariant, and if it reports a
  message then all of it has gone.
- `XSpiProofs`, for `XSpi`. `BytesInPlace`, `ReachesItsSlave` and `Spec => ImplementsSpiBus`, for FIFOs and
  transfers of any size, under the hypothesis `~AllFaults`: the device raises only faults that the driver
  copes with (`CopedWith`). That excludes what `spi_done` shows, and what a mode fault does to a device
  without FIFOs. The invariant must say why the handler may trust what it read some steps ago.
  `HandlerInv`: a
  transmitter that it saw empty is still empty, a bus it saw in mode fault is still suspended. `LatchInv`:
  no interrupt of an earlier transfer is latched, and what is latched is what the handler
  has read, so that the toggling write clears it. `ProgramInv`: a function that
  looked at the busy flag is not overtaken by a transfer that the handler begins. `Room`: what is
  sent out fits the receive FIFO. Each step's lemma has the conclusion `StepCorrect`: it keeps the
  invariant, and is a step of `SpiBus` or none. `ReachesItsSlave` has an invariant of its own
  (`SelectInv`: from
  its start until an abort, the select lines of a transfer are those that the instance holds, which
  name at most one slave). It holds for any masks: `XSpi_SetSlaveSelect()` refuses those that name
  two slaves, and the transfer to nobody after `XSpi_SetSlaveSelect(0)` is allowed by the property.
- `XSpiProofs`, for `PmodOLEDrgb`. `OledTypeOK`, `DisplayAsAsked`, `CommandsAreCommands` and
  `BytesReachDisplay`, for a display,
  bitmaps and strings of any size; no hypothesis besides the module's assumption on its constants.
  `todo`, what is left of
  a function, is a path through named points of the driver's functions. The invariant has for each
  point what holds there of the SPI device (`DeviceAt`), of the pins (`PinsAt`) and of the display
  (`DisplayAt`), and `TransferInv` for a transfer that is under way. The points from a `HostInit` on a
  running display
  until its last command (`Opening`) have a lit display without supply, and those after `end` has
  stopped the SPI device have functions whose transfers are refused (`Accepts`). The display does what it
  is told when
  the first byte of a command has been shifted, which is in the middle of a transfer; the invariant
  therefore speaks of what the display shows or will show then (`Shown`). The steps inside XSpi need no
  second proof: its lemmas say what each does to the device. This carries over to the display's transfers,
  too: they keep every byte in place, implement `SpiBus` and reach the display. It does
  not follow from XSpi's theorems alone, as XSpi's application starts a device only with a
  handler of its own, and this driver starts one without.

Model-checked only: the liveness properties (`StopIsObeyed`, `ObstacleStops`, `LowMeansStopped`,
`StopWaitEnds`, `DirectionSettles`, `KeepsPulsing`, `AccessesEnd`, `SendEnds`, `TransferEnds`,
`CallsReturn`), which need fairness and are beyond the prover; and the three violations, which
are counterexamples. Every other property that a run checks is a theorem. The theorems
about types, `DirSafeIsTrue`, `ParkedBridges`, `BelievedDirection`, `RunningLag`, `ReadyMeansStable`,
`OneCounter` and `OneResponse` have no run of their own: they are parts of the invariants from which
the properties that are checked follow, or of what the encoder detection promises by itself.

## Not modelled

- The IPHB3 peripheral is not in the repository; its registers are variables of `RoverControl`.
- PWM detection: nothing in the repository instantiates it or calls its driver, so there is no
  order of reads to check. Its state machine has the shape of `EncoderDetection`.
- The hardware behind the Nexys4 registers (debouncer, refresh of the digits, LED PWM): it drives pins
  for a person to look at.
- UART and SPI self tests, statistics, and SPI operation as a slave: nothing calls them, and no
  other operation depends on them.
- More than one AXI access in flight, which the slave's comment excludes.
- Colours, fonts and the contents of bitmaps, the rover's display and console output, the Pmod bridge
  (no state), block design and packaging, and the parts of the earlier test program under `sdk/` that
  only show patterns to a person. `Nexys4IO` has its two sequences of calls that build on earlier ones.
