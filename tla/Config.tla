-------------------------------- MODULE Config --------------------------------
(***************************************************************************)
(* sdk_config.h: the parts of the SDK that are built in, the priorities of *)
(* the interrupts that the application handles, and the sizes and modes    *)
(* that the other modules depend on.                                       *)
(***************************************************************************)
EXTENDS Integers

(* The modules of the SDK's sections for BLE whose _ENABLED is 1.          *)
BleModules == {"BLE_ADVERTISING", "PEER_MANAGER"}
BleServices == {"BLE_BAS", "BLE_DIS", "BLE_HIDS"}

(* Of drivers and libraries, those that main's calls depend on.            *)
ADC_ENABLED == 1
GPIOTE_ENABLED == 1
UART_ENABLED == 1
APP_SCHEDULER_ENABLED == 1
APP_TIMER_ENABLED == 1
FDS_ENABLED == 1
FSTORAGE_ENABLED == 1

Flags == [ADC           |-> ADC_ENABLED,
          GPIOTE        |-> GPIOTE_ENABLED,
          UART          |-> UART_ENABLED,
          APP_SCHEDULER |-> APP_SCHEDULER_ENABLED,
          APP_TIMER     |-> APP_TIMER_ENABLED,
          FDS           |-> FDS_ENABLED,
          FSTORAGE      |-> FSTORAGE_ENABLED]

Built == BleModules \cup BleServices \cup {part \in DOMAIN Flags : Flags[part] = 1}

(* A lower number is a higher priority; the main loop has none.            *)
ADC_CONFIG_IRQ_PRIORITY == 3
GPIOTE_CONFIG_IRQ_PRIORITY == 3
UART_DEFAULT_CONFIG_IRQ_PRIORITY == 3

IrqPriority == [ADC    |-> ADC_CONFIG_IRQ_PRIORITY,
                GPIOTE |-> GPIOTE_CONFIG_IRQ_PRIORITY,
                UART   |-> UART_DEFAULT_CONFIG_IRQ_PRIORITY]

Preempts(irq, other) == IrqPriority[irq] < IrqPriority[other]

(* The UART has no way to make the keypad wait.                            *)
UART_DEFAULT_CONFIG_HWFC == FALSE

(* Flash operations, a garbage collection among them, that fds queues.     *)
FDS_OP_QUEUE_SIZE == 4

=============================================================================
