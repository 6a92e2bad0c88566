-------------------------------- MODULE Wiring --------------------------------
(***************************************************************************)
(* LibopenpressoConfigMaker: the components libopenpresso is configured    *)
(* with and the labels by which they refer to each other, under the        *)
(* StateManager that activates three of them.                              *)
(*                                                                         *)
(* A configuration is the record of its fields that hold a label; numbers, *)
(* pins and addresses are left out.                                        *)
(***************************************************************************)
EXTENDS Machine, Graphs, TLC

\* Sensors, buttons, LEDs and the valve's output refer to nothing.
Unwired ==
    {"pressure_sensor", "temperature_sensor", "weight_sensor", "ac_sensor",
     "power_button", "brew_button", "steam_button",
     "power_led", "brew_led", "steam_led", "valve_driver"}

InternalFlowSensor == [pressureSensor    |-> "pressure_sensor",
                       pumpPulseController |-> "pump_driver"]

PulseControlledDevice == [acZeroCrossSensor |-> "ac_sensor"]

PowerController(driver) == [pulseControlledDevice |-> driver]

PressureController == [pulseController |-> "pump_driver",
                       sensor          |-> "pressure_sensor"]

\* A slip: the power controller of the heater instead of the pump's.
FlowRateControllerOnHeater == [powerController |-> "heater_power_controller",
                               sensor          |-> "weight_sensor"]

FlowRateController == [powerController |-> "pump_power_controller",
                       sensor          |-> "weight_sensor"]

InternalFlowRateController == [pumpFlowSensor |-> "flow_sensor"]

SteamTemperatureController == [powerController |-> "heater_power_controller",
                               sensor          |-> "temperature_sensor"]

BrewTemperatureController == [powerController |-> "heater_power_controller",
                              sensor          |-> "temperature_sensor",
                              flowCounter     |-> "flow_sensor"]

BrewProfiler == [pressureController |-> "pressure_controller",
                 flowController     |-> "flow_rate_controller",
                 valveController    |-> "valve_driver",
                 weightSensor       |-> "weight_sensor"]

SteamController ==
    [preheatController             |-> "steam_preheat_temperature_controller",
     steamingTemperatureController |-> "steam_active_temperature_controller",
     temperatureSensor             |-> "temperature_sensor",
     pressureSensor                |-> "pressure_sensor",
     flowRateController            |-> "internal_flow_rate_controller"]

(* DeviceConfig::components.                                               *)
Component ==
    [label \in Unwired |-> <<>>]
    @@ "flow_sensor" :> InternalFlowSensor
    @@ "pump_driver" :> PulseControlledDevice
    @@ "heater_driver" :> PulseControlledDevice
    @@ "pump_power_controller" :> PowerController("pump_driver")
    @@ "heater_power_controller" :> PowerController("heater_driver")
    @@ "pressure_controller" :> PressureController
    @@ "flow_rate_controller" :> FlowRateController
    @@ "internal_flow_rate_controller" :> InternalFlowRateController
    @@ "brew_temperature_controller" :> BrewTemperatureController
    @@ "steam_preheat_temperature_controller" :> SteamTemperatureController
    @@ "steam_active_temperature_controller" :> SteamTemperatureController
    @@ "brew_profiler" :> BrewProfiler
    @@ "steam_controller" :> SteamController

-----------------------------------------------------------------------------
(* The fields through which a component drives another one; through the    *)
(* others it reads a sensor.  The pump's flow controller drives the pump   *)
(* whose pulses its flow sensor counts.                                    *)
Driving ==
    {"pulseControlledDevice", "pulseController", "powerController",
     "pumpFlowSensor", "pumpPulseController", "preheatController",
     "steamingTemperatureController", "flowRateController",
     "pressureController", "flowController", "valveController"}

Wires(fields) ==
    [node |-> DOMAIN Component,
     edge |-> UNION {{<<c, Component[c][f]>> :
                        f \in DOMAIN Component[c] \cap fields}
                     : c \in DOMAIN Component}]

\* What starts refers to over exactly n references.
Depth == 6
Chain(G, starts) ==
    LET after[n \in 0..Depth] ==
          IF n = 0 THEN starts ELSE AllSuccessors(G, after[n - 1])
    IN  after

(* Every label is a component's, and no component depends on itself: no     *)
(* chain of references has Depth of them.                                  *)
ASSUME WiringAssumption ==
    LET all == Wires(UNION {DOMAIN Component[c] : c \in DOMAIN Component})
    IN  IsDirectedGraph(all) /\ Chain(all, all.node)[Depth] = {}

Actuators == {"pump_driver", "heater_driver", "valve_driver"}

(* The actuators that each component drives, itself or through others.     *)
Drives ==
    [c \in DOMAIN Component |->
       {a \in Actuators : \E n \in 0..Depth : a \in Chain(Wires(Driving), {c})[n]}]

(* The components StateManager has activated.                              *)
Active ==
    {c \in {"brew_temperature_controller", "steam_controller", "brew_profiler"} :
       \/ c = "brew_temperature_controller" /\ brewHeat
       \/ c = "steam_controller" /\ steamHeat
       \/ c = "brew_profiler" /\ brewing}

(* The pump, the heater and the valve each obey one active component at a   *)
(* time: brewing and steaming share the pump, the temperature controllers   *)
(* share the heater, and only the order of StateManager's operations keeps  *)
(* them apart.                                                             *)
OneDriverPerActuator ==
    ~broken => \A c, d \in Active : c # d => Drives[c] \cap Drives[d] = {}
==============================================================================
