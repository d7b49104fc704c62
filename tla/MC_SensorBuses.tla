--------------------------- MODULE MC_SensorBuses ---------------------------
\* Five stations: variables of one SDI-12 sensor, one of them a value it does
\* not send; the charger with the battery monitor; a converter; a pressure
\* sensor; a humidity sensor and a generic register.  The handle cache has
\* room for one device, so that the last station finds it full.
EXTENDS SensorBuses

MC_Driver == <<"ads111x", "ltc4015", "lps22hb", "hdc1080", "generic">>

MC_Stations == {
    [sdi |-> {<<1, 0>>, <<1, 2>>}, i2c |-> {}, battery |-> FALSE],
    [sdi |-> {}, i2c |-> {2}, battery |-> TRUE],
    [sdi |-> {}, i2c |-> {1}, battery |-> FALSE],
    [sdi |-> {}, i2c |-> {3}, battery |-> FALSE],
    [sdi |-> {}, i2c |-> {4, 5}, battery |-> FALSE]}
=============================================================================
